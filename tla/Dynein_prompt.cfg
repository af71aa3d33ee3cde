SPECIFICATION Spec
CONSTANTS
  Attempts = 3
  Idle = 2
  MaxFaults = 0
  MaxRuns = 1
INVARIANTS
  PromptIsAnswered
