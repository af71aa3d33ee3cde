SPECIFICATION Spec
CONSTANTS
  Samples = 3
  MaxAttempts = 2
  Budget = 2
  MaxFaults = 1
INVARIANT AllReadBack
