SPECIFICATION Spec
CONSTANTS
  Last = 3
  MaxFaults = 3
INVARIANTS
  TypeOK
  EvidenceIsOwn
PROPERTIES
  KeepsPromise
  NoFalseAlarm
