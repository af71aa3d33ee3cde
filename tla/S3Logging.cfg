SPECIFICATION FairSpec
CONSTANTS
  Own = own
  Catchup = {c1}
  Prior = {p1}
  Lines = 2
  Budget = 2
  MaxFaults = 1
  NoObject = NoObject
INVARIANTS
  TypeOK
  PassIsRemote
  NoSpuriousMismatch
  OnlyRealFailures
PROPERTIES
  DeletesNothingNeeded
  KeepsPromise
  VerdictReached
