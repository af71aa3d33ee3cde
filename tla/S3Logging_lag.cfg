SPECIFICATION Spec
CONSTANTS
  Own = own
  Catchup = {c1}
  Prior = {p1}
  Lines = 2
  Budget = 2
  MaxFaults = 1
  NoObject = NoObject
PROPERTIES
  LagIsTolerated
