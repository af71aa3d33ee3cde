SPECIFICATION Spec
CONSTANTS
  t1 = t1
  t2 = t2
  catchup = catchup
  Own = own
  Catchup = {catchup}
  Tasks = {t1, t2}
  RunOf <- Shared
  Budget = 2
  MaxFaults = 1
  MaxDeliveryCount = 2
PROPERTIES
  QueueProvesBroker
