\* One Line with two possible egresses.
SPECIFICATION FairSpec
CONSTANTS
  Lines = {l1}
  Egresses = {direct, country}
  None = None
  Torn = Torn
  MaxChanges = 2
  MaxFaults = 2
INVARIANTS
  TypeOK
  OneWorker
  WorkerKeepsItsNetwork
  AvailableNeedsWorker
PROPERTIES
  ServiceableIsServed
  UnwantedIsStopped
CHECK_DEADLOCK FALSE
