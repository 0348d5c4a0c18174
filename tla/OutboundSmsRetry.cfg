\* r2 retries the operation of r1; one fault of any kind.
SPECIFICATION FairSpec
CONSTANTS
  r1 = r1
  r2 = r2
  o1 = o1
  o2 = o2
  OperationOfR2 = o1
  Requests = {r1, r2}
  Operations = {o1, o2}
  OperationOf <- MCOperationOf
  SegmentsOf <- MCSegmentsOf
  SegmentsOfO1 = 1
  NoRequest = NoRequest
  NoProvider = NoProvider
  Synchroniser = Synchroniser
  MaxPending = 2
  MaxFaults = 1
  StoreFaults = TRUE
INVARIANTS
  OperationSubmittedOnce
PROPERTIES
  QueuedSettles
  InboxIsReached
  ReportsDrain
CHECK_DEADLOCK FALSE
