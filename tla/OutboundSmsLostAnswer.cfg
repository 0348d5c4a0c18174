\* Two operations at once: r1 sends two segments, r2 one; one fault of any
\* kind.  Send calls end and the network may stay silent: no deadlock check.
SPECIFICATION Spec
CONSTANTS
  r1 = r1
  r2 = r2
  o1 = o1
  o2 = o2
  OperationOfR2 = o2
  Requests = {r1, r2}
  Operations = {o1, o2}
  OperationOf <- MCOperationOf
  SegmentsOf <- MCSegmentsOf
  SegmentsOfO1 = 2
  NoRequest = NoRequest
  NoProvider = NoProvider
  Synchroniser = Synchroniser
  MaxPending = 2
  MaxFaults = 1
  StoreFaults = TRUE
INVARIANT FailedMeansUndelivered
CHECK_DEADLOCK FALSE
