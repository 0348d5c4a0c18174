\* Two operations at once: r1 sends two segments, r2 one; one fault of any
\* kind.  Send calls end and the network may stay silent: no deadlock check.
\* Two submissions with two references for them; two attempts at a
\* registration, two faults.
SPECIFICATION WorkerSpec
CONSTANTS
  r1 = r1
  r2 = r2
  o1 = o1
  o2 = o2
  OperationOfR2 = o2
  Requests = {r1, r2}
  Operations = {o1, o2}
  OperationOf <- MCOperationOf
  SegmentsOf <- MCSegmentsOf
  SegmentsOfO1 = 2
  NoRequest = NoRequest
  NoProvider = NoProvider
  Synchroniser = Synchroniser
  MaxPending = 2
  MaxFaults = 1
  StoreFaults = TRUE
  ReferenceSpace = 2
  ReportWait = 2
  MaxDelay = 1
  MaxSegments = 2
  MaxSubmissions = 2
  MaxSessions = 2
  MaxTime = 3
  Proxies = {p1, p2}
  NoSession = NoSession
  MaxAttempts = 2
  MaxNonces = 2
  MaxRefreshes = 2
  MaxSubmits = 1
  Lead = 2
  ExchangeLimit = 1
  MaxImsFaults = 2
INVARIANTS
  TypeOK
  SentMeansAcknowledged
  RejectedMeansUndelivered
  AcknowledgedReportIsRecorded
  ReportsAreCorrelated
  RegistrationIsSafe
PROPERTIES
  VerdictIsFinal
  ImplementsOutcome
CHECK_DEADLOCK FALSE
