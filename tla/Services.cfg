\* Each component with one or two faults of its own.
SPECIFICATION ServiceSpec
CONSTANTS
  l1 = l1
  l2 = l2
  s1 = s1
  q1 = q1
  q2 = q2
  q3 = q3
  k1 = k1
  k2 = k2
  CallSims = {s1, s2}
  RingSize = 1
  NoCursor = NoCursor
  MaxCallsIn = 2
  MaxBoots = 1
  MaxSwaps = 1
  MaxStops = 1
  VoiceLines = {l1, l2}
  Requests <- MCRequests
  MaxReadiness = 1
  MaxCallFaults = 1
  Nobody = Nobody
  MaxGrants = 2
  MaxPasswords = 2
  MaxPending = 1
  MaxDirectories = 1
  MaxInstallFaults = 1
  Handlers = {c1, c2}
  Tabs = {w1}
  Routes <- MCRoutes
  MaxLogins = 2
  MaxApiFaults = 1
  Remotes = {r1, r2}
  OnLines = {n1}
  Limit = 1
  MaxSequence = 4
  CallIds = {1, 2, 3}
  MaxClock = 2
  AnyRemote = AnyRemote
  AnyLine = AnyLine
  NoKey = NoKey
  MaxGenerations = 3
  MaxEdits = 1
  MaxNotifyStarts = 1
  NoChannel = NoChannel
  Clients = {c1, c2}
  DevicePorts = {1, 2}
  Equipment = {q1, q2, q3}
  Cards = {k1, k2}
  NoModem = NoModem
  NoCard = NoCard
  NoIdentity = NoIdentity
  ImeiOf <- MCImeiOf
  Asked = {"list", "add", "addLine", "radio", "imei", "send"}
  MaxExchanges = 1
  MaxRequests = 2
SYMMETRY Interchangeable
INVARIANTS
  NoneIsPassed
  OneCallOnALine
  InstallIsSafe
  WebIsSafe
  PlanIsSafe
PROPERTIES
  SetupIsGuarded
CHECK_DEADLOCK FALSE
