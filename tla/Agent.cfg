\* Each component with one or two faults of its own.
SPECIFICATION AgentSpec
CONSTANTS
  h1 = h1
  h2 = h2
  h3 = h3
  m1 = m1
  s1 = s1
  Operations = {o1, o2}
  Ports = {1}
  Modems = {m1, m2}
  Sims = {s1, s2}
  Nothing = Nothing
  GateEntries = {n1, n2}
  NoGateEntry = NoGateEntry
  MaxMoves = 1
  Commands <- MCCommands
  GroupOf <- MCGroupOf
  KindOf <- MCKindOf
  MaxOutcomes = 1
  MaxGroups = 2
  MaxLife = 1
  MaxRevision = 1
  Holders = {h1, h2, h3}
  MaxConcurrent = 2
  MaxCalls = 1
  MaxGeneration = 2
  MaxTime = 3
  Browsers = {w1, w2}
  NoView = NoView
  MaxHardware = 2
  MaxAgentStarts = 1
  MaxNewsFaults = 1
  Aids = {a1, a2}
  Usim = u
  ChannelLimit = 2
  MaxSimCalls = 4
  MaxSimFaults = 1
  MaxTasks = 2
  MaxLineFaults = 3
  MaxOctets = 14
  GsmSingle = 16
  GsmConcat = 9
  Ucs2Single = 7
  Ucs2Concat = 4
  MaxSeptets = 17
  MaxUnits = 8
  MaxForeign = 2
SYMMETRY Interchangeable
INVARIANTS
  GateIsSafe
  CommandsAreSafe
  StaleIsAnnounced
  ConversationsAreSafe
  TextsAreRead
CHECK_DEADLOCK FALSE
