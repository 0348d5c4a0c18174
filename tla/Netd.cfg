\* Two Lines, one change and one fault; two subscriptions, three requests
\* beside the manager's; two installations, two faults.
SPECIFICATION NetdSpec
CONSTANTS
  Lines = {l1, l2}
  Egresses = {direct}
  None = None
  Torn = Torn
  MaxChanges = 1
  MaxFaults = 1
  Subscriptions = {s1, s2}
  Nothing = Nothing
  MaxVersions = 2
  MaxRequests = 3
  MaxMihomoFaults = 1
  Installers = {i1, i2}
  CoreVersions = {v1, v2}
  NoCore = NoCore
  MaxCoreFaults = 2
INVARIANTS
  MihomoIsSafe
PROPERTY ServiceableIsServed
CHECK_DEADLOCK FALSE
