\* A long and a short message over IMS, one repetition; a long and an
\* undecodable message in a modem's storage; two sends of two segments through
\* it; one fault or crash each, three of the sends.
SPECIFICATION TextSpec
CONSTANTS
  a1 = a1
  a2 = a2
  b1 = b1
  c1 = c1
  a = a
  b = b
  c = c
  Deliveries = {a1, a2, c1}
  MessageOf <- MCMessageOf
  PartOf <- MCPartOf
  TotalOf <- MCTotalOf
  ReferenceOf <- MCReferenceOf
  SenderOf <- MCSenderOf
  AgeOf <- MCAgeOf
  Unsupported = {}
  None = None
  MaxInbox = 2
  MaxRepeats = 1
  MaxFaults = 1
  p1 = p1
  p2 = p2
  u = u
  Entries = {p1, p2, u}
  Indexes = {1, 2, 3}
  Unreadable = {u}
  Free = Free
  TextOf <- MCTextOf
  TotalOfText <- MCTotalOfText
  AgeOfEntry <- MCAgeOfEntry
  MaxStoredAgain = 0
  MaxModemFaults = 1
  MaxRestarts = 1
  SendOperations = {o1, o2}
  Contents = {k1, k2}
  NoEntry = NoEntry
  SegmentCount = 2
  MaxSendFaults = 3
INVARIANTS
  OnlyKeptIsDeleted
  SendIsTrue
PROPERTIES
  InboxDrains
  WholeIsKept
CHECK_DEADLOCK FALSE
