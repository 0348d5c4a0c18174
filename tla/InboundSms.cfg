\* Any order of deliveries, one repetition, one fault or crash.
SPECIFICATION Spec
CONSTANTS
  a1 = a1
  a2 = a2
  b1 = b1
  c1 = c1
  a = a
  b = b
  c = c
  Deliveries = {a1, a2, b1, c1}
  MessageOf <- MCMessageOf
  PartOf <- MCPartOf
  TotalOf <- MCTotalOf
  ReferenceOf <- MCReferenceOf
  SenderOf <- MCSenderOf
  AgeOf <- MCAgeOf
  Unsupported = {}
  None = None
  MaxInbox = 3
  MaxRepeats = 1
  MaxFaults = 1
INVARIANTS
  TypeOK
  SettledIsKept
  ArrivalsAreAnnounced
  AnnouncedOnce
PROPERTIES
  OnlyShownIsRead
CHECK_DEADLOCK FALSE
