\* A segment with a 16-bit reference above 255 and a younger short message.
SPECIFICATION FairSpec
CONSTANTS
  a1 = a1
  a2 = a2
  b1 = b1
  c1 = c1
  a = a
  b = b
  c = c
  Deliveries = {b1, c1}
  MessageOf <- MCMessageOf
  PartOf <- MCPartOf
  TotalOf <- MCTotalOf
  ReferenceOf <- MCReferenceOf
  SenderOf <- MCSenderOf
  AgeOf <- MCAgeOf
  Unsupported = {b1}
  None = None
  MaxInbox = 2
  MaxRepeats = 0
  MaxFaults = 0
PROPERTY SinglesAreAcknowledged
CHECK_DEADLOCK FALSE
