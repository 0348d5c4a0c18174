\* One Line, one failure.
SPECIFICATION FairSpec
CONSTANTS
  Lines = {l1}
  Egresses = {direct}
  None = None
  Torn = Torn
  MaxChanges = 2
  MaxFaults = 1
PROPERTY IntentIsMet
CHECK_DEADLOCK FALSE
