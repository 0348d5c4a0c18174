\* One Line; a network outlives its record.
SPECIFICATION Spec
CONSTANTS
  Lines = {l1}
  Egresses = {direct}
  None = None
  Torn = Torn
  MaxChanges = 1
  MaxFaults = 2
PROPERTY RestartCleansUp
CHECK_DEADLOCK FALSE
