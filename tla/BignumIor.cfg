SPECIFICATION Spec
CONSTANTS
  Width = 2
  B = 4
  MaxSmall = 1
  MaxDigits = 2
INVARIANT IorExact
CHECK_DEADLOCK FALSE
