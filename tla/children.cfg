SPECIFICATION Spec
CONSTANTS
  a = a
  b = b
  Children = {a, b}
  T_MIN = 1
  T_MAX = 2
  CLOCK_SECOND = 2
  TIMEOUT_CHILDREN = 3
  MaxTransit = 1
  MaxLost = 1
  MaxRestarts = 1
  MaxPutOff = 3
INVARIANTS
  TypeOK
  RenewedInTime
  OldEntriesGo
PROPERTIES
  ForgottenHasCause
