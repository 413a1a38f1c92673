CONSTANTS
  Request = {r1, r2, r3}
  Boot = boot
  Own = own
  NoPassword = none
  Partial = partial
  MaxGenerated = 4
  MaxCrashes = 3
SYMMETRY Interchangeable
SPECIFICATION Spec
INVARIANTS Recoverable GeneratedMustChange
CHECK_DEADLOCK FALSE
