SPECIFICATION Spec
CONSTANTS
  Request = {r1, r2, r3}
  Initial <- Databases
  MaxRows = 1
SYMMETRY Symmetry
CHECK_DEADLOCK FALSE
INVARIANTS FoldersFollowServer TokenMandatory
PROPERTIES NoIdLeak
