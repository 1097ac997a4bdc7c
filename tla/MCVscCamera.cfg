CONSTANTS
  Users = {u1, u2}
  MaxOps = 1
  None = None
SPECIFICATION Spec
INVARIANTS TypeOK OwnershipAgrees
SYMMETRY UserSymmetry
CHECK_DEADLOCK FALSE
