\* Lumens to an account that may not exist.
CONSTANTS
  r1 = r1
  r2 = r2
  r3 = r3
  r4 = r4
  Requests = {r1, r2}
  Payload <- MCPayload
  Dest <- MCDest
  Trust = {"trust"}
  Native = {"lumens"}
  Path = {"path"}
  MaxNumber = 3
  ForeignUpTo = 1
SPECIFICATION Spec
SYMMETRY MCSymmetry
INVARIANTS
  OkIsPaid
CHECK_DEADLOCK FALSE
