\* The same lumens twice, a path payment and an authorization.
CONSTANTS
  r1 = r1
  r2 = r2
  r3 = r3
  r4 = r4
  Requests = {r1, r2, r3, r4}
  Payload <- MCPayload
  Dest <- MCDest
  Trust = {"trust"}
  Native = {"lumens"}
  Path = {"path"}
  MaxNumber = 2
  ForeignUpTo = 2
SPECIFICATION Spec
SYMMETRY MCSymmetry
INVARIANTS
  TypeOK
  OkIsPaidUnlessCreated
  PaidNoMoreThanAsked
  ErrorIsFinal
  LaterIsAnother
CHECK_DEADLOCK FALSE
