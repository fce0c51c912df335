\* The institution is allowed under two public keys.
CONSTANTS
  a1 = a1
  a2 = a2
  a3 = a3
  q1 = q1
  q2 = q2
  alice = alice
  bob = bob
  Institution = Institution
  Forms <- MCForms
  Memo <- MCMemo
  User <- MCUser
  NeedInfo <- MCNeedInfo
  Requests = {a1, a2}
  Keys = {"k1", "k2"}
  Sanctions = FALSE
  AskUser = FALSE
  Removers = {q1, q2}
  MaxRows = 3
  MaxCrashes = 0
SPECIFICATION Spec
SYMMETRY MCSymmetry
INVARIANTS
  RevokedGetsNoInfo
CHECK_DEADLOCK FALSE
