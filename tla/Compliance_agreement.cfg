\* A payment, its retry and another payment; both callbacks decide.
CONSTANTS
  a1 = a1
  a2 = a2
  a3 = a3
  q1 = q1
  q2 = q2
  alice = alice
  bob = bob
  Institution = Institution
  Forms <- MCForms
  Memo <- MCMemo
  User <- MCUser
  NeedInfo <- MCNeedInfo
  Requests = {a1, a2, a3}
  Keys = {"k1"}
  Sanctions = TRUE
  AskUser = TRUE
  Removers = {}
  MaxRows = 0
  MaxCrashes = 1
SPECIFICATION Spec
SYMMETRY MCSymmetry
INVARIANTS
  PaidWasApproved
  PaidIsFound
  PaidIsAsked
  CallersTold
PROPERTIES
  ImplementsAgreement
CHECK_DEADLOCK FALSE
