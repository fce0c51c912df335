\* Three requests and a crash.
CONSTANTS
  r1 = r1
  r2 = r2
  r3 = r3
  NoRequest = NoRequest
  Main = Main
  Requests = {r1, r2, r3}
  Payload <- MCPayload
  ForeignUpTo = 1
  MaxCrashes = 1
SPECIFICATION Spec
SYMMETRY MCSymmetry
INVARIANTS
  TypeOK
  EverySubmissionRecorded
  PaidNoMoreThanAsked
  SuccessRowApplied
  FailureRowFinal
  AcknowledgedIsRecorded
  MutexHeldInside
  NumberHandedOutOnce
  ConfiguredNumbersUnique
PROPERTIES
  ImplementsTrail
CHECK_DEADLOCK FALSE
