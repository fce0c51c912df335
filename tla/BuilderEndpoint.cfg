CONSTANTS
  r1 = r1
  r2 = r2
  r3 = r3
  NoRequest = NoRequest
  Main = Main
  Requests = {r1, r2}
  Payload <- MCPayload
  ForeignUpTo = 3
  Drafts <- MCDrafts
  MaxCrashes = 2
SPECIFICATION EndpointFairSpec
PROPERTIES
  ImplementsTrail
  ReturnsUnlessHorizonHangs
CHECK_DEADLOCK FALSE
