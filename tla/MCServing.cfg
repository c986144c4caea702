SPECIFICATION Spec
CONSTANTS
  u1 = u1
  u2 = u2
  Config <- MCConfig
  DefaultCode <- MCDefaultCode
  Updaters = {u1, u2}
  Slots = {1, 2}
  MaxInvocations = 3
  Requests <- MCRequests
  V1Requests <- MCV1Requests
  Cached <- MCCached
  CustomShapes = {"object", "other"}
  Headers = {"none", "kJson"}
  Setups <- MCSetups
  MaxExecutions = 3
INVARIANTS
  AnswersAreOwn
  RepliesAreExact
PROPERTIES
  RequestsAreAnswered
CHECK_DEADLOCK FALSE
