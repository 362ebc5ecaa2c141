\* A handler that outlives its job meets the one that took it over.
CONSTANTS
  a = a
  b = b
  m1 = m1
  m2 = m2
  Endpoint <- TwoEndpoints
  Inbox <- TwoEndpoints
  Message <- TwoMessages
  Origin <- AnswerOrigin
  Target <- AnswerTarget
  Parent <- Thread
  NoMessage = NoMessage
  Unbridged = Unbridged
  CreatedAt <- Posted
  Choice <- Choices
  Handler = {h1, h2}
  RetryLimit = 1
  MaxEdits = 1
  MaxFaults = 0
  MaxOverruns = 1
SPECIFICATION Spec
INVARIANTS CancelledOnlyWhenInactive
CHECK_DEADLOCK FALSE
