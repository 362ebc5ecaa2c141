\* No handler outlives its job; m2 answers m1 from the other side.
CONSTANTS
  a = a
  b = b
  m1 = m1
  m2 = m2
  Endpoint <- TwoEndpoints
  Inbox <- TwoEndpoints
  Message <- TwoMessages
  Origin <- AnswerOrigin
  Target <- AnswerTarget
  Parent <- Thread
  NoMessage = NoMessage
  Unbridged = Unbridged
  CreatedAt <- Posted
  Choice <- Choices
  Handler = {h1, h2}
  RetryLimit = 1
  MaxEdits = 1
  MaxFaults = 1
  MaxOverruns = 0
SPECIFICATION FairSpec
INVARIANTS CompletedIsSettled
PROPERTY EventuallySettled
CHECK_DEADLOCK FALSE
