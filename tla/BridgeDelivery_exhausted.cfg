\* The worker dies, or a query fails, on the last run of a job.
CONSTANTS
  a = a
  b = b
  m1 = m1
  m2 = m2
  Endpoint <- TwoEndpoints
  Inbox <- TwoEndpoints
  Message <- TwoMessages
  Origin <- AnswerOrigin
  Target <- AnswerTarget
  Parent <- Thread
  NoMessage = NoMessage
  Unbridged = Unbridged
  CreatedAt <- Posted
  Choice <- Choices
  Handler = {h1, h2}
  RetryLimit = 1
  MaxEdits = 0
  MaxFaults = 1
  MaxOverruns = 0
SPECIFICATION Spec
INVARIANTS ExhaustedIsDeadLettered
CHECK_DEADLOCK FALSE
