\* Overlapping handlers, lost acknowledgements, crashes, failing queries and
\* settings edits; m2 is a follow-up under m1, so both are projections at b.
CONSTANTS
  a = a
  b = b
  m1 = m1
  m2 = m2
  Endpoint <- TwoEndpoints
  Inbox <- TwoEndpoints
  Message <- TwoMessages
  Origin <- FollowUpOrigin
  Target <- FollowUpTarget
  Parent <- Thread
  NoMessage = NoMessage
  Unbridged = Unbridged
  CreatedAt <- Posted
  Choice <- Choices
  Handler = {h1, h2}
  RetryLimit = 1
  MaxEdits = 1
  MaxFaults = 1
  MaxOverruns = 1
SPECIFICATION Spec
INVARIANTS TypeOK AtMostOneProjection DeliveredIsOnRelay ClosedRouteRefused HintAtMostOnce ThreadIntegrity
PROPERTY OutcomeIsFinal ImplementsPromise
CHECK_DEADLOCK FALSE
