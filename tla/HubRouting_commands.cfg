\* Home types /open, /close and a message; two handlers, replays, a failure,
\* provisioning passes, and an owner who moves the inbox.
CONSTANTS
  home = home
  x = x
  y = y
  e1 = e1
  e2 = e2
  e3 = e3
  Community <- Pair
  Home = home
  Inbox = Inbox
  Event = {e1, e2, e3}
  NoEvent = NoEvent
  Verb <- CommandVerb
  From <- ByHome
  To <- ByX
  Parent <- NoReply
  Mention = {e3}
  Nowhere = Nowhere
  Choice <- NoFilter
  Reader = {r1, r2}
  MaxEdits = 1
  MaxFaults = 1
SPECIFICATION Spec
INVARIANTS AnsweredOnce NeverStranded OneRoutePerChannel
PROPERTY ClosedStaysClosed
CHECK_DEADLOCK FALSE
