\* Three communities; settings edits, a command and provisioning around one
\* addressed message.
CONSTANTS
  home = home
  x = x
  y = y
  e1 = e1
  e2 = e2
  e3 = e3
  Community <- Three
  Home = home
  Inbox = Inbox
  Event = {e1, e2}
  NoEvent = NoEvent
  Verb <- RoutesVerb
  From <- RoutesFrom
  To <- RoutesTo
  Parent <- NoReply
  Mention = {}
  Nowhere = Nowhere
  Choice <- RoutesChoice
  Reader = {r1}
  MaxEdits = 1
  MaxFaults = 0
SPECIFICATION Spec
INVARIANTS TypeOK OneDestination DirectStaysPrivate
CHECK_DEADLOCK FALSE
