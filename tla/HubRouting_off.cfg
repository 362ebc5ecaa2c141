\* x switches receiving off while it holds a direct channel with Home.
CONSTANTS
  home = home
  x = x
  y = y
  e1 = e1
  e2 = e2
  e3 = e3
  Community <- Three
  Home = home
  Inbox = Inbox
  Event = {e1, e2}
  NoEvent = NoEvent
  Verb <- RoutesVerb
  From <- OffFrom
  To <- OffTo
  Parent <- NoReply
  Mention = {}
  Nowhere = Nowhere
  Choice <- RoutesChoice
  Reader = {r1}
  MaxEdits = 1
  MaxFaults = 0
SPECIFICATION Spec
PROPERTY SwitchedOffReadsAsUnknown
CHECK_DEADLOCK FALSE
