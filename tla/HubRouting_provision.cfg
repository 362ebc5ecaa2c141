\* Passes fail part way; nobody types anything.
CONSTANTS
  home = home
  x = x
  y = y
  e1 = e1
  e2 = e2
  e3 = e3
  Community <- Three
  Home = home
  Inbox = Inbox
  Event = {}
  NoEvent = NoEvent
  Verb <- AllMessages
  From <- ByHome
  To <- ByX
  Parent <- NoReply
  Mention = {}
  Nowhere = Nowhere
  Choice <- NoFilter
  Reader = {r1}
  MaxEdits = 1
  MaxFaults = 2
SPECIFICATION FairSpec
PROPERTY EventuallyProvisioned
CHECK_DEADLOCK FALSE
