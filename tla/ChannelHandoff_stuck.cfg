\* The demotion is stored and its acknowledgement is lost.
CONSTANTS
  ann = ann
  bob = bob
  cat = cat
  Key = {k1}
  Call = {c1, c2}
  Channel = {g1, g2}
  Bridge = bridge
  Owner <- Owners
  Guest <- Guests
  NoChannel = NoChannel
  Nobody = Nobody
SPECIFICATION FairSpec
PROPERTY EventuallyCompleted
CHECK_DEADLOCK FALSE
