\* Two callers of one key, on rosters that may name different owners.
CONSTANTS
  ann = ann
  bob = bob
  cat = cat
  Key = {k1}
  Call = {c1, c2}
  Channel = {g1, g2}
  Bridge = bridge
  Owner <- Owners
  Guest <- Guests
  NoChannel = NoChannel
  Nobody = Nobody
SPECIFICATION FairSpec
INVARIANTS TypeOK NeverOwnerless OneHumanOwner JournalNeverAhead Promotable ReturnedIsHandedOff
PROPERTY JournalIsMonotone EventuallyHandedOff
CHECK_DEADLOCK FALSE
