\* Installs and activations of one community; two connections kept up by two
\* overlapping calls of reconcile; two routes of one subscription.
CONSTANTS
  Installs = {"i1", "i2", "i3"}
  Activations = {"a1", "a2"}
  NoKey = "none"
  Connections = {1, 2}
  Reconciles = {"r1", "r2"}
  MaxConfigs <- EarlyReconfigures
  MaxFaults = 1
  Routes = {"x", "y"}
  Posts = {"e1", "e2"}
  MaxTime = 3
  MaxLosses = 1
SPECIFICATION ConnectionsSpec
INVARIANTS ConnectionsTypeOK ActiveKeyProved PendingIsCurrent SerialNeverLeaks
PROPERTY SessionsEventuallyMatch EventuallyIngestedOrOvertaken
CHECK_DEADLOCK FALSE
