\* Overlapping probes, pollers, passes and requests, one part per behaviour.
CONSTANTS
  Candidates = {"c"}
  Probes = {"p1", "p2"}
  MaxQueued = 2
  MaxCurations = 2
  MaxBreaks = 1
  Submissions = {1, 2}
  Workers = {"w1", "w2"}
  BatchSize = 2
  MaxMishaps = 2
  Reports = {"e1", "e2", "e3", "e4"}
  PageSize = 3
  MaxNow = 3
  Sources = {"s", "t"}
  Codes = {"a", "b"}
  NoCode = "null"
  Statuses = {"open"}
  JoinPasses = {"p"}
  MaxWrites = 2
  Events = {"e"}
  Requests = {"r", "q"}
  Window = 1
  Retention = 5
  MaxSkew = 1
  MaxDelay = 1
  MaxClock = 8
SPECIFICATION DirectorySpec
INVARIANTS DirectoryTypeOK ListedOnEvidence VerifiedIsComplete NoReportSkipped ShownIsProbed UsedOnce
PROPERTY ProbedAgainAndAgain SettledUnlessLost
CHECK_DEADLOCK FALSE
