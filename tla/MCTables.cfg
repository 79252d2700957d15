SPECIFICATION TablesSpec
CONSTANTS
  XWindows = {"game", "menu", "overlay"}
  Toplevels = {"native"}
  Props <- MCProps
  Controls <- MCControls
  AppIds = {7}
  MaxMaps = 2
  MaxChanges = 1
  Pids = {1, 2}
  Programs <- MCPrograms
  TTL = 2
  MaxStarts = 3
  MaxExecs = 1
  Horizon = 3
  Device = {d1, d2}
  Id = {"shared"}
  IdOf <- MCIdOf
  MaxRounds = 2
  MaxChallenges = 3
  Disruptions = {"save", "torn", "crash", "late"}
INVARIANT FocusConsistent
INVARIANT FocusedAppTold
INVARIANT HitsRecent
INVARIANT CertMeansOwnPin
INVARIANT ClientsHaveCert
CHECK_DEADLOCK FALSE
