SPECIFICATION DesktopSpec
CONSTANTS
  Roots = {"one", "two"}
  Menus = {"menu", "sub"}
  ParentsOf <- MCParents
  Slots = {1}
  CAPACITY = 1
  MaxSerial = 2
  Surfaces = {s1, s2}
  TransferFunctions = {"pq"}
  Primaries = {"bt2020"}
  MaxPeriods = 3
  Pads = {0, 1}
  TapTicks = 1
  Configs <- MCConfigs
  Tools = {"pen", "eraser"}
  StylusButtons = {1}
  Canvases = {"canvas", "palette"}
  Pool = 2
  Channel = 1
  Files = 2
  Fds = 1
  ClientFormats = {"client", "pool"}
  MaxFaults = 1
  Disruptions = {"export", "render", "import", "convert"}
INVARIANT SeatReleased
INVARIANT GrabOnScreen
INVARIANT MetadataCurrent
INVARIANT DeadlinesMet
INVARIANT ReadsWhatWasExported
CHECK_DEADLOCK FALSE
