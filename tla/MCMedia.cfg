SPECIFICATION MediaSpec
CONSTANTS
  Len10 = 2
  TickLen = 2
  DefaultMax = 4
  LimitMax = 5
  TargetLen = 2
  Attrs <- MCAttrs
  Drains = {1}
  Excess = 0
  Stale = 9
  Peers = {a}
  Inbox = 2
  OutgoingCap = 2
  FrameSlots = 2
  MAX_SHARDS = 3
  FecPercentage = 50
  MinimumFec = 1
  FrameSizes = {1, 5, 9}
  Keys = {"k1", "k2"}
  KeyIdOf <- MCKeyId
  Encrypt = TRUE
  MaxSegments = 2
  PacketLimit = 13
  Clients = {c1}
  Hdr = TRUE
  GamepadCap = 1
  FeedbackCap = 2
  Callbacks = 2
  Arrivals = 1
  HdrChanges = 1
  Threads = {t1, t2}
  Windows = {"game"}
  Handles = {"h1", "h2"}
  MaxToggles = 1
INVARIANT StreamAccounts
INVARIANT NothingStranded
INVARIANT FrameDelivered
INVARIANT NoncesUnique
INVARIANT HdrTold
PROPERTY Starts
 
PROPERTY ControlStops
PROPERTY LimiterSettles
CHECK_DEADLOCK FALSE
