SPECIFICATION Safe
CONSTANTS
    MaxInFlight = 2
    FrameChannel = 1
    Reports = 1
    MaxFrames = 3
    MaxFaults = 1
    MaxRequests = 1
    Disruptions = {"overflow"}
INVARIANT ChainDecodable
CHECK_DEADLOCK FALSE
