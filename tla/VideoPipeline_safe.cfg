SPECIFICATION Spec
CONSTANTS
    MaxInFlight = 1
    FrameChannel = 1
    Reports = 1
    MaxFrames = 3
    MaxFaults = 1
    MaxRequests = 2
    Disruptions = {"import", "encode", "device", "overflow", "readback", "packetize", "handler"}
INVARIANTS InFlightExact NumbersMapBack CleanStart
PROPERTIES LostNotReferenced IdrAnswered PipelineStops
CHECK_DEADLOCK FALSE
