SPECIFICATION Spec
CONSTANTS
    Capacity = 1
    Frames = 1
    MaxStartB = 1
    Disruptions = {"source", "socket", "encoder", "ping"}
INVARIANTS GatedUntilStartB ControlPortFree
PROPERTIES StreamsStart StopCompletes KeyUpdateReturns
CHECK_DEADLOCK FALSE
