SPECIFICATION Spec
CONSTANTS
    Capacity = 1
    Frames = 1
    MaxStartB = 1
    Disruptions = {"late"}
PROPERTIES StreamsStart
CHECK_DEADLOCK FALSE
