SPECIFICATION Safe
CONSTANTS
    Tasks = {t1, t2}
    NoTask = NoTask
    MaxGeneration = 2
    Disruptions = {"compositor"}
SYMMETRY Symmetry
INVARIANT
    StopIsOfSlot
CHECK_DEADLOCK FALSE
