SPECIFICATION SafeSpec
CONSTANTS
    Tasks = {t1, t2}
    NoTask = NoTask
    MaxGeneration = 2
    Disruptions = {"input", "compositor", "launch"}
SYMMETRY Symmetry
INVARIANTS
    KeysSupervised
    ConstructsInVacantManager
    QuietSlot
PROPERTIES
    ImplementsOneSession
    SlotNotOverwritten
CHECK_DEADLOCK FALSE
