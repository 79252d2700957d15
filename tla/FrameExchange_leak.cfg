SPECIFICATION Spec
CONSTANTS
    Pool = 3
    Channel = 2
    Files = 1
    Fds = 1
    ClientFormats = {"client"}
    MaxFaults = 1
    Disruptions = {"render"}
PROPERTIES FreeBuffer
CHECK_DEADLOCK FALSE
