SPECIFICATION CreateSpec
CONSTANTS
    MaxDevices = 3
    MaxPartitions = 3
    Faults = {"parent"}
CHECK_DEADLOCK FALSE
INVARIANTS ChildOfOwnDevice
