CONSTANTS
    Usage = {0, 2, 3, 4, 5, 6}
    Grain = 2
    Warn = 2
    Prune = 4
    Freeze = 6
SPECIFICATION Spec
INVARIANTS TypeOK EventsTellTheLevel HighDiskWasPruned
PROPERTIES PrunesOncePerRise GateFollowsDisk
