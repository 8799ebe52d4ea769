CONSTANTS
    None = None
    Job = {j1, j2}
    TrackJobs = TRUE
    Every = 2
    MaxRestarts = 4
SPECIFICATION FairSpec
ACTION_CONSTRAINT RestartsApart
INVARIANTS TypeOK NoFalseComfort CrossingsAreTold
PROPERTIES ShownStateSettles JobEventsSettle
