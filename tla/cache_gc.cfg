CONSTANT Slot = {s1, s2}
SPECIFICATION FairSpec
INVARIANTS TypeOK
PROPERTIES SlotsKeepTheirVolumes OrphansAreCollected
