CONSTANTS
    Request = {r1, r2}
    Prestart = prestart
SPECIFICATION FairSpec
INVARIANTS TypeOK RetiredIsOff SettledIsDisabled DeletedIsGone DrainsBetweenJobs
PROPERTIES KeepsPromise BusyDrainLands ServesAgain
