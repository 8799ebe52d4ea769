CONSTANTS
    Host = {h1, h2}
    Enabled = {h1}
    Grace = 1
    Pause = {1}
SPECIFICATION FairSpec
ACTION_CONSTRAINT DisabledHostsStay
INVARIANTS TypeOK ReapsOnlyLostHosts HostEventsMatch OrphanHasNoRunner
PROPERTIES SparesLiveRunners LostHostsAreReaped KeepsFleetPromise
