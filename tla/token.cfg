CONSTANTS
    Task = {t1, t2}
    None = none
    Life = 12
    Margin = 2
    Latency = 2
    Lag = 3
    Patience = 3
    Pause = 1
    Zone <- MCZone
    Clock = {0, 1, 2}
    Slack = 1
SPECIFICATION FairSpec
INVARIANTS TypeOK RenewedInTime
PROPERTIES PrestartIsServed
