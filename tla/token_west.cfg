CONSTANTS
    Task = {t1, t2}
    None = none
    Life = 8
    Margin = 2
    Latency = 2
    Lag = 3
    Patience = 3
    Pause = 1
    Zone = {4}
    Clock = {0}
    Slack = 1
SPECIFICATION Spec
INVARIANTS RenewedInTime
