CONSTANTS
    Loop = {reconcile, disk}
    Handlers = 2
    Kind = {host, job}
    Watched = {host}
    Limits = {0, 1, 3}
    Cap = 2
    MaxEvents = 3
SPECIFICATION Spec
INVARIANTS TypeOK NothingSlipsBy EverybodyHears
PROPERTIES NothingTwice
