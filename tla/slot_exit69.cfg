CONSTANTS
    Request = {r1}
    Prestart = prestart
SPECIFICATION Spec
INVARIANTS SettledIsOff
