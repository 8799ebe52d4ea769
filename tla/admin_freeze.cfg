CONSTANTS
    Request = {r1, r2}
    MaxSlot = 3
    MaxCount = 2
SPECIFICATION Spec
PROPERTIES NothingStartsFrozen
