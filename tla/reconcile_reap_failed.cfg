CONSTANTS
    Host = {h1}
    Enabled = {h1}
    Grace = 2
    Pause = {1, 2}
SPECIFICATION Spec
PROPERTIES ReapedMeansDeleted
