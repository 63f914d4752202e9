CONSTANTS
    Order <- MCOrder
    Lifecycle <- MCBothPaper
    Windows <- MCOneWindow
    MaxRuns = 1
    MaxMishaps = 0
SPECIFICATION Spec
PROPERTY NoFillAfterStop
CHECK_DEADLOCK FALSE
