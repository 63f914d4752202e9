CONSTANTS
    Order <- MCOrder
    Lifecycle <- MCLifecycle
    Windows <- MCWindows
    MaxRuns = 2
    MaxMishaps = 1
SPECIFICATION Spec
INVARIANTS TypeOK ReconciledIsClosed EndedRunsAreAudited
PROPERTIES NoFillBesideOpen ReconciledBeforeFill StopIsObeyed
\* The last run ends and the last window closes: the model stops.
CHECK_DEADLOCK FALSE
