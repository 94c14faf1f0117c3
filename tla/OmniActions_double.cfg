\* OmniActions: a second press of a running action loses its spinner when the first call settles.
CONSTANTS
    Actions <- MCActions
    SyncThrows = FALSE
    MaxPresses = 5
SPECIFICATION Spec
INVARIANT SpinnerWhileRunning
\* The presses are bounded; once every call has settled the row is idle.
CHECK_DEADLOCK FALSE
