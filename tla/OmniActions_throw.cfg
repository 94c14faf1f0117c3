\* OmniActions: an onPress that throws synchronously leaves its spinner on for good.
CONSTANTS
    Actions <- MCActions
    SyncThrows = TRUE
    MaxPresses = 5
SPECIFICATION Spec
PROPERTY SpinnerClears
\* The presses are bounded; once every call has settled the row is idle.
CHECK_DEADLOCK FALSE
