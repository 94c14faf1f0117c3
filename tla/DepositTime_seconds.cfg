CONSTANTS
    Durations <- MCDurations
    NoConfig = NoConfig
INIT Init
NEXT Next
INVARIANT SecondsStatedExactly
