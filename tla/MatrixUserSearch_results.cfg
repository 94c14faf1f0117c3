\* useMatrixUserSearch: ShownResultsMatchQuery when an older search settles after the query changed.
CONSTANTS
    q1 = q1
    q2 = q2
    NoQuery = NoQuery
    NoResults = NoResults
    None = None
    Queries <- MCQueries
    IdQueries <- MCIdQueries
    MaxKeystrokes = 5
SPECIFICATION Spec
INVARIANT ShownResultsMatchQuery
\* Typing stops after MaxKeystrokes; with no timer and no search left the hook is idle.
CHECK_DEADLOCK FALSE
