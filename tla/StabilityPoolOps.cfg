\* Two concurrent thunk calls, two federations (one with a stability pool),
\* a bridge that emits an operation's events only after its RPC response.
CONSTANTS
    f1 = f1
    f2 = f2
    c1 = c1
    c2 = c2
    NoFederation = NoFederation
    Federations <- MCFederations
    PoolFederations <- MCPoolFederations
    Calls <- MCCalls
    MaxOps = 2
    DepositNext <- MCDepositNext
    WithdrawalNext <- MCWithdrawalNext
    EventsBeforeResponse = FALSE
SPECIFICATION Spec
INVARIANT TypeOK
PROPERTY ImplementsStabilityPoolCall
\* Every run ends when both calls have settled or thrown and the bridge has
\* walked every operation to a final state: the app is then idle.
CHECK_DEADLOCK FALSE
