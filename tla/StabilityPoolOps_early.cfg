\* Same bounds, but the bridge may emit an operation's events before the
\* RPC response that carries its id reaches the thunk.
CONSTANTS
    f1 = f1
    f2 = f2
    c1 = c1
    c2 = c2
    NoFederation = NoFederation
    Federations <- MCFederations
    PoolFederations <- MCPoolFederations
    Calls <- MCCalls
    MaxOps = 2
    DepositNext <- MCDepositNext
    WithdrawalNext <- MCWithdrawalNext
    EventsBeforeResponse = TRUE
SPECIFICATION Spec
PROPERTY HandledEventSettles
CHECK_DEADLOCK FALSE
