\* Same bounds as StabilityPoolOps.cfg; checks spec 7(b): every terminal
\* failure state the bridge emits settles the waiting call.
CONSTANTS
    f1 = f1
    f2 = f2
    c1 = c1
    c2 = c2
    NoFederation = NoFederation
    Federations <- MCFederations
    PoolFederations <- MCPoolFederations
    Calls <- MCCalls
    MaxOps = 2
    DepositNext <- MCDepositNext
    WithdrawalNext <- MCWithdrawalNext
    EventsBeforeResponse = FALSE
SPECIFICATION Spec
PROPERTY FailureEventSettles
CHECK_DEADLOCK FALSE
