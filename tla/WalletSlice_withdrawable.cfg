\* The selector bounds; checks that the withdrawable balance is never negative.
CONSTANTS
    f1 = f1
    f2 = f2
    NoFederation = NoFederation
    Null = Null
    Federations <- SelectorFederations
    Contents <- SelectorContents
    PriceCents = {6000000}
    MsatsPerCent = 1000
    MaxFetches = 2
    MinAllowedCancellationBps = 100
SPECIFICATION Spec
INVARIANT WithdrawableNonNegative
