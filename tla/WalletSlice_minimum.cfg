\* The selector bounds; checks spec 4.1 on the minimum withdrawal amount.
CONSTANTS
    f1 = f1
    f2 = f2
    NoFederation = NoFederation
    Null = Null
    Federations <- SelectorFederations
    Contents <- SelectorContents
    PriceCents = {6000000}
    MsatsPerCent = 1000
    MaxFetches = 2
    MinAllowedCancellationBps = 100
SPECIFICATION Spec
INVARIANT MinimumZeroWhileCancellationPending
