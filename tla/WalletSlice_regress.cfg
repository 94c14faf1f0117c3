\* The concurrency bounds; checks that stored snapshots never go back in time.
CONSTANTS
    f1 = f1
    f2 = f2
    NoFederation = NoFederation
    Null = Null
    Federations <- SliceFederations
    Contents <- SliceContents
    PriceCents = {6000000, 6100000}
    MsatsPerCent = 1000
    MaxFetches = 4
    MinAllowedCancellationBps = 100
SPECIFICATION Spec
PROPERTY SnapshotNeverRegresses
