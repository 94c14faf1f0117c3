\* The matrix hooks, the wallet slice and the screens side by side. The
\* slice: f1 with all 64 selector snapshots of MC_WalletSlice and f2 with
\* one, two overlapping refreshes, resets and switches at any point. The
\* hooks and screens: two queries and five
\* keystrokes, a group room and a DM over six renders, three payment
\* dispatches; the screens with loading buttons that ignore presses, two
\* custom mods and one suggested, two omni actions, cycle durations around
\* each boundary and deposit amounts at each padding case; ChatWallet with
\* two rooms and two presses.
CONSTANTS
    None = None
    ChatPresses = 2
    q1 = q1
    q2 = q2
    NoQuery = NoQuery
    NoResults = NoResults
    MaxKeystrokes = 5
    r1 = r1
    r2 = r2
    NoRoom = NoRoom
    MaxRenders = 6
    MaxEvents = 2
    LoadingBlocksPress = TRUE
    MaxDispatches = 3
    SendPresses = 8
    MaxAttempts = 6
    c1 = c1
    c2 = c2
    s1 = s1
    NoMod = NoMod
    MaxToggles = 3
    SyncThrows = FALSE
    ActionPresses = 5
    Undefined = Undefined
    NoConfig = NoConfig
    f1 = f1
    f2 = f2
    NoFederation = NoFederation
    Null = Null
    PriceCents = {6000000}
    MsatsPerCent = 1000
    MaxFetches = 2
    MinAllowedCancellationBps = 100
SPECIFICATION Spec
INVARIANT TypeOK
INVARIANT ObservedExactlyWhileShown
INVARIANT NoAcceptAndRejectTogether
INVARIANT OneGenerationAtATime
INVARIANT CountsCompletedShares
INVARIANT WithinQuarterMinute
INVARIANT DepositWithinSpec
INVARIANT WithdrawBpsInRange
INVARIANT WithdrawCoversAmount
INVARIANT FetchedInfoBelongsToFederation
PROPERTY SearchSettles
PROPERTY DirectChatStaysObserved
PROPERTY PaymentLoadingClears
PROPERTY EcashLoadingClears
PROPERTY DisableCloseKeepsOpen
PROPERTY SpinnerClears
PROPERTY LeavesInitializing
\* Every model stops once its bounded inputs are used up, its calls settled
\* and its screen left or idle.
CHECK_DEADLOCK FALSE
