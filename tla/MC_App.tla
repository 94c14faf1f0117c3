------------------------------- MODULE MC_App -------------------------------
(***************************************************************************)
(* The hooks of src/ui/common/hooks/matrix.ts, the wallet slice's         *)
(* reducers, fetch thunks and selectors, and the screens and components   *)
(* with state of their own, checked in one run.  They                     *)
(* share no state: each reads its own selectors and props and calls its   *)
(* own thunks.  A behaviour exercises one model, chosen at the start; the *)
(* others stay in a fixed initial state, so the reachable states are the  *)
(* union of each model's own, and every property of a model holds here    *)
(* exactly when it holds of the model alone.                               *)
(***************************************************************************)
EXTENDS Naturals, Sequences

CONSTANTS
    None,
    q1, q2, NoQuery, NoResults, MaxKeystrokes,
    r1, r2, NoRoom, MaxRenders, MaxEvents, LoadingBlocksPress, MaxDispatches,
    SendPresses, MaxAttempts, c1, c2, s1, NoMod, MaxToggles,
    SyncThrows, ActionPresses, Undefined, NoConfig,
    f1, f2, NoFederation, Null, PriceCents, MsatsPerCent, MaxFetches,
    MinAllowedCancellationBps, ChatPresses

VARIABLES
    model,
    query, timer, searchInflight, searchedUsers, isSearching, searchError,
    keystrokes,
    mounted, isReady, roomId, paused, loaded, latest, observer, observing,
    receipt, renders,
    viewer, status, flags, payInflight, committed, dispatched,
    alertShown, ceIsLoading, ceInflight, notes, cePresses,
    backupsCompleted, isCreatingBackup, calls, shares, completed, attempts,
    customMods, customVisibility, suggestedVisibility, deletingMod,
    isDeleting, toggles,
    open, title, disableClose, mobileDismiss, isSm, closedBy,
    loadingActions, running, oaPresses,
    hasStorageLoaded, isAppUnlocked, hasSetDisplayName, authenticatedMember,
    effectDue, route,
    config,
    amount, feeRate, balance, deposit,
    activeFed, wallet, reqs, clock,
    stack, existingRoom, canSendAmount, submitAction, submitType,
    submitAttempts, requests, presses

(* What the other party may do to a payment: the requester cancels or the *)
(* payer's request is rejected elsewhere; a pushed or accepted payment is *)
(* received.  Terminal statuses stay.                                      *)
PaymentRemoteNext ==
    [s \in {"received", "rejected", "canceled", "pushed", "accepted", "requested"} |->
        CASE s = "requested" -> {"canceled"}
          [] s \in {"pushed", "accepted"} -> {"received"}
          [] OTHER -> {}]

(* Two queries, enough keystrokes to type one, the other, and back.        *)
Search == INSTANCE MatrixUserSearch WITH Queries <- {q1, q2}, IdQueries <- {q2},
                                         inflight <- searchInflight
(* One group room and one DM.                                              *)
Observe == INSTANCE ObserveMatrixRoom WITH Rooms <- {r1, r2}, DMs <- {r2}
Payment == INSTANCE MatrixPaymentEvent
               WITH inflight <- payInflight, RemoteNext <- PaymentRemoteNext
Ecash == INSTANCE ConfirmSendEcash
            WITH isLoading <- ceIsLoading, inflight <- ceInflight,
                 presses <- cePresses, MaxPresses <- SendPresses
Backup == INSTANCE CompleteSocialBackup
Mods == INSTANCE FediModSettings WITH CustomMods <- {c1, c2}, SuggestedMods <- {s1}
Dlg == INSTANCE Dialog
Actions == INSTANCE OmniActions
            WITH Actions <- {0, 1}, presses <- oaPresses, MaxPresses <- ActionPresses
Start == INSTANCE Initializing
(* The recipient's room may be r1, r2 or none.                           *)
Chat == INSTANCE ChatWallet WITH Rooms <- {r1, r2}, MaxPresses <- ChatPresses
(* Every cycle duration below four minutes and four minutes either side  *)
(* of the hour: each branch, each half-minute rounding tie, both cut-offs. *)
Deposit == INSTANCE DepositTime WITH Durations <- 0..240 \cup 3360..3840
(* No padding, a padding of exactly ten fees, a fee at a rounding tie, a  *)
(* fee truncation would lose 0.9 of, a zero rate, spec 4.2 example 4      *)
(* (100000 msats at 0.1%), and a balance below and above the padded       *)
(* amounts.                                                                *)
Padding == INSTANCE DepositPadding
               WITH Amounts <- {0, 50, 100000, 100005, 100009},
                    Rates <- {0, 1, 5, 100}, Balances <- {100000, 1000000}

(* The account snapshots of MC_WalletSlice's combined run: all 64         *)
(* selector snapshots for f1, one for f2.  Only its constant definitions  *)
(* are used here.                                                          *)
Snapshots == INSTANCE MC_WalletSlice
                 WITH Federations <- {f1, f2}, Contents <- [f \in {f1, f2} |-> {}]
Slice == INSTANCE WalletSlice
             WITH Federations <- {f1, f2}, Contents <- Snapshots!CombinedContents

Models == {"slice", "search", "observe", "payment", "ecash", "backup",
           "mods", "dialog", "actions", "start", "deposit", "padding", "chat"}

SearchVars == <<query, timer, searchInflight, searchedUsers, isSearching,
                searchError, keystrokes>>
ObserveVars == <<mounted, isReady, roomId, paused, loaded, latest, observer,
                 observing, receipt, renders>>
PaymentVars == <<viewer, status, flags, payInflight, committed, dispatched>>
EcashVars == <<alertShown, ceIsLoading, ceInflight, notes, cePresses>>
BackupVars == <<backupsCompleted, isCreatingBackup, calls, shares, completed, attempts>>
ModsVars == <<customMods, customVisibility, suggestedVisibility, deletingMod,
              isDeleting, toggles>>
DialogVars == <<open, title, disableClose, mobileDismiss, isSm, closedBy>>
ActionsVars == <<loadingActions, running, oaPresses>>
StartVars == <<hasStorageLoaded, isAppUnlocked, hasSetDisplayName,
               authenticatedMember, effectDue, route>>
PaddingVars == <<amount, feeRate, balance, deposit>>
SliceVars == <<activeFed, wallet, reqs, clock>>
ChatVars == <<stack, existingRoom, canSendAmount, submitAction, submitType,
             submitAttempts, requests, presses>>

vars == <<model, SearchVars, ObserveVars, PaymentVars,
          EcashVars, BackupVars, ModsVars, DialogVars, ActionsVars, StartVars,
          config, PaddingVars, SliceVars, ChatVars>>

(* The exercised model starts in any of its initial states; the others in *)
(* a fixed one (the models whose Init is a single state need no more).    *)
Init ==
    /\ model \in Models
    /\ Search!Init /\ Ecash!Init /\ Backup!Init /\ Actions!Init
    /\ Observe!Init
    /\ model # "observe" => /\ ~isReady /\ roomId = NoRoom /\ ~paused
                            /\ loaded = [r \in {r1, r2} |-> FALSE]
    /\ Payment!Init
    /\ model # "payment" => /\ status = "pushed"
                            /\ viewer = [f \in DOMAIN viewer |->
                                           IF f = "role" THEN "other" ELSE FALSE]
    /\ Mods!Init /\ (model # "mods" => customMods = {})
    /\ Dlg!Init
    /\ model # "dialog" => ~open /\ ~title /\ ~disableClose
                           /\ mobileDismiss = "close" /\ ~isSm
    /\ Start!Init
    /\ model # "start" => /\ ~hasStorageLoaded /\ isAppUnlocked = Undefined
                          /\ ~hasSetDisplayName /\ ~authenticatedMember
    /\ IF model = "deposit" THEN Deposit!Init ELSE config = NoConfig
    /\ Padding!Init
    /\ model # "padding" => amount = 0 /\ feeRate = 0 /\ balance = 100000
    /\ Slice!Init /\ (model # "slice" => activeFed = NoFederation)
    /\ Chat!Init
    /\ model # "chat" => /\ existingRoom = None /\ Len(stack) = 2
                         /\ ~canSendAmount /\ submitType = "send"

(* The variables of every model but m keep their values.                  *)
Frozen(m) ==
    /\ m = "search"  \/ UNCHANGED SearchVars
    /\ m = "observe" \/ UNCHANGED ObserveVars
    /\ m = "payment" \/ UNCHANGED PaymentVars
    /\ m = "ecash"   \/ UNCHANGED EcashVars
    /\ m = "backup"  \/ UNCHANGED BackupVars
    /\ m = "mods"    \/ UNCHANGED ModsVars
    /\ m = "dialog"  \/ UNCHANGED DialogVars
    /\ m = "actions" \/ UNCHANGED ActionsVars
    /\ m = "start"   \/ UNCHANGED StartVars
    /\ m = "deposit" \/ UNCHANGED config
    /\ m = "padding" \/ UNCHANGED PaddingVars
    /\ m = "slice"   \/ UNCHANGED SliceVars
    /\ m = "chat"    \/ UNCHANGED ChatVars

Step(m, A) == model = m /\ A /\ Frozen(m) /\ UNCHANGED model

Next ==
    \/ Step("search", Search!Next)
    \/ Step("observe", Observe!Next)
    \/ Step("payment", Payment!Next)
    \/ Step("ecash", Ecash!Next)
    \/ Step("backup", Backup!Next)
    \/ Step("mods", Mods!Next)
    \/ Step("dialog", Dlg!Next)
    \/ Step("actions", Actions!Next)
    \/ Step("start", Start!Next)
    \/ Step("deposit", Deposit!Next)
    \/ Step("padding", Padding!Next)
    \/ Step("slice", Slice!Next)
    \/ Step("chat", Chat!Next)

(* The fairness of each model's own specification: React runs scheduled  *)
(* effects, timers fire, the bridge and every awaited promise answer.     *)
Spec ==
    /\ Init /\ [][Next]_vars
    /\ WF_vars(Step("search", Search!TimerFires))
    /\ \A q \in {q1, q2} :
           WF_vars(Step("search", Search!SearchResolves(q) \/ Search!SearchRejects(q)))
    /\ \A t \in Payment!Thunks : WF_vars(Step("payment", Payment!ThunkSettles(t)))
    /\ \A s \in Payment!Statuses :
           WF_vars(Step("payment", s \in committed /\ Payment!EventUpdated(s)))
    /\ WF_vars(Step("ecash", Ecash!GenerateEcashReturns))
    /\ \A idx \in {0, 1} : WF_vars(Step("actions", Actions!OnPressSettles(idx)))
    /\ WF_vars(Step("start", Start!RunEffect))

-----------------------------------------------------------------------------
(* Properties, each that of its model.                                    *)

(* The matrix hooks and the wallet slice: every variable keeps its type.   *)
TypeOK ==
    /\ model \in Models
    /\ Search!TypeOK /\ Observe!TypeOK /\ Payment!TypeOK /\ Slice!TypeOK
    /\ Chat!TypeOK

(* useMatrixUserSearch: the spinner clears for a query the user stops     *)
(* changing, whether its search succeeds or fails.                         *)
SearchSettles == Search!SearchSettles

(* useObserveMatrixRoom: a group room is observed exactly once while      *)
(* shown and never otherwise.                                              *)
ObservedExactlyWhileShown == Observe!ObservedExactlyWhileShown

(* useObserveMatrixRoom: a loaded DM once observed stays observed.        *)
DirectChatStaysObserved == Observe!DirectChatStaysObserved

(* useMatrixPaymentEvent: accept and reject are never in flight together. *)
NoAcceptAndRejectTogether == Payment!NoAcceptAndRejectTogether

(* useMatrixPaymentEvent: every raised loading flag is lowered again.     *)
PaymentLoadingClears == Payment!LoadingClears

(* ConfirmSendEcash: one generateEcash in flight at a time.               *)
OneGenerationAtATime == Ecash!OneGenerationAtATime

(* ConfirmSendEcash: isLoading clears whether generateEcash succeeded or  *)
(* threw.                                                                  *)
EcashLoadingClears == Ecash!LoadingClears

(* CompleteSocialBackup: the count shown is the completed shares, capped. *)
CountsCompletedShares == Backup!CountsCompletedShares

(* Dialog: with disableClose only the parent closes the dialog.           *)
DisableCloseKeepsOpen == Dlg!DisableCloseKeepsOpen

(* OmniActions: every action spinner clears once its promise settles.    *)
SpinnerClears == Actions!SpinnerClears

(* Initializing: the screen is left once storage and lock are known.     *)
LeavesInitializing == Start!LeavesInitializing

(* selectFormattedDepositTime: the phrase is within 15 s of the cycle.    *)
WithinQuarterMinute == Deposit!WithinQuarterMinute

(* increaseStableBalance: the deposit is within the balance and 5 msats   *)
(* of spec 4.2's padded amount.                                            *)
DepositWithinSpec == Padding!DepositWithinSpec

(* decreaseStableBalance: the basis points sent are finite and within     *)
(* 0..10000 for every snapshot and amount.                                 *)
WithdrawBpsInRange == Slice!WithdrawBpsInRange

(* decreaseStableBalance: the staged msats unlocked plus the locked basis *)
(* points cover the amount asked, within rounding.                        *)
WithdrawCoversAmount == Slice!WithdrawCoversAmount

(* The fetch thunks: account info fetched for a federation is stored     *)
(* under that federation, whatever was switched or reset meanwhile.       *)
FetchedInfoBelongsToFederation == Slice!FetchedInfoBelongsToFederation

=============================================================================
