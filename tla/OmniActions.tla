---------------------------- MODULE OmniActions ----------------------------
(***************************************************************************)
(* OmniActions of src/ui/native/components/feature/omni/OmniActions.tsx:  *)
(* a row of pressable actions; pressing one prepends its index to         *)
(* loadingActions, runs its onPress and, when the returned promise        *)
(* settles, filters every occurrence of the index out of the list.  The   *)
(* pressable is never disabled, so an action may be pressed again while   *)
(* its first call runs.  Whether an onPress may throw before returning    *)
(* (a non-async callback) is the constant SyncThrows.                     *)
(***************************************************************************)
EXTENDS Naturals, Sequences, SequencesExt

CONSTANTS
    Actions,       \* action indices
    SyncThrows,    \* may an onPress throw synchronously?
    MaxPresses     \* bound on presses

VARIABLES
    loadingActions,  \* useState<number[]>
    running,         \* running[idx]: onPress calls whose promise is pending
    presses

vars == <<loadingActions, running, presses>>

Init ==
    /\ loadingActions = <<>>
    /\ running = [a \in Actions |-> 0]
    /\ presses = 0

(* Seeded fault: the index recorded one past the pressed action's.      *)
HandlePressOffByOne(idx) ==
    /\ presses < MaxPresses
    /\ presses' = presses + 1
    /\ loadingActions' = <<idx + 1>> \o loadingActions
    /\ \/ running' = [running EXCEPT ![idx] = @ + 1]
       \/ SyncThrows /\ UNCHANGED running

(* handlePress: setLoadingActions(curr => [idx, ...curr]), then onPress;   *)
(* a synchronous throw escapes handlePress before .finally is attached.   *)
HandlePress(idx) ==
    /\ presses < MaxPresses
    /\ presses' = presses + 1
    /\ loadingActions' = <<idx>> \o loadingActions
    /\ \/ running' = [running EXCEPT ![idx] = @ + 1]
       \/ SyncThrows /\ UNCHANGED running

(* Seeded fault: the finally filters the index the loop variable holds  *)
(* last (a closure over a shared variable), not the pressed one.        *)
OnPressSettlesLastIndex(idx) ==
    /\ running[idx] > 0
    /\ running' = [running EXCEPT ![idx] = @ - 1]
    /\ loadingActions' = Remove(loadingActions, Max(Actions))
    /\ UNCHANGED presses

(* The promise of one onPress call settles: its finally filters idx out. *)
OnPressSettles(idx) ==
    /\ running[idx] > 0
    /\ running' = [running EXCEPT ![idx] = @ - 1]
    /\ loadingActions' = Remove(loadingActions, idx)
    /\ UNCHANGED presses

Next ==
    \E idx \in Actions : HandlePress(idx) \/ OnPressSettles(idx)

(* Every onPress promise the row waits on settles.                       *)
Spec == Init /\ [][Next]_vars /\ \A idx \in Actions : WF_vars(OnPressSettles(idx))

-----------------------------------------------------------------------------
(* Properties.                                                             *)

TypeOK ==
    /\ loadingActions \in Seq(Actions)
    /\ running \in [Actions -> 0..MaxPresses]
    /\ presses \in 0..MaxPresses

(* An action's spinner, once shown, goes away: the row never shows an    *)
(* action as loading forever.                                             *)
SpinnerClears ==
    \A idx \in Actions :
        (idx \in ToSet(loadingActions)) ~> (idx \notin ToSet(loadingActions))

(* An action shows its spinner while any call of its onPress is running.  *)
SpinnerWhileRunning ==
    \A idx \in Actions : running[idx] > 0 => idx \in ToSet(loadingActions)

=============================================================================
