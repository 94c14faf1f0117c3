------------------------- MODULE ConfirmSendEcash -------------------------
(***************************************************************************)
(* The ConfirmSendEcash screen of src/ui/native/screens: Send opens a     *)
(* confirmation alert; its Continue runs handleSend, which raises         *)
(* isLoading, awaits generateEcash for the amount, navigates to           *)
(* SendOfflineQr with the notes, and lowers isLoading however the call    *)
(* ended.  isLoading is handed to SendPreviewDetails, a component outside *)
(* this code: whether its button ignores presses while loading is the     *)
(* constant LoadingBlocksPress.  The alert is modal.  Notes are counted.  *)
(***************************************************************************)
EXTENDS Naturals

CONSTANTS
    LoadingBlocksPress,  \* does SendPreviewDetails ignore presses while loading?
    MaxPresses           \* bound on presses of Send

VARIABLES
    alertShown,   \* the Alert.alert of handleConfirm is on screen
    isLoading,
    inflight,     \* generateEcash calls not yet settled
    notes,        \* ecash notes generated and handed to SendOfflineQr
    presses

vars == <<alertShown, isLoading, inflight, notes, presses>>

Init ==
    /\ alertShown = FALSE
    /\ isLoading = FALSE
    /\ inflight = 0
    /\ notes = 0
    /\ presses = 0

(* Seeded fault: the Send button taking presses while loading.           *)
PressableWhileLoading == ~alertShown

(* The Send button reacts: no alert covers it, and it is not loading when *)
(* loading blocks presses.                                                *)
Pressable == ~alertShown /\ ~(LoadingBlocksPress /\ isLoading)

(* handleConfirm: the alert with Go back and Continue.                   *)
HandleConfirm ==
    /\ Pressable
    /\ presses < MaxPresses
    /\ presses' = presses + 1
    /\ alertShown' = TRUE
    /\ UNCHANGED <<isLoading, inflight, notes>>

AlertGoBack ==
    /\ alertShown
    /\ alertShown' = FALSE
    /\ UNCHANGED <<isLoading, inflight, notes, presses>>

(* Continue: handleSend up to its await, setIsLoading(true) and           *)
(* generateEcash(millis).                                                 *)
HandleSend ==
    /\ alertShown
    /\ alertShown' = FALSE
    /\ isLoading' = TRUE
    /\ inflight' = inflight + 1
    /\ UNCHANGED <<notes, presses>>

(* Seeded fault: setIsLoading(false) inside the try, skipped on error.   *)
GenerateEcashReturnsClearsOnSuccess ==
    /\ inflight > 0
    /\ inflight' = inflight - 1
    /\ \/ /\ notes' = notes + 1
          /\ isLoading' = FALSE
       \/ UNCHANGED <<notes, isLoading>>
    /\ UNCHANGED <<alertShown, presses>>

(* generateEcash settles: navigate to SendOfflineQr with the notes, or    *)
(* log the error; then setIsLoading(false).                               *)
GenerateEcashReturns ==
    /\ inflight > 0
    /\ inflight' = inflight - 1
    /\ \/ notes' = notes + 1
       \/ UNCHANGED notes
    /\ isLoading' = FALSE
    /\ UNCHANGED <<alertShown, presses>>

Next ==
    \/ HandleConfirm
    \/ AlertGoBack
    \/ HandleSend
    \/ GenerateEcashReturns

(* The bridge answers every call.                                         *)
Spec == Init /\ [][Next]_vars /\ WF_vars(GenerateEcashReturns)

-----------------------------------------------------------------------------
(* Properties.                                                             *)

(* One press of Send generates at most one set of notes at a time: while  *)
(* a generateEcash call is in flight no other starts.                     *)
OneGenerationAtATime == inflight <= 1

(* The loading state clears once the notes are generated or the call     *)
(* failed.                                                                 *)
LoadingClears == isLoading ~> ~isLoading

=============================================================================
