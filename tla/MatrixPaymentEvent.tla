------------------------- MODULE MatrixPaymentEvent -------------------------
(***************************************************************************)
(* useMatrixPaymentEvent of src/ui/common/hooks/matrix.ts: the buttons a  *)
(* payment message shows, from its status and the viewer's relation to    *)
(* it, and the handlers behind them.  A handler dispatches one payment    *)
(* thunk (cancel, accept, reject) through handleDispatchPaymentUpdate,    *)
(* which raises a loading flag, awaits the thunk and lowers the flag.     *)
(* The payment's status is a snapshot of a room event: a thunk's effect   *)
(* reaches it only when the updated event arrives, some time after the    *)
(* bridge committed it; the other party may also change it.  Whether a    *)
(* button with loading set still takes presses is the constant            *)
(* LoadingBlocksPress (the button component is not part of this code).    *)
(***************************************************************************)
EXTENDS Naturals, FiniteSets

CONSTANTS
    LoadingBlocksPress,  \* does a loading button ignore presses?
    RemoteNext,          \* status -> statuses the other party may move it to
    MaxDispatches        \* bound on thunks dispatched

Statuses == {"received", "rejected", "canceled", "pushed", "accepted", "requested"}
Thunks == {"cancel", "accept", "reject"}
Roles == {"sender", "recipient", "other"}

(* The selectors the hook reads about the viewer and the event.          *)
Viewers == [role : Roles, canClaimPayment : BOOLEAN, canSendPayment : BOOLEAN,
            canPayFromOtherFeds : BOOLEAN, isDm : BOOLEAN,
            onPayWithForeignEcash : BOOLEAN]

VARIABLES
    viewer,       \* selectors and props, fixed for the message
    status,       \* event.content.status as rendered
    flags,        \* isCanceling, isAccepting, isRejecting, isHandlingForeignEcash
    inflight,     \* inflight[t]: calls of thunk t not yet settled
    committed,    \* statuses committed by the bridge, not yet rendered
    dispatched    \* dispatched[t]: calls of thunk t made so far

vars == <<viewer, status, flags, inflight, committed, dispatched>>

Flag == [cancel |-> "isCanceling", accept |-> "isAccepting", reject |-> "isRejecting"]
(* Seeded fault: the cancelled status spelled as it is not in the enum. *)
EffectCancelledSpelling ==
    [cancel |-> "cancelled", accept |-> "accepted", reject |-> "rejected"]

(* The status each thunk leads to once the bridge commits it.           *)
Effect == [cancel |-> "canceled", accept |-> "accepted", reject |-> "rejected"]

Init ==
    /\ viewer \in Viewers
    /\ status \in {"pushed", "accepted", "requested"}
    /\ flags = [f \in {"isCanceling", "isAccepting", "isRejecting",
                       "isHandlingForeignEcash"} |-> FALSE]
    /\ inflight = [t \in Thunks |-> 0]
    /\ committed = {}
    /\ dispatched = [t \in Thunks |-> 0]

Button(handler, loading, disabled) ==
    [handler |-> handler, loading |-> loading, disabled |-> disabled]

(* Seeded fault: the pay button disabled by isAccepting, copied from    *)
(* the reject button, instead of isRejecting.                           *)
ButtonsPayDisabledCopied ==
    LET v == viewer IN
    IF status \in {"pushed", "accepted"}
    THEN IF ~v.canClaimPayment
         THEN {Button("reject", flags.isRejecting, flags.isAccepting),
               Button("acceptForeignEcash", flags.isRejecting, flags.isAccepting)}
         ELSE IF v.role = "sender"
              THEN {Button("cancel", flags.isCanceling, FALSE)}
              ELSE {}
    ELSE IF status = "requested"
    THEN IF v.role = "recipient"
         THEN {Button("cancel", flags.isCanceling, FALSE)}
         ELSE {Button("acceptRequest", flags.isAccepting, flags.isAccepting)}
              \cup (IF v.isDm
                    THEN {Button("reject", flags.isRejecting, flags.isAccepting)}
                    ELSE {})
    ELSE {}

(* The buttons array built from paymentStatus, canClaimPayment,          *)
(* isRecipient, isSentByMe and isDm; received, rejected and canceled      *)
(* show none.                                                              *)
Buttons ==
    LET v == viewer IN
    IF status \in {"pushed", "accepted"}
    THEN IF ~v.canClaimPayment
         THEN {Button("reject", flags.isRejecting, flags.isAccepting),
               Button("acceptForeignEcash", flags.isRejecting, flags.isAccepting)}
         ELSE IF v.role = "sender"
              THEN {Button("cancel", flags.isCanceling, FALSE)}
              ELSE {}
    ELSE IF status = "requested"
    THEN IF v.role = "recipient"
         THEN {Button("cancel", flags.isCanceling, FALSE)}
         ELSE {Button("acceptRequest", flags.isAccepting, flags.isRejecting)}
              \cup (IF v.isDm
                    THEN {Button("reject", flags.isRejecting, flags.isAccepting)}
                    ELSE {})
    ELSE {}

(* handleDispatchPaymentUpdate up to its await: setIsLoading(true) and    *)
(* dispatch.                                                               *)
Dispatch(t) ==
    /\ dispatched.cancel + dispatched.accept + dispatched.reject < MaxDispatches
    /\ flags' = [flags EXCEPT ![Flag[t]] = TRUE]
    /\ inflight' = [inflight EXCEPT ![t] = @ + 1]
    /\ dispatched' = [dispatched EXCEPT ![t] = @ + 1]

(* The handler a button runs: handleCancel, handleRejectRequest,          *)
(* handleAcceptForeignEcash, or handleAcceptRequest, which accepts when    *)
(* the viewer can send, else pays with foreign ecash and rejects, else     *)
(* reports an error.                                                       *)
RunHandler(h) ==
    CASE h = "cancel" -> Dispatch("cancel")
      [] h = "reject" -> Dispatch("reject")
      [] h = "acceptForeignEcash" ->
            /\ flags' = [flags EXCEPT !.isHandlingForeignEcash = TRUE]
            /\ UNCHANGED <<inflight, dispatched>>
      [] h = "acceptRequest" ->
            IF viewer.canSendPayment THEN Dispatch("accept")
            ELSE IF viewer.onPayWithForeignEcash /\ viewer.canPayFromOtherFeds
                 THEN Dispatch("reject")
                 ELSE UNCHANGED <<flags, inflight, dispatched>>

(* A press reaches a button that is not disabled, and not loading when    *)
(* loading blocks presses.                                                  *)
Pressable(b) == ~b.disabled /\ (LoadingBlocksPress => ~b.loading)

Press(b) ==
    /\ b \in Buttons
    /\ Pressable(b)
    /\ RunHandler(b.handler)
    /\ UNCHANGED <<viewer, status, committed>>

(* Seeded fault: setIsLoading(false) inside the try, skipped on error.  *)
ThunkSettlesFlagOnSuccess(t) ==
    /\ inflight[t] > 0
    /\ inflight' = [inflight EXCEPT ![t] = @ - 1]
    /\ \/ /\ committed' = committed \cup {Effect[t]}
          /\ flags' = [flags EXCEPT ![Flag[t]] = FALSE]
       \/ UNCHANGED <<committed, flags>>
    /\ UNCHANGED <<viewer, status, dispatched>>

(* The thunk settles: unwrap() resolves (the bridge committed its effect) *)
(* or throws (onError); either way setIsLoading(false).                   *)
ThunkSettles(t) ==
    /\ inflight[t] > 0
    /\ inflight' = [inflight EXCEPT ![t] = @ - 1]
    /\ flags' = [flags EXCEPT ![Flag[t]] = FALSE]
    /\ \/ committed' = committed \cup {Effect[t]}
       \/ UNCHANGED committed
    /\ UNCHANGED <<viewer, status, dispatched>>

(* The updated room event arrives and the message re-renders.            *)
EventUpdated(s) ==
    /\ s \in committed \/ s \in RemoteNext[status]
    /\ status' = s
    /\ committed' = committed \ {s}
    /\ UNCHANGED <<viewer, flags, inflight, dispatched>>

Next ==
    \/ \E b \in Buttons : Press(b)
    \/ \E t \in Thunks : ThunkSettles(t)
    \/ \E s \in Statuses : EventUpdated(s)

(* Every dispatched thunk settles, and every committed status reaches    *)
(* the message.                                                            *)
Fairness ==
    /\ \A t \in Thunks : WF_vars(ThunkSettles(t))
    /\ \A s \in Statuses : WF_vars(s \in committed /\ EventUpdated(s))

Spec == Init /\ [][Next]_vars /\ Fairness

-----------------------------------------------------------------------------
(* Properties.                                                             *)

TypeOK ==
    /\ viewer \in Viewers
    /\ status \in Statuses
    /\ flags \in [{"isCanceling", "isAccepting", "isRejecting",
                   "isHandlingForeignEcash"} -> BOOLEAN]
    /\ inflight \in [Thunks -> 0..MaxDispatches]
    /\ committed \subseteq Statuses
    /\ dispatched \in [Thunks -> 0..MaxDispatches]

(* The disabled flags keep accepting and rejecting a payment apart: an    *)
(* accept and a reject of the same message are never in flight together. *)
NoAcceptAndRejectTogether ==
    ~(inflight.accept > 0 /\ inflight.reject > 0)

(* Every loading flag raised by a handler is lowered again.              *)
LoadingClears ==
    \A t \in Thunks : flags[Flag[t]] ~> ~flags[Flag[t]]

(* A payment request is paid at most once from its message.              *)
AtMostOneAccept ==
    dispatched.accept <= 1

=============================================================================
