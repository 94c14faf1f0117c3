------------------------ MODULE ConfirmSendOnChain ------------------------
(***************************************************************************)
(* The ConfirmSendOnChain screen of src/ui/native/screens over            *)
(* useOmniPaymentState(fedimint, activeFederation?.id) of                 *)
(* src/ui/common/hooks/pay.ts.  The screen's effect feeds its parsed      *)
(* on-chain input (a BIP21 URI or a bare address) to handleOmniInput,     *)
(* again whenever handleOmniInput changes, which is whenever the active   *)
(* federation does; the hook's fee effect then calls previewPayAddress    *)
(* for the address and the federation of that render, and stores         *)
(* whatever answer comes back.  The Send button is disabled while a send *)
(* is in flight; a successful send replaces the screen.  A fee is         *)
(* reduced to the federation it was previewed for.                        *)
(***************************************************************************)
EXTENDS Naturals

CONSTANTS
    Feds,          \* federation ids (model values)
    NoFed,         \* no active federation
    None,          \* undefined
    MaxCalls       \* bound on previewPayAddress calls

VARIABLES
    fed,           \* activeFederation?.id
    btcAddress,    \* the hook's btcAddress is set
    feeDetails,    \* None or the federation the shown fee was previewed for
    pending,       \* previewPayAddress calls in flight, by federation
    issued,
    effectsDue,    \* a render changed handleOmniInput; its effects not yet run
    isPayingAddress,
    inflight,      \* handleOmniSend calls not yet settled
    replaced,      \* a send succeeded and SendSuccess replaced the screen
    sent           \* what each send paid from and the fee shown (history)

vars == <<fed, btcAddress, feeDetails, pending, issued,
          effectsDue, isPayingAddress, inflight, replaced, sent>>

Init ==
    /\ fed \in Feds \cup {NoFed}
    /\ btcAddress = FALSE
    /\ feeDetails = None
    /\ pending = {}
    /\ issued = 0
    /\ effectsDue = TRUE
    /\ isPayingAddress = FALSE
    /\ inflight = 0
    /\ replaced = FALSE
    /\ sent = {}

(* The effects after a render with a new handleOmniInput: the screen's     *)
(* effect calls it (both on-chain branches set btcAddress synchronously,  *)
(* with a new object), and the fee effect sees the new btcAddress and      *)
(* federation: with an exact amount (computed by useSendForm, outside     *)
(* this code, so either way) and a federation it calls previewPayAddress. *)
RunEffects ==
    /\ effectsDue
    /\ effectsDue' = FALSE
    /\ btcAddress' = TRUE
    /\ \/ /\ fed # NoFed /\ issued < MaxCalls
          /\ pending' = pending \cup {fed}
          /\ issued' = issued + 1
       \/ UNCHANGED <<pending, issued>>
    /\ UNCHANGED <<fed, feeDetails, isPayingAddress, inflight, replaced, sent>>

(* The active federation changes (SwitchingFederations).                 *)
SwitchFederation(f) ==
    /\ f # fed
    /\ fed' = f
    /\ effectsDue' = TRUE
    /\ UNCHANGED <<btcAddress, feeDetails, pending, issued,
                   isPayingAddress, inflight, replaced, sent>>

(* previewPayAddress answers: setFeeDetails(fees), or undefined on error, *)
(* whatever the federation is now.                                        *)
PreviewReturns(f) ==
    /\ f \in pending
    /\ pending' = pending \ {f}
    /\ feeDetails' \in {f, None}
    /\ UNCHANGED <<fed, btcAddress, issued, effectsDue,
                   isPayingAddress, inflight, replaced, sent>>

(* Seeded fault: the Send button with loading but without disabled.      *)
SendEnabledWhilePaying == btcAddress /\ ~replaced

(* The Send button is rendered once isReadyToPay and takes presses while  *)
(* isPayingAddress is false.                                              *)
SendEnabled == btcAddress /\ ~replaced /\ ~isPayingAddress

(* handleSend: the spinner on, then handleOmniSend(inputAmount), which    *)
(* pays the address from this render's federation, or throws without one. *)
HandleSend ==
    /\ SendEnabled
    /\ isPayingAddress' = TRUE
    /\ inflight' = inflight + 1
    /\ sent' = sent \cup {[from |-> fed, fee |-> feeDetails]}
    /\ UNCHANGED <<fed, btcAddress, feeDetails, pending, issued, effectsDue,
                   replaced>>

(* Seeded fault: setIsPayingAddress(false) inside the try, after the    *)
(* navigation, so an error leaves the spinner on.                        *)
SendSettlesClearsOnSuccess ==
    /\ inflight > 0
    /\ inflight' = inflight - 1
    /\ \/ /\ fed # NoFed
          /\ replaced' = TRUE
          /\ isPayingAddress' = FALSE
       \/ UNCHANGED <<replaced, isPayingAddress>>
    /\ UNCHANGED <<fed, btcAddress, feeDetails, pending, issued, effectsDue, sent>>

(* A send settles.  On success navigationReplace('SendSuccess') takes the *)
(* screen away; on an error (a bridge error, or no federation) a toast is *)
(* shown.  Either way setIsPayingAddress(false).                          *)
SendSettles ==
    /\ inflight > 0
    /\ inflight' = inflight - 1
    /\ isPayingAddress' = FALSE
    /\ \/ /\ fed # NoFed
          /\ replaced' = TRUE
       \/ UNCHANGED replaced
    /\ UNCHANGED <<fed, btcAddress, feeDetails, pending, issued, effectsDue, sent>>

Next ==
    \/ ~replaced /\ RunEffects
    \/ ~replaced /\ \E f \in Feds \cup {NoFed} : SwitchFederation(f)
    \/ ~replaced /\ \E f \in Feds : PreviewReturns(f)
    \/ HandleSend
    \/ SendSettles

(* React runs pending effects, and the bridge answers every call.        *)
Fairness ==
    /\ WF_vars(RunEffects)
    /\ WF_vars(SendSettles)
    /\ \A f \in Feds : WF_vars(PreviewReturns(f))

Spec == Init /\ [][Next]_vars /\ Fairness

-----------------------------------------------------------------------------
(* Properties.                                                             *)

(* The disabled Send button keeps the screen from paying twice: at most   *)
(* one handleOmniSend is in flight.                                       *)
OneSendAtATime == inflight <= 1

(* The Send spinner goes off again unless the payment succeeded and the   *)
(* screen was replaced.                                                    *)
SendSpinnerClears == isPayingAddress ~> (~isPayingAddress \/ replaced)

(* handleSend pays from the federation of the render it was pressed in;   *)
(* the fee the screen showed then was previewed for that same federation, *)
(* or no fee was shown.  A federation switch leaves the old feeDetails in *)
(* place until the new preview answers.                                    *)
FeeShownForPayingFederation == \A s \in sent : s.fee \in {None, s.from}

=============================================================================
