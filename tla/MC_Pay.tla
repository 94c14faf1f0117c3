------------------------------- MODULE MC_Pay -------------------------------
(***************************************************************************)
(* useOmniPaymentState (src/ui/common/hooks/pay.ts) and the on-chain      *)
(* confirmation screen built on it (ConfirmSendOnChain.tsx), checked side  *)
(* by side.  Each model holds its own copy of the hook's state: OmniPayment *)
(* the four target slots and the send priority, ConfirmSendOnChain the    *)
(* address, fee and send button of one screen.  A behaviour exercises one *)
(* of them, chosen at the start; the other stays in a fixed initial state, *)
(* so every property holds here exactly when it holds of its model alone. *)
(***************************************************************************)
EXTENDS Naturals

CONSTANTS a1, a2, NoAddress, None, MaxCalls, f1, f2, NoFed

VARIABLES
    model,
    federationId, invoice, lnurlPayment, bip21Payment, btcAddress,
    feeDetails, inputAmount, pending, issued, lastSend, fedSinceReset,
    fed, ocBtcAddress, ocFeeDetails, ocPending, ocIssued, effectsDue,
    isPayingAddress, inflight, replaced, sent

(* Two invoices (one with a fixed amount and a bridge fee, one without),  *)
(* an LNURL with a minimum, a BIP21 URI with an amount and a bare address, *)
(* on two distinct addresses.                                              *)
PayInputs ==
    { [type |-> "bolt11", amount |-> TRUE, fee |-> TRUE, address |-> NoAddress],
      [type |-> "bolt11", amount |-> FALSE, fee |-> FALSE, address |-> NoAddress],
      [type |-> "lnurlPay", amount |-> TRUE, fee |-> FALSE, address |-> NoAddress],
      [type |-> "bip21", amount |-> TRUE, fee |-> FALSE, address |-> a1],
      [type |-> "bitcoinAddress", amount |-> FALSE, fee |-> FALSE, address |-> a2] }

Omni == INSTANCE OmniPayment WITH Inputs <- PayInputs
OnChain == INSTANCE ConfirmSendOnChain
               WITH Feds <- {f1, f2}, btcAddress <- ocBtcAddress,
                    feeDetails <- ocFeeDetails, pending <- ocPending,
                    issued <- ocIssued

Models == {"omni", "onchain"}

OmniVars == <<federationId, invoice, lnurlPayment, bip21Payment, btcAddress,
              feeDetails, inputAmount, pending, issued, lastSend, fedSinceReset>>
OnChainVars == <<fed, ocBtcAddress, ocFeeDetails, ocPending, ocIssued,
                 effectsDue, isPayingAddress, inflight, replaced, sent>>

vars == <<model, OmniVars, OnChainVars>>

(* The exercised model starts in any of its initial states; the other in  *)
(* a fixed one.                                                            *)
Init ==
    /\ model \in Models
    /\ IF model = "omni" THEN Omni!Init ELSE Omni!Init /\ ~federationId
    /\ IF model = "onchain" THEN OnChain!Init ELSE OnChain!Init /\ fed = NoFed

Step(m, A, Others) == model = m /\ A /\ UNCHANGED <<model, Others>>

Next ==
    \/ Step("omni", Omni!Next, OnChainVars)
    \/ Step("onchain", OnChain!Next, OmniVars)

(* The fairness of ConfirmSendOnChain's own specification; OmniPayment's *)
(* has none.                                                               *)
Spec ==
    /\ Init /\ [][Next]_vars
    /\ WF_vars(Step("onchain", OnChain!RunEffects, OmniVars))
    /\ WF_vars(Step("onchain", OnChain!SendSettles, OmniVars))
    /\ \A f \in {f1, f2} :
           WF_vars(Step("onchain", OnChain!PreviewReturns(f), OmniVars))

-----------------------------------------------------------------------------
(* Properties, each that of its model.                                     *)

(* useOmniPaymentState: the hook's slots, fee and calls keep their types. *)
TypeOK == model \in Models /\ Omni!TypeOK

(* ConfirmSendOnChain: at most one handleOmniSend is in flight.           *)
OneSendAtATime == OnChain!OneSendAtATime

(* ConfirmSendOnChain: isPayingAddress clears whether the send succeeded  *)
(* or failed, unless the success replaced the screen.                     *)
SendSpinnerClears == OnChain!SendSpinnerClears

(* ConfirmSendOnChain: a send never goes out under a fee previewed for     *)
(* another federation.                                                     *)
FeeShownForPayingFederation == OnChain!FeeShownForPayingFederation

=============================================================================
