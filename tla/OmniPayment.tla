---------------------------- MODULE OmniPayment ----------------------------
(***************************************************************************)
(* useOmniPaymentState of src/ui/common/hooks/pay.ts: the hook that turns *)
(* a parsed payment input into one of four target slots, previews the     *)
(* on-chain fee, sends through the slot of highest priority, and resets.  *)
(*                                                                         *)
(* The bridge calls it makes (decodeInvoice, previewPayAddress) are       *)
(* asynchronous and never cancelled: a call is a member of pending until  *)
(* the bridge answers it, and answers come back in any order.  A parsed   *)
(* input is a record of the fields the hook branches on.                  *)
(***************************************************************************)
EXTENDS Naturals, FiniteSets

CONSTANTS
    Inputs,        \* parsed inputs: [type, amount, fee, address] records
    None,          \* undefined
    MaxCalls       \* bound on bridge calls issued

InputTypes == {"bolt11", "lnurlPay", "bip21", "bitcoinAddress"}

ASSUME \A i \in Inputs : i.type \in InputTypes
ASSUME MaxCalls \in Nat

VARIABLES
    federationId,  \* the hook's federationId argument: TRUE when defined
    invoice,       \* the four target slots: None or the input that set it
    lnurlPayment,
    bip21Payment,
    btcAddress,    \* None or an address
    feeDetails,    \* None, [from |-> "invoice", input] or [from |-> "preview", address]
    inputAmount,   \* None (0 sats) or the input whose amount pre-filled it
    pending,       \* bridge calls awaiting their answer
    issued,        \* bridge calls issued so far
    lastSend,      \* the last bridge call handleOmniSend made
    fedSinceReset  \* inputs handled since the last reset (history)

vars == <<federationId, invoice, lnurlPayment, bip21Payment, btcAddress,
          feeDetails, inputAmount, pending, issued, lastSend, fedSinceReset>>

Decode(i) == [call |-> "decodeInvoice", input |-> i]
Preview(a) == [call |-> "previewPayAddress", address |-> a]
Calls == {Decode(i) : i \in Inputs} \cup
         {Preview(i.address) : i \in Inputs}

Init ==
    /\ federationId \in BOOLEAN
    /\ invoice = None /\ lnurlPayment = None /\ bip21Payment = None
    /\ btcAddress = None
    /\ feeDetails = None
    /\ inputAmount = None
    /\ pending = {}
    /\ issued = 0
    /\ lastSend = None
    /\ fedSinceReset = {}

(* The fee-preview effect, run after a render in which btcAddress or      *)
(* bip21Payment changed: with an exact amount (from useSendForm, outside  *)
(* this hook, so either outcome), a federation and an address, it calls   *)
(* previewPayAddress.                                                     *)
FeeEffect(addr) ==
    \/ /\ federationId /\ addr # None /\ issued < MaxCalls
       /\ pending' = pending \cup {Preview(addr)}
       /\ issued' = issued + 1
    \/ UNCHANGED <<pending, issued>>

(* handleOmniInput up to its await, or to its end for the synchronous     *)
(* branches.  A BOLT11 input without a federation matches no branch.      *)
HandleOmniInput(i) ==
    /\ fedSinceReset' = fedSinceReset \cup {i}
    /\ \/ /\ i.type = "bolt11" /\ federationId
          /\ issued < MaxCalls
          /\ pending' = pending \cup {Decode(i)}
          /\ issued' = issued + 1
          /\ UNCHANGED <<lnurlPayment, bip21Payment, btcAddress, inputAmount>>
       \/ /\ i.type = "lnurlPay"
          /\ lnurlPayment' = i
          /\ inputAmount' = IF i.amount THEN i ELSE inputAmount
          /\ UNCHANGED <<bip21Payment, btcAddress, pending, issued>>
       \/ /\ i.type = "bip21"
          /\ bip21Payment' = i
          /\ btcAddress' = i.address
          /\ inputAmount' = IF i.amount /\ federationId THEN i ELSE inputAmount
          /\ FeeEffect(i.address)
          /\ UNCHANGED lnurlPayment
       \/ /\ i.type = "bitcoinAddress"
          /\ btcAddress' = i.address
          /\ FeeEffect(i.address)
          /\ UNCHANGED <<lnurlPayment, bip21Payment, inputAmount>>
    /\ UNCHANGED <<federationId, invoice, feeDetails, lastSend>>

(* Seeded fault: setFeeDetails(decoded) where decoded.fee is meant.      *)
DecodeInvoiceReturnsInvoiceAsFee(i) ==
    /\ Decode(i) \in pending
    /\ pending' = pending \ {Decode(i)}
    /\ \/ /\ inputAmount' = IF i.amount THEN i ELSE inputAmount
          /\ invoice' = i
          /\ feeDetails' = IF i.fee THEN i ELSE feeDetails
       \/ UNCHANGED <<inputAmount, invoice, feeDetails>>
    /\ UNCHANGED <<federationId, lnurlPayment, bip21Payment, btcAddress,
                   issued, lastSend, fedSinceReset>>

(* decodeInvoice answers: the rest of handleOmniInput's BOLT11 branch.    *)
(* A rejected call rejects handleOmniInput and sets nothing.             *)
DecodeInvoiceReturns(i) ==
    /\ Decode(i) \in pending
    /\ pending' = pending \ {Decode(i)}
    /\ \/ /\ inputAmount' = IF i.amount THEN i ELSE inputAmount
          /\ invoice' = i
          /\ feeDetails' = IF i.fee THEN [from |-> "invoice", input |-> i]
                                    ELSE feeDetails
       \/ UNCHANGED <<inputAmount, invoice, feeDetails>>
    /\ UNCHANGED <<federationId, lnurlPayment, bip21Payment, btcAddress,
                   issued, lastSend, fedSinceReset>>

(* previewPayAddress answers the fee effect: setFeeDetails(fees), or     *)
(* setFeeDetails(undefined) in its catch.                                 *)
PreviewPayAddressReturns(a) ==
    /\ Preview(a) \in pending
    /\ pending' = pending \ {Preview(a)}
    /\ \/ feeDetails' = [from |-> "preview", address |-> a]
       \/ feeDetails' = None
    /\ UNCHANGED <<federationId, invoice, lnurlPayment, bip21Payment,
                   btcAddress, inputAmount, issued, lastSend, fedSinceReset>>

(* handleOmniSend's choice: invoice, then LNURL, then BIP21, then a bare  *)
(* address; None when every slot is empty (it throws).                    *)
SendPath ==
    CASE invoice # None      -> [call |-> "payInvoice", to |-> invoice]
      [] lnurlPayment # None -> [call |-> "lnurlPay", to |-> lnurlPayment]
      [] bip21Payment # None -> [call |-> "payAddress", to |-> bip21Payment.address]
      [] btcAddress # None   -> [call |-> "payAddress", to |-> btcAddress]
      [] OTHER               -> None

(* handleOmniSend: throws without a federation or a target; otherwise it  *)
(* makes the bridge call of SendPath.                                     *)
HandleOmniSend ==
    /\ federationId
    /\ SendPath # None
    /\ lastSend' = SendPath
    /\ UNCHANGED <<federationId, invoice, lnurlPayment, bip21Payment,
                   btcAddress, feeDetails, inputAmount, pending, issued,
                   fedSinceReset>>

(* resetOmniPaymentState: every slot, the fee and the amount cleared; the *)
(* calls in flight are not cancelled.  The fee effect sees btcAddress     *)
(* become undefined and calls nothing.                                    *)
ResetOmniPaymentState ==
    /\ invoice' = None /\ lnurlPayment' = None /\ bip21Payment' = None
    /\ btcAddress' = None
    /\ feeDetails' = None
    /\ inputAmount' = None
    /\ fedSinceReset' = {}
    /\ UNCHANGED <<federationId, pending, issued, lastSend>>

Next ==
    \/ \E i \in Inputs : HandleOmniInput(i) \/ DecodeInvoiceReturns(i)
    \/ \E i \in Inputs : PreviewPayAddressReturns(i.address)
    \/ HandleOmniSend
    \/ ResetOmniPaymentState

Spec == Init /\ [][Next]_vars

-----------------------------------------------------------------------------
(* Properties.                                                             *)

TypeOK ==
    /\ federationId \in BOOLEAN
    /\ {invoice, lnurlPayment, bip21Payment} \subseteq Inputs \cup {None}
    /\ btcAddress \in {i.address : i \in Inputs} \cup {None}
    /\ feeDetails \in {None} \cup [from : {"invoice"}, input : Inputs]
                     \cup [from : {"preview"}, address : {i.address : i \in Inputs}]
    /\ inputAmount \in Inputs \cup {None}
    /\ pending \subseteq Calls
    /\ issued \in 0..MaxCalls
    /\ fedSinceReset \subseteq Inputs

(* Spec 4.3: reset clears every slot, so a send after it pays only a      *)
(* target fed to handleOmniInput after the reset.                         *)
SendPaysTargetFedSinceReset ==
    [][HandleOmniSend =>
         \E i \in fedSinceReset :
            \/ lastSend'.to = i
            \/ i.type \in {"bip21", "bitcoinAddress"} /\ lastSend'.to = i.address]_vars

(* The fee shown from previewPayAddress is the fee of the address the    *)
(* send would pay on chain.                                               *)
FeeDetailsForCurrentAddress ==
    feeDetails # None /\ feeDetails.from = "preview"
        => feeDetails.address = btcAddress

=============================================================================
