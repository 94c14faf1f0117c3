--------------------------- MODULE MC_OmniPayment ---------------------------
(* Inputs for useOmniPaymentState: two invoices (one with a fixed amount   *)
(* and a bridge fee, one without), an LNURL with a minimum, a BIP21 URI    *)
(* with an amount and a bare address, on two distinct addresses.          *)
EXTENDS OmniPayment

CONSTANTS a1, a2, NoAddress

MCInputs ==
    { [type |-> "bolt11", amount |-> TRUE, fee |-> TRUE, address |-> NoAddress],
      [type |-> "bolt11", amount |-> FALSE, fee |-> FALSE, address |-> NoAddress],
      [type |-> "lnurlPay", amount |-> TRUE, fee |-> FALSE, address |-> NoAddress],
      [type |-> "bip21", amount |-> TRUE, fee |-> FALSE, address |-> a1],
      [type |-> "bitcoinAddress", amount |-> FALSE, fee |-> FALSE, address |-> a2] }

=============================================================================
