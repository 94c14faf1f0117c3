------------------------ MODULE MC_MatrixPaymentEvent ------------------------
(* What the other party may do to a payment: the requester cancels or the *)
(* payer's request is rejected elsewhere; a pushed or accepted payment is *)
(* received.  Terminal statuses stay.                                      *)
EXTENDS MatrixPaymentEvent

MCRemoteNext ==
    [s \in Statuses |->
        CASE s = "requested" -> {"canceled"}
          [] s = "pushed"    -> {"received"}
          [] s = "accepted"  -> {"received"}
          [] OTHER           -> {}]

=============================================================================
