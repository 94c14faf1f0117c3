--------------------------- MODULE MC_DepositTime ---------------------------
EXTENDS DepositTime

(* Every duration below four minutes, and four minutes either side of the *)
(* hour: each branch, each half-minute rounding tie and both cut-offs.   *)
MCDurations == 0..240 \cup 3360..3840
=============================================================================
