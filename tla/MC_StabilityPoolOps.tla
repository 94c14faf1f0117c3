------------------------ MODULE MC_StabilityPoolOps ------------------------
(***************************************************************************)
(* Instantiates StabilityPoolOps for TLC.  The bridge lifecycles below are *)
(* the orders in which the fedimint stability-pool client walks its        *)
(* deposit and withdrawal states (the bridge is not in this repository;   *)
(* the state names are those of types/bindings.ts).                        *)
(***************************************************************************)
EXTENDS StabilityPoolOps

CONSTANTS f1, f2, c1, c2

MCFederations == {f1, f2}
MCPoolFederations == {f1}
MCCalls == {c1, c2}

(* Deposit: initiated, then accepted or rejected; an accepted deposit     *)
(* may still fail to issue its output.                                     *)
MCDepositNext ==
    [s \in {"created"} \cup DepositStates |->
        CASE s = "created"    -> {"initiated"}
          [] s = "initiated"  -> {"txAccepted", "txRejected"}
          [] s = "txAccepted" -> {"success", "primaryOutputError"}
          [] OTHER            -> {}]

(* Withdrawal: from staged seeks (unlocked path), or by a cancellation of *)
(* locked seeks that completes at the next cycle turnover.                *)
MCWithdrawalNext ==
    [s \in {"created"} \cup WithdrawalStates |->
        CASE s = "created" ->
                {"withdrawUnlockedInitiated", "cancellationInitiated"}
          [] s = "withdrawUnlockedInitiated" ->
                {"txRejected", "withdrawUnlockedAccepted"}
          [] s = "withdrawUnlockedAccepted" ->
                {"success", "primaryOutputError"}
          [] s = "cancellationInitiated" ->
                {"cancellationSubmissionFailure", "cancellationAccepted"}
          [] s = "cancellationAccepted" ->
                {"success", "awaitCycleTurnoverError",
                 "withdrawIdleSubmissionFailure"}
          [] OTHER -> {}]

=============================================================================
