---------------------------- MODULE WalletSlice ----------------------------
(***************************************************************************)
(* The wallet slice of src/ui/common/redux/wallet.ts: per-federation       *)
(* stability-pool state, its reducers, the fetch thunks that fill it from  *)
(* the bridge, and the selectors that derive every balance from it.        *)
(*                                                                         *)
(* Units.  Amounts in msats are integers.  Every cent amount is an integer *)
(* count of q = 10^-6 cent, so that the code's float arithmetic on cents   *)
(* (fractions of basis points, toFixed(2)) is exact here: 1 cent = 10^6 q, *)
(* and toFixed(2) on cents rounds to a multiple of CC = 10^4 q.  The       *)
(* BTC/USD rate is the constant MsatsPerCent.                              *)
(***************************************************************************)
EXTENDS Integers, Sequences, SequencesExt

CONSTANTS
    Federations,     \* federation ids (model values)
    NoFederation,    \* no active federation
    Null,            \* JS null / absent value
    Contents,        \* Contents[f]: account-info snapshots the bridge may report for f
    PriceCents,      \* cycle start prices the bridge may report, in cents
    MsatsPerCent,    \* exchange rate
    MaxFetches,      \* bound on RPCs issued
    MinAllowedCancellationBps  \* stability pool config: min_allowed_cancellation_bps

ASSUME NoFederation \notin Federations
ASSUME MsatsPerCent \in Nat /\ MsatsPerCent > 0 /\ (10^6) % MsatsPerCent = 0
ASSUME MaxFetches \in Nat

VARIABLES
    activeFed,   \* state.federation.activeFederationId
    wallet,      \* state.wallet[f], through getFederationWalletState
    reqs,        \* RPCs issued by the fetch thunks, in issue order
    clock        \* bridge time: the timestamp of the next snapshot

vars == <<activeFed, wallet, reqs, clock>>

-----------------------------------------------------------------------------
(* Arithmetic.                                                             *)

CC == 10^4                      \* q per hundredth of a cent
QPerCent == 10^6
QPerMsat == QPerCent \div MsatsPerCent

(* Number(x.toFixed(0)) of n / d for d > 0: round half away from zero.    *)
RoundDiv(n, d) ==
    IF n >= 0 THEN (2 * n + d) \div (2 * d)
              ELSE -((2 * (-n) + d) \div (2 * d))

(* amountUtils.msatToFiat(m, rate) * 100, and fiatToMsat(q / 100, rate):  *)
(* the conversions between msats and cents at the current rate.           *)
MsatToCents(m) == m * QPerMsat
CentsToMsats(q) == RoundDiv(q, QPerMsat)

SumSeq(s) == FoldLeft(LAMBDA acc, x : acc + x, 0, s)

-----------------------------------------------------------------------------
(* State.                                                                  *)

(* initialFederationWalletState.  getFederationWalletState returns a copy *)
(* of it for a federation with no entry, so an absent entry and a default *)
(* one are the same to every reader and are one value here.  The field    *)
(* spread holds what fetchStabilityPoolAccountInfo.fulfilled spreads from *)
(* the payload onto the entry beside stabilityPoolAccountInfo.            *)
InitialFederationWalletState == [info |-> Null, price |-> Null, spread |-> Null]

(* setStabilityPoolAccountInfo: replace the entry's account info.         *)
SetStabilityPoolAccountInfo(entry, info) == [entry EXCEPT !.info = info]

(* fetchStabilityPoolAccountInfo.fulfilled: spread the payload's fields   *)
(* onto the entry.                                                         *)
FulfilledAccountInfo(entry, info) == [entry EXCEPT !.spread = info]

(* Seeded fault: the price stored without the division by 100.          *)
FulfilledCycleStartPriceUnscaled(entry, priceCents) ==
    [entry EXCEPT !.price = priceCents]

(* fetchStabilityPoolCycleStartPrice: Number(priceCents) / 100, stored by  *)
(* its fulfilled reducer.                                                  *)
FulfilledCycleStartPrice(entry, priceCents) ==
    [entry EXCEPT !.price = priceCents \div 100]

Init ==
    /\ activeFed \in Federations \cup {NoFederation}
    /\ wallet = [f \in Federations |-> InitialFederationWalletState]
    /\ reqs = <<>>
    /\ clock = 0

-----------------------------------------------------------------------------
(* Selectors, over the account info of the active federation.             *)

(* selectTotalLockedMsats: sum of (initial - withdrawn) - feesPaidSoFar.  *)
TotalLockedMsats(info) ==
    IF info = Null THEN 0
    ELSE SumSeq([i \in DOMAIN info.lockedSeeks |->
                   LET ls == info.lockedSeeks[i]
                   IN (ls.initialAmount - ls.withdrawnAmount) - ls.feesPaidSoFar])

(* selectTotalLockedCents: sum of (initialCents - withdrawnCents) minus   *)
(* the fees converted at the current rate.                                *)
TotalLockedCents(info) ==
    IF info = Null THEN 0
    ELSE SumSeq([i \in DOMAIN info.lockedSeeks |->
                   LET ls == info.lockedSeeks[i]
                   IN (ls.initialAmountCents - ls.withdrawnAmountCents) * QPerCent
                        - MsatToCents(ls.feesPaidSoFar)])

(* selectTotalStagedMsats: sum of stagedSeeks, rounded at each step.      *)
TotalStagedMsats(info) ==
    IF info = Null THEN 0 ELSE SumSeq(info.stagedSeeks)

(* selectTotalStagedCents.                                                *)
TotalStagedCents(info) == MsatToCents(TotalStagedMsats(info))

(* `if (stagedCancellation)`: null and 0 are both falsy.                  *)
HasCancellation(info) ==
    info.stagedCancellation # Null /\ info.stagedCancellation # 0

(* selectStableBalanceCents: locked cents less the cancelled fraction.    *)
StableBalanceCents(info) ==
    IF info = Null THEN 0
    ELSE IF HasCancellation(info)
         THEN TotalLockedCents(info)
                - (TotalLockedCents(info) \div CC) * info.stagedCancellation
         ELSE TotalLockedCents(info)

(* selectStableBalancePendingCents: staged deposits in cents less the     *)
(* cancelled fraction of locked cents, rounded by toFixed(2).             *)
StableBalancePendingCents(info) ==
    IF info = Null THEN 0
    ELSE TotalStagedCents(info)
           - (IF HasCancellation(info)
              THEN RoundDiv((TotalLockedCents(info) \div CC)
                              * info.stagedCancellation, CC) * CC
              ELSE 0)

(* selectWithdrawableStableBalanceCents.                                  *)
WithdrawableStableBalanceCents(info) ==
    StableBalanceCents(info) + StableBalancePendingCents(info)

(* selectMinimumWithdrawAmountCents: 0 while the pending balance is       *)
(* positive, else min_allowed_cancellation_bps of the stable balance.     *)
MinimumWithdrawAmountCents(info, minBps) ==
    IF StableBalancePendingCents(info) > 0 THEN 0
    ELSE RoundDiv(StableBalanceCents(info) * minBps, CC * CC) * CC

(* selectWithdrawableStableBalanceMsats.                                  *)
WithdrawableStableBalanceMsats(info) ==
    CentsToMsats(WithdrawableStableBalanceCents(info))

(* Seeded faults in decreaseStableBalance: the basis points computed from *)
(* the whole amount instead of what staged seeks leave; the dust sweep    *)
(* taken at a remainder of exactly 1000 msats too.                        *)
WithdrawPlanWholeAmount(staged, lockedCents, amount) ==
    LET locked == lockedCents \div CC
    IN IF amount <= staged
       THEN [finite |-> TRUE, lockedBps |-> 0,
             unlockedAmount |-> IF staged - amount < 1000 THEN staged ELSE amount]
       ELSE LET remainingCents == MsatToCents(amount) \div CC
            IN [finite |-> locked # 0,
                lockedBps |-> IF locked = 0 THEN 0
                              ELSE RoundDiv(remainingCents * 10000, locked),
                unlockedAmount |-> staged]

WithdrawPlanSweepInclusive(staged, lockedCents, amount) ==
    LET locked == lockedCents \div CC
    IN IF amount <= staged
       THEN [finite |-> TRUE, lockedBps |-> 0,
             unlockedAmount |-> IF staged - amount <= 1000 THEN staged ELSE amount]
       ELSE LET remainingCents == MsatToCents(amount - staged) \div CC
            IN [finite |-> locked # 0,
                lockedBps |-> IF locked = 0 THEN 0
                              ELSE RoundDiv(remainingCents * 10000, locked),
                unlockedAmount |-> staged]

(* decreaseStableBalance, the amounts it sends, from the selectors it    *)
(* read (staged msats, locked cents): withdraw from staged seeks first,   *)
(* sweeping a sub-1000-msat remainder; otherwise unlock all staged msats  *)
(* and take the rest as basis points of the locked cents.  finite is      *)
(* FALSE when that division is by zero (Infinity in JS).                  *)
WithdrawPlan(staged, lockedCents, amount) ==
    LET locked == lockedCents \div CC
    IN IF amount <= staged
       THEN [finite |-> TRUE, lockedBps |-> 0,
             unlockedAmount |-> IF staged - amount < 1000 THEN staged ELSE amount]
       ELSE LET remainingCents == MsatToCents(amount - staged) \div CC
            IN [finite |-> locked # 0,
                lockedBps |-> IF locked = 0 THEN 0
                              ELSE RoundDiv(remainingCents * 10000, locked),
                unlockedAmount |-> staged]

-----------------------------------------------------------------------------
(* Actions.                                                                *)

ActiveInfo == IF activeFed = NoFederation THEN Null ELSE wallet[activeFed].info

(* refreshActiveStabilityPool: throws without an active federation, else  *)
(* dispatches fetchStabilityPoolCycleStartPrice and                       *)
(* fetchStabilityPoolAccountInfo for it (fetchCurrencyPrices belongs to   *)
(* the currency slice).                                                    *)
RefreshActiveStabilityPool ==
    /\ activeFed # NoFederation
    /\ Len(reqs) + 2 <= MaxFetches
    /\ reqs' = reqs \o << [kind |-> "price", fed |-> activeFed,
                           status |-> "sent", value |-> Null],
                         [kind |-> "info", fed |-> activeFed,
                           status |-> "sent", value |-> Null] >>
    /\ UNCHANGED <<activeFed, wallet, clock>>

(* The bridge handles an RPC: it reads the account at its current time,   *)
(* or the price, or fails.                                                 *)
BridgeAnswer(r) ==
    /\ reqs[r].status = "sent"
    /\ \/ /\ reqs[r].kind = "info"
          /\ \E c \in Contents[reqs[r].fed] :
                reqs' = [reqs EXCEPT ![r].status = "answered",
                                     ![r].value = [c EXCEPT !.timestamp = clock]]
          /\ clock' = clock + 1
       \/ /\ reqs[r].kind = "price"
          /\ \E p \in PriceCents :
                reqs' = [reqs EXCEPT ![r].status = "answered", ![r].value = p]
          /\ UNCHANGED clock
       \/ /\ reqs' = [reqs EXCEPT ![r].status = "failed"]
          /\ UNCHANGED clock
    /\ UNCHANGED <<activeFed, wallet>>

(* Seeded fault: the answer written to the active federation's entry.   *)
FetchStabilityPoolAccountInfoActive(r) ==
    /\ reqs[r].status = "answered"
    /\ reqs[r].kind = "info"
    /\ activeFed # NoFederation
    /\ wallet' = [wallet EXCEPT ![activeFed] =
                    FulfilledAccountInfo(
                      SetStabilityPoolAccountInfo(@, reqs[r].value),
                      reqs[r].value)]
    /\ reqs' = [reqs EXCEPT ![r].status = "done"]
    /\ UNCHANGED <<activeFed, clock>>

(* fetchStabilityPoolAccountInfo resumes with the answer: it dispatches   *)
(* setStabilityPoolAccountInfo, then its fulfilled reducer runs; both     *)
(* write the entry of the federation the thunk was called with.           *)
FetchStabilityPoolAccountInfo(r) ==
    /\ reqs[r].status = "answered"
    /\ reqs[r].kind = "info"
    /\ LET f == reqs[r].fed
       IN wallet' = [wallet EXCEPT ![f] =
                       FulfilledAccountInfo(
                         SetStabilityPoolAccountInfo(@, reqs[r].value),
                         reqs[r].value)]
    /\ reqs' = [reqs EXCEPT ![r].status = "done"]
    /\ UNCHANGED <<activeFed, clock>>

(* fetchStabilityPoolCycleStartPrice resumes with the answer.             *)
FetchStabilityPoolCycleStartPrice(r) ==
    /\ reqs[r].status = "answered"
    /\ reqs[r].kind = "price"
    /\ wallet' = [wallet EXCEPT ![reqs[r].fed] =
                    FulfilledCycleStartPrice(@, reqs[r].value)]
    /\ reqs' = [reqs EXCEPT ![r].status = "done"]
    /\ UNCHANGED <<activeFed, clock>>

(* resetFederationWalletState and resetWalletState.                       *)
ResetFederationWalletState(f) ==
    /\ wallet' = [wallet EXCEPT ![f] = InitialFederationWalletState]
    /\ UNCHANGED <<activeFed, reqs, clock>>

ResetWalletState ==
    /\ wallet' = [f \in Federations |-> InitialFederationWalletState]
    /\ UNCHANGED <<activeFed, reqs, clock>>

(* setActiveFederationId from the SwitchingFederations screen.           *)
SwitchFederation(f) ==
    /\ activeFed # NoFederation
    /\ f # activeFed
    /\ activeFed' = f
    /\ UNCHANGED <<wallet, reqs, clock>>

Next ==
    \/ RefreshActiveStabilityPool
    \/ \E r \in DOMAIN reqs :
          \/ BridgeAnswer(r)
          \/ FetchStabilityPoolAccountInfo(r)
          \/ FetchStabilityPoolCycleStartPrice(r)
    \/ \E f \in Federations : ResetFederationWalletState(f)
    \/ ResetWalletState
    \/ \E f \in Federations : SwitchFederation(f)

Spec == Init /\ [][Next]_vars

-----------------------------------------------------------------------------
(* Properties.                                                             *)

(* The snapshots the bridge can report, and the prices.                   *)
Infos == {[c EXCEPT !.timestamp = t] : c \in UNION {Contents[f] : f \in Federations},
                                        t \in 0..MaxFetches}
Prices == {p \div 100 : p \in PriceCents}

TypeOK ==
    /\ activeFed \in Federations \cup {NoFederation}
    /\ \A f \in Federations :
          wallet[f] \in [info : Infos \cup {Null}, price : Prices \cup {Null},
                         spread : Infos \cup {Null}]
    /\ \A r \in DOMAIN reqs :
          /\ reqs[r].kind \in {"info", "price"}
          /\ reqs[r].fed \in Federations
          /\ reqs[r].status \in {"sent", "answered", "failed", "done"}
    /\ clock \in 0..MaxFetches

(* The amounts a user can ask decreaseStableBalance for: positive, up to  *)
(* selectWithdrawableStableBalanceMsats, in steps of 10 msats.            *)
WithdrawAmounts(info) ==
    {10 * k : k \in 1..(WithdrawableStableBalanceMsats(info) \div 10)}

(* What a withdrawal plan takes from the pool, in q: the unlocked msats   *)
(* plus lockedBps of the locked cents.                                     *)
PlanValue(plan, lockedCents) ==
    MsatToCents(plan.unlockedAmount) + (lockedCents \div CC) * plan.lockedBps

(* decreaseStableBalance sends a finite basis-point share in 0..10000 of  *)
(* the locked balance, and unlocks no more than is staged, for every      *)
(* amount up to the withdrawable balance of the snapshot it reads.        *)
WithdrawBpsInRange ==
    LET info == ActiveInfo
        staged == TotalStagedMsats(info)
        locked == TotalLockedCents(info)
    IN \A a \in WithdrawAmounts(info) :
          LET plan == WithdrawPlan(staged, locked, a)
          IN /\ plan.finite
             /\ plan.lockedBps \in 0..10000
             /\ plan.unlockedAmount <= staged

(* The withdrawal decreaseStableBalance asks for is the amount requested: *)
(* never short by more than the rounding of lockedBps to a whole basis    *)
(* point, and never over by 1000 msats or more (the dust sweep of staged  *)
(* seeks takes strictly less than one sat extra).                         *)
WithdrawCoversAmount ==
    LET info == ActiveInfo
        staged == TotalStagedMsats(info)
        locked == TotalLockedCents(info)
    IN \A a \in WithdrawAmounts(info) :
          LET taken == PlanValue(WithdrawPlan(staged, locked, a), locked)
              asked == MsatToCents(a)
          IN /\ 2 * (asked - taken) <= locked \div CC
             /\ taken - asked < MsatToCents(1000)

(* The withdrawable stable balance shown to the user is never negative    *)
(* for a well-formed snapshot: a staged cancellation only removes the     *)
(* fraction it cancels.                                                    *)
WithdrawableNonNegative ==
    WithdrawableStableBalanceCents(ActiveInfo) >= 0

(* Spec 4.1: minimumWithdrawAmountCents is zero whenever a cancellation   *)
(* is pending.                                                             *)
MinimumZeroWhileCancellationPending ==
    LET info == ActiveInfo
    IN (info # Null /\ HasCancellation(info))
         => MinimumWithdrawAmountCents(info, MinAllowedCancellationBps) = 0

(* Every snapshot stored for a federation was reported by the bridge for  *)
(* that federation, even when the user switched federation while the     *)
(* fetch was in flight.                                                    *)
FetchedInfoBelongsToFederation ==
    \A f \in Federations :
        wallet[f].info # Null =>
            [wallet[f].info EXCEPT !.timestamp = 0] \in Contents[f]

(* The stored account info of a federation never goes back in time: a     *)
(* fetch never replaces a snapshot with one the bridge took earlier.      *)
SnapshotNeverRegresses ==
    [][\A f \in Federations :
          (wallet[f].info # Null /\ wallet'[f].info # Null)
             => wallet'[f].info.timestamp >= wallet[f].info.timestamp]_wallet

=============================================================================
