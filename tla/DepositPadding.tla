--------------------------- MODULE DepositPadding ---------------------------
(***************************************************************************)
(* The amount increaseStableBalance (src/ui/common/redux/wallet.ts)       *)
(* hands the bridge: the amount asked plus a leakage padding of ten first- *)
(* cycle fees, at least 1000 msats, capped at the ecash balance.  Its      *)
(* inputs are the state: the amount, the federation's maximum provide fee  *)
(* rate and the balance, each replaced by another value between calls.    *)
(*                                                                         *)
(* The rate is counted in units of 10^6 ppb (thousandths), so that every  *)
(* product stays inside TLC's integers; every rate of the model is exact  *)
(* in ppb.  Number(x.toFixed(0)) rounds to the nearest integer; at an     *)
(* exact half the double product amount * fraction may lie on either side *)
(* of the tie, so both outcomes are possible.                              *)
(***************************************************************************)
EXTENDS Integers

CONSTANTS
    Amounts,    \* amounts asked, in msats
    Rates,      \* max_allowed_provide_fee_rate_ppb / 10^6
    Balances,   \* selectFederationBalance, in msats
    None        \* no deposit computed yet

VARIABLES
    amount, feeRate, balance,
    deposit     \* amountToDeposit of the last call, or None

vars == <<amount, feeRate, balance, deposit>>

(* One rate unit is 10^6 ppb: the fraction is unit / 1000.                *)
UnitsPerWhole == 1000

MaxOf(a, b) == IF a >= b THEN a ELSE b
MinOf(a, b) == IF a <= b THEN a ELSE b

(* Number((n / d).toFixed(0)) for n >= 0: the nearest integer, and at an *)
(* exact half either neighbour.                                            *)
Roundings(n, d) ==
    IF 2 * (n % d) = d THEN {n \div d, n \div d + 1}
    ELSE {(2 * n + d) \div (2 * d)}

(* Seeded fault: the fee truncated instead of rounded.                    *)
FirstCycleFeesTruncated(a, r) == {(a * r) \div UnitsPerWhole}

(* maxFirstCycleFee: the amount times the rate fraction, rounded.         *)
FirstCycleFees(a, r) == Roundings(a * r, UnitsPerWhole)

(* leakagePadding and amountToDeposit from a rounded first-cycle fee.     *)
AmountToDeposit(a, b, fee) == MinOf(b, a + MaxOf(1000, 10 * fee))

Init ==
    /\ amount \in Amounts /\ feeRate \in Rates /\ balance \in Balances
    /\ deposit = None

(* increaseStableBalance up to its RPC: the padded amount it submits.     *)
IncreaseStableBalance ==
    \E fee \in FirstCycleFees(amount, feeRate) :
        /\ deposit' = AmountToDeposit(amount, balance, fee)
        /\ UNCHANGED <<amount, feeRate, balance>>

(* The user types another amount, the config or the balance changes.     *)
InputsChange(a, r, b) ==
    /\ <<a, r, b>> # <<amount, feeRate, balance>>
    /\ amount' = a /\ feeRate' = r /\ balance' = b
    /\ deposit' = None

Next ==
    \/ IncreaseStableBalance
    \/ \E a \in Amounts, r \in Rates, b \in Balances : InputsChange(a, r, b)

Spec == Init /\ [][Next]_vars

-----------------------------------------------------------------------------
(* Properties.                                                             *)

(* Spec 4.2, scaled by UnitsPerWhole: min(balance, amount + padding) with *)
(* padding = max(1000, 10 * amount * rate) computed exactly.               *)
ScaledSpecDeposit ==
    MinOf(balance * UnitsPerWhole,
          amount * UnitsPerWhole + MaxOf(1000 * UnitsPerWhole, 10 * amount * feeRate))

(* increaseStableBalance never submits more than the ecash balance, and   *)
(* rounding the first-cycle fee before multiplying it by ten keeps the    *)
(* submitted amount within 5 msats of the spec's exact padded amount.      *)
DepositWithinSpec ==
    deposit # None =>
        /\ deposit <= balance
        /\ deposit * UnitsPerWhole - ScaledSpecDeposit <= 5 * UnitsPerWhole
        /\ ScaledSpecDeposit - deposit * UnitsPerWhole <= 5 * UnitsPerWhole

=============================================================================
