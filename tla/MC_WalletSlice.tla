-------------------------- MODULE MC_WalletSlice --------------------------
(***************************************************************************)
(* Instantiates WalletSlice for TLC: small, well-formed account-info       *)
(* snapshots (withdrawn <= initial, fees below the remainder) at a rate of *)
(* 1000 msats per cent, so that the sums and basis-point products stay     *)
(* well inside TLC's integers.                                             *)
(***************************************************************************)
EXTENDS WalletSlice

CONSTANTS f1, f2

Seek(ia, iac, wa, wac, fees) ==
    [initialAmount |-> ia, initialAmountCents |-> iac,
     withdrawnAmount |-> wa, withdrawnAmountCents |-> wac,
     feesPaidSoFar |-> fees]

SeekA == Seek(5000, 5, 0, 0, 100)
SeekB == Seek(10000, 10, 4000, 4, 50)

Content(staged, cancel, locked) ==
    [stagedSeeks |-> staged, stagedCancellation |-> cancel,
     lockedSeeks |-> locked, timestamp |-> 0]

(* Selector run: every combination of staged seeks, staged cancellation   *)
(* (null, the falsy 0, a quarter, all) and locked seeks.                   *)
StagedChoices == {<<>>, <<300>>, <<1500, 700>>, <<2500>>}
CancelChoices == {Null, 0, 2500, 10000}
LockedChoices == {<<>>, <<SeekA>>, <<SeekB>>, <<SeekA, SeekB>>}

SelectorFederations == {f1}
SelectorContents ==
    [f \in {f1} |-> {Content(s, c, l) : s \in StagedChoices,
                                         c \in CancelChoices,
                                         l \in LockedChoices}]

(* Concurrency run: two federations, two snapshots each, distinct.        *)
SliceFederations == {f1, f2}
SliceContents ==
    [f \in {f1, f2} |->
        IF f = f1 THEN {Content(<<300>>, Null, <<SeekA>>),
                        Content(<<>>, 2500, <<SeekA>>)}
                  ELSE {Content(<<2500>>, Null, <<SeekB>>),
                        Content(<<>>, Null, <<SeekB>>)}]

(* Combined run: every selector snapshot for f1, one snapshot for f2, so  *)
(* that a fetch for the federation left behind can land on the other.     *)
CombinedFederations == {f1, f2}
CombinedContents ==
    [f \in {f1, f2} |->
        IF f = f1 THEN SelectorContents[f1]
                  ELSE {Content(<<2500>>, Null, <<SeekB>>)}]

=============================================================================
