------------------------- MODULE StabilityPoolCall -------------------------
(***************************************************************************)
(* What increaseStableBalance and decreaseStableBalance of                 *)
(* src/ui/common/redux/wallet.ts promise their caller, without the bridge *)
(* channel, the operation ids or the listeners.  A call starts from the    *)
(* active federation or throws on its precondition; once started it is     *)
(* pending until the bridge gives its operation a verdict (a state the     *)
(* thunk's listener settles on) or fails the RPC.  A pending call with a   *)
(* verdict settles exactly as the verdict says, and settles once.          *)
(***************************************************************************)
CONSTANTS
    Federations,      \* federation ids
    PoolFederations,  \* federations with a stability pool config
    NoFederation,
    Calls             \* thunk invocations

VARIABLES
    activeFed,  \* the active federation id
    phase,      \* phase[c]: idle, pending, resolved, rejected or threw
    kind,       \* kind[c]: deposit or withdrawal
    fed,        \* fed[c]: the federation the call was started on
    verdict     \* verdict[c]: none, or ok / fail once its operation decided

vars == <<activeFed, phase, kind, fed, verdict>>

Kinds == {"deposit", "withdrawal"}

Init ==
    /\ activeFed \in Federations \cup {NoFederation}
    /\ phase = [c \in Calls |-> "idle"]
    /\ kind = [c \in Calls |-> "deposit"]
    /\ fed = [c \in Calls |-> NoFederation]
    /\ verdict = [c \in Calls |-> "none"]

(* The precondition a thunk checks before its RPC: an active federation, *)
(* and for a deposit a stability pool config for it.                      *)
CanStart(k) ==
    /\ activeFed # NoFederation
    /\ k = "deposit" => activeFed \in PoolFederations

Start(c, k) ==
    /\ phase[c] = "idle"
    /\ CanStart(k)
    /\ phase' = [phase EXCEPT ![c] = "pending"]
    /\ kind' = [kind EXCEPT ![c] = k]
    /\ fed' = [fed EXCEPT ![c] = activeFed]
    /\ UNCHANGED <<activeFed, verdict>>

Throw(c, k) ==
    /\ phase[c] = "idle"
    /\ ~CanStart(k)
    /\ phase' = [phase EXCEPT ![c] = "threw"]
    /\ kind' = [kind EXCEPT ![c] = k]
    /\ UNCHANGED <<activeFed, fed, verdict>>

(* The RPC fails: the awaited call throws.                                *)
RpcFails(c) ==
    /\ phase[c] = "pending" /\ verdict[c] = "none"
    /\ phase' = [phase EXCEPT ![c] = "threw"]
    /\ UNCHANGED <<activeFed, kind, fed, verdict>>

(* The bridge decides the call's own operation.                           *)
Decide(c, v) ==
    /\ phase[c] = "pending" /\ verdict[c] = "none"
    /\ verdict' = [verdict EXCEPT ![c] = v]
    /\ UNCHANGED <<activeFed, phase, kind, fed>>

(* The promise settles as its operation's verdict says.                   *)
Settle(c) ==
    /\ phase[c] = "pending" /\ verdict[c] # "none"
    /\ phase' = [phase EXCEPT ![c] = IF verdict[c] = "ok" THEN "resolved"
                                                           ELSE "rejected"]
    /\ UNCHANGED <<activeFed, kind, fed, verdict>>

SwitchFederation(f) ==
    /\ activeFed # NoFederation /\ f # activeFed
    /\ activeFed' = f
    /\ UNCHANGED <<phase, kind, fed, verdict>>

Next ==
    \/ \E c \in Calls, k \in Kinds : Start(c, k) \/ Throw(c, k)
    \/ \E c \in Calls : RpcFails(c) \/ Settle(c)
    \/ \E c \in Calls, v \in {"ok", "fail"} : Decide(c, v)
    \/ \E f \in Federations : SwitchFederation(f)

(* A decided call does not stay pending.                                  *)
Spec == Init /\ [][Next]_vars /\ \A c \in Calls : WF_vars(Settle(c))

=============================================================================
