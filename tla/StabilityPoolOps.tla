-------------------------- MODULE StabilityPoolOps --------------------------
(***************************************************************************)
(* The stability-pool action thunks of src/ui/common/redux/wallet.ts,      *)
(* increaseStableBalance and decreaseStableBalance, against the bridge.    *)
(*                                                                         *)
(* A call reads the active federation, runs its precondition checks, sends *)
(* the RPC, awaits the operation id, and only then adds a listener on the  *)
(* bridge's event stream that settles the call's promise on the first      *)
(* event of its (federation, operation id) whose state it treats as        *)
(* terminal.  The bridge is the environment: it answers each RPC with an   *)
(* operation id or an error and walks each operation through the states   *)
(* of types/bindings.ts, emitting one event per state.  Responses and      *)
(* events reach the JS side through one FIFO channel (the native bridge    *)
(* delivers both on the event loop); whether the bridge may emit an event  *)
(* of an operation before the RPC response carrying its id is the         *)
(* constant EventsBeforeResponse.                                          *)
(***************************************************************************)
EXTENDS Naturals, Sequences, FiniteSets, TLC

CONSTANTS
    Federations,          \* federation ids (model values)
    PoolFederations,      \* federations whose config has a stability pool
    NoFederation,         \* no active federation (model value)
    Calls,                \* thunk invocations (model values)
    MaxOps,               \* bound on operation ids the bridge hands out
    DepositNext,          \* bridge lifecycle: state -> possible next states
    WithdrawalNext,       \*   of a deposit / a withdrawal operation
    EventsBeforeResponse  \* may the bridge emit before it responds?

ASSUME PoolFederations \subseteq Federations
ASSUME NoFederation \notin Federations
ASSUME MaxOps \in Nat \ {0}
ASSUME EventsBeforeResponse \in BOOLEAN

VARIABLES
    activeFed,   \* state.federation.activeFederationId
    call,        \* call[c]: phase, kind, captured federation and op id
    listeners,   \* calls whose event listener is subscribed
    requests,    \* RPCs sent and not yet handled by the bridge
    ops,         \* bridge-side operations, indexed by operation id
    inbox        \* FIFO of responses and events from the bridge to JS

vars == <<activeFed, call, listeners, requests, ops, inbox>>

NoOp == 0
OpIds == 1..MaxOps
Kinds == {"deposit", "withdrawal"}
Phases == {"idle", "awaitRpc", "awaitEvent", "resolved", "rejected", "threw"}

(* StabilityPoolDepositState and StabilityPoolWithdrawalState; a state    *)
(* carrying a reason string ({ txRejected: string }) is its tag alone.    *)
DepositStates ==
    {"initiated", "txAccepted", "txRejected", "primaryOutputError", "success"}
WithdrawalStates ==
    {"invalidOperationType", "withdrawUnlockedInitiated", "txRejected",
     "withdrawUnlockedAccepted", "primaryOutputError", "success",
     "cancellationSubmissionFailure", "cancellationInitiated",
     "cancellationAccepted", "awaitCycleTurnoverError",
     "withdrawIdleSubmissionFailure", "withdrawIdleInitiated",
     "withdrawIdleAccepted"}
EventStates == DepositStates \cup WithdrawalStates

\* "created": the bridge has the operation but has emitted nothing yet.
Lifecycle == [deposit |-> DepositNext, withdrawal |-> WithdrawalNext]

(* The listener's classification of an event state: the states on which  *)
(* increaseStableBalance resolves / rejects, and those of                 *)
(* decreaseStableBalance.  Every other state leaves the promise pending.  *)
DepositListener ==
    [resolves |-> {"txAccepted"}, rejects |-> {"txRejected"}]
WithdrawalListener ==
    [resolves |-> {"success", "cancellationAccepted"},
     rejects |-> {"txRejected", "cancellationSubmissionFailure"}]
ResolvesOn(kind) ==
    IF kind = "deposit" THEN DepositListener.resolves
                        ELSE WithdrawalListener.resolves
RejectsOn(kind) ==
    IF kind = "deposit" THEN DepositListener.rejects
                        ELSE WithdrawalListener.rejects

(* Seeded faults in the listener's filter: the operation id not checked; *)
(* the federation compared with the one active now, not the captured one. *)
MatchesCallFederationOnly(e, c) == e.fed = call[c].fed

MatchesCallActiveFederation(e, c) ==
    /\ e.fed = activeFed
    /\ e.op = call[c].op

(* The listener's filter: the event is for the federation captured when  *)
(* the thunk started and for the operation id the RPC returned.           *)
MatchesCall(e, c) ==
    /\ e.fed = call[c].fed
    /\ e.op = call[c].op

Response(c, o) == [type |-> "response", call |-> c, op |-> o]
RpcError(c) == [type |-> "error", call |-> c]
Event(k, f, o, s) == [type |-> "event", stream |-> k, fed |-> f, op |-> o,
                      state |-> s]

Init ==
    /\ activeFed \in Federations \cup {NoFederation}
    /\ call = [c \in Calls |-> [phase |-> "idle", kind |-> "deposit",
                                fed |-> NoFederation, op |-> NoOp]]
    /\ listeners = {}
    /\ requests = {}
    /\ ops = <<>>
    /\ inbox = <<>>

-----------------------------------------------------------------------------
(* JS side.                                                                *)

(* A thunk reads the active federation, throws before any RPC when its   *)
(* precondition fails, and otherwise sends the RPC with the federation id *)
(* it read.  The amount (padding, basis points) is abstracted away.       *)
Send(c, kind) ==
    /\ call' = [call EXCEPT ![c] = [@ EXCEPT !.phase = "awaitRpc", !.kind = kind,
                                             !.fed = activeFed]]
    /\ requests' = requests \cup {c}

Throw(c, kind) ==
    /\ call' = [call EXCEPT ![c] = [@ EXCEPT !.phase = "threw", !.kind = kind]]
    /\ UNCHANGED requests

(* increaseStableBalance: no active federation, or no stability pool     *)
(* config for it, throws; else stabilityPoolDepositToSeek.                *)
StartDeposit(c) ==
    /\ call[c].phase = "idle"
    /\ IF activeFed = NoFederation \/ activeFed \notin PoolFederations
       THEN Throw(c, "deposit") ELSE Send(c, "deposit")
    /\ UNCHANGED <<activeFed, listeners, ops, inbox>>

(* decreaseStableBalance: no active federation throws; else              *)
(* stabilityPoolWithdraw (no stability pool config check).                *)
StartWithdraw(c) ==
    /\ call[c].phase = "idle"
    /\ IF activeFed = NoFederation
       THEN Throw(c, "withdrawal") ELSE Send(c, "withdrawal")
    /\ UNCHANGED <<activeFed, listeners, ops, inbox>>

(* Seeded fault: the response's call id bound as the operation id.      *)
ReceiveResponseCallAsOp ==
    /\ inbox # <<>>
    /\ Head(inbox).type \in {"response", "error"}
    /\ LET m == Head(inbox) IN
       IF m.type = "response"
       THEN /\ call' = [call EXCEPT ![m.call] = [@ EXCEPT !.phase = "awaitEvent",
                                                          !.op = m.call]]
            /\ listeners' = listeners \cup {m.call}
       ELSE /\ call' = [call EXCEPT ![m.call].phase = "threw"]
            /\ UNCHANGED listeners
    /\ inbox' = Tail(inbox)
    /\ UNCHANGED <<activeFed, requests, ops>>

(* The RPC's answer reaches the awaiting thunk.  The await continuation   *)
(* runs as one microtask: the operation id is bound and the listener is   *)
(* added before any other message is handled.  An RPC error rejects.      *)
ReceiveResponse ==
    /\ inbox # <<>>
    /\ Head(inbox).type \in {"response", "error"}
    /\ LET m == Head(inbox) IN
       IF m.type = "response"
       THEN /\ call' = [call EXCEPT ![m.call] = [@ EXCEPT !.phase = "awaitEvent",
                                                          !.op = m.op]]
            /\ listeners' = listeners \cup {m.call}
       ELSE /\ call' = [call EXCEPT ![m.call].phase = "threw"]
            /\ UNCHANGED listeners
    /\ inbox' = Tail(inbox)
    /\ UNCHANGED <<activeFed, requests, ops>>

(* The emitter calls every listener of the event's stream synchronously.  *)
(* A listener whose filter matches and whose classification is terminal  *)
(* unsubscribes and settles its promise; all others ignore the event.     *)
DispatchEvent ==
    /\ inbox # <<>>
    /\ Head(inbox).type = "event"
    /\ LET e == Head(inbox)
           hit == {c \in listeners : /\ call[c].kind = e.stream
                                     /\ MatchesCall(e, c)
                                     /\ e.state \in ResolvesOn(e.stream)
                                                   \cup RejectsOn(e.stream)}
       IN /\ call' = [c \in Calls |->
                        IF c \notin hit THEN call[c]
                        ELSE [call[c] EXCEPT !.phase =
                                IF e.state \in ResolvesOn(e.stream)
                                THEN "resolved" ELSE "rejected"]]
          /\ listeners' = listeners \ hit
    /\ inbox' = Tail(inbox)
    /\ UNCHANGED <<activeFed, requests, ops>>

(* The user switches federation: setActiveFederationId.                  *)
SwitchFederation(f) ==
    /\ activeFed # NoFederation
    /\ f # activeFed
    /\ activeFed' = f
    /\ UNCHANGED <<call, listeners, requests, ops, inbox>>

-----------------------------------------------------------------------------
(* Bridge side (environment).                                             *)

(* The bridge takes an RPC and creates an operation, or fails the RPC.    *)
BridgeAccept(c) ==
    /\ c \in requests
    /\ Len(ops) < MaxOps
    /\ ops' = Append(ops, [owner |-> c, kind |-> call[c].kind,
                           fed |-> call[c].fed, state |-> "created",
                           emitted |-> {}, responded |-> FALSE])
    /\ requests' = requests \ {c}
    /\ UNCHANGED <<activeFed, call, listeners, inbox>>

BridgeFail(c) ==
    /\ c \in requests
    /\ requests' = requests \ {c}
    /\ inbox' = Append(inbox, RpcError(c))
    /\ UNCHANGED <<activeFed, call, listeners, ops>>

(* The RPC response carrying the operation id is sent.                    *)
BridgeRespond(o) ==
    /\ o \in DOMAIN ops
    /\ ~ops[o].responded
    /\ ops' = [ops EXCEPT ![o].responded = TRUE]
    /\ inbox' = Append(inbox, Response(ops[o].owner, o))
    /\ UNCHANGED <<activeFed, call, listeners, requests>>

(* The operation moves to a next state and an event for it is emitted.    *)
BridgeStep(o) ==
    /\ o \in DOMAIN ops
    /\ ops[o].responded \/ EventsBeforeResponse
    /\ \E s \in Lifecycle[ops[o].kind][ops[o].state] :
          /\ ops' = [ops EXCEPT ![o].state = s, ![o].emitted = @ \cup {s}]
          /\ inbox' = Append(inbox, Event(ops[o].kind, ops[o].fed, o, s))
    /\ UNCHANGED <<activeFed, call, listeners, requests>>

-----------------------------------------------------------------------------

Next ==
    \/ \E c \in Calls : StartDeposit(c) \/ StartWithdraw(c)
    \/ ReceiveResponse
    \/ DispatchEvent
    \/ \E f \in Federations : SwitchFederation(f)
    \/ \E c \in Calls : BridgeAccept(c) \/ BridgeFail(c)
    \/ \E o \in OpIds : BridgeRespond(o) \/ BridgeStep(o)

(* The event loop drains the channel, and the bridge answers every RPC    *)
(* it took.  Neither the user nor the bridge's lifecycle is assumed to    *)
(* progress: properties about settling are conditioned on the events the *)
(* bridge did emit.                                                        *)
Fairness ==
    /\ WF_vars(ReceiveResponse)
    /\ WF_vars(DispatchEvent)
    /\ \A c \in Calls : WF_vars(BridgeAccept(c) \/ BridgeFail(c))
    /\ \A o \in OpIds : WF_vars(BridgeRespond(o))

Spec == Init /\ [][Next]_vars /\ Fairness

-----------------------------------------------------------------------------
(* Properties.                                                             *)

TypeOK ==
    /\ activeFed \in Federations \cup {NoFederation}
    /\ call \in [Calls -> [phase : Phases, kind : Kinds,
                           fed : Federations \cup {NoFederation},
                           op : OpIds \cup {NoOp}]]
    /\ listeners \subseteq Calls
    /\ requests \subseteq Calls
    /\ Len(ops) <= MaxOps
    /\ \A o \in DOMAIN ops : ops[o].emitted \subseteq EventStates

Settled(c) == call[c].phase \in {"resolved", "rejected"}

(* States after which the thunk's listener, as the spec describes it in   *)
(* sections 4.2 and 7, has something to settle on.                        *)
SpecResolves == [deposit |-> {"txAccepted"},
                 withdrawal |-> {"success", "cancellationAccepted"}]
SpecFailures == [deposit |-> {"txRejected", "primaryOutputError"},
                 withdrawal |-> {"txRejected", "cancellationSubmissionFailure",
                                 "primaryOutputError"}]
SpecRejectsHandled == [deposit |-> {"txRejected"},
                       withdrawal |-> {"txRejected",
                                       "cancellationSubmissionFailure"}]

(* Promise settlement is correlated by operation id (spec 8.8): a call is *)
(* resolved only if its own operation emitted a success state, and        *)
(* rejected only if its own operation emitted a rejection state; events   *)
(* of other operations, even of the same federation and kind, never      *)
(* settle it.                                                              *)
SettledByOwnOperation ==
    \A c \in Calls :
        /\ call[c].phase = "resolved" =>
              /\ call[c].op \in DOMAIN ops
              /\ ops[call[c].op].emitted \cap SpecResolves[call[c].kind] # {}
        /\ call[c].phase = "rejected" =>
              /\ call[c].op \in DOMAIN ops
              /\ ops[call[c].op].emitted
                    \cap SpecRejectsHandled[call[c].kind] # {}

(* Once the bridge has emitted, for a call's operation, a state the thunk *)
(* settles on, the call eventually settles and its listener is removed,   *)
(* even if the user switches federation meanwhile (the thunk compares     *)
(* with the federation it captured at start).                             *)
HandledEventSettles ==
    \A o \in OpIds :
        (/\ o \in DOMAIN ops
         /\ ops[o].emitted \cap (SpecResolves[ops[o].kind]
                                 \cup SpecRejectsHandled[ops[o].kind]) # {})
        ~> (/\ o \in DOMAIN ops
            /\ Settled(ops[o].owner)
            /\ ops[o].owner \notin listeners)

(* Spec 7(b): a terminal-failure event state (txRejected,                 *)
(* cancellationSubmissionFailure, primaryOutputError) settles the call;   *)
(* no failed operation leaves its caller waiting with a live listener.    *)
FailureEventSettles ==
    \A o \in OpIds :
        (/\ o \in DOMAIN ops
         /\ ops[o].emitted \cap SpecFailures[ops[o].kind] # {})
        ~> (/\ o \in DOMAIN ops
            /\ Settled(ops[o].owner)
            /\ ops[o].owner \notin listeners)


-----------------------------------------------------------------------------
(* Refinement: the thunks implement StabilityPoolCall.  A call awaiting   *)
(* its RPC or its event is pending; its verdict is what its own operation *)
(* (the one the bridge created for it) has emitted, as the listener       *)
(* classifies it.                                                          *)

AbsPhase(c) ==
    IF call[c].phase \in {"awaitRpc", "awaitEvent"} THEN "pending"
    ELSE call[c].phase

Verdict(c) ==
    LET emitted == UNION {ops[o].emitted : o \in {o \in DOMAIN ops : ops[o].owner = c}}
    IN  IF emitted \cap ResolvesOn(call[c].kind) # {} THEN "ok"
        ELSE IF emitted \cap RejectsOn(call[c].kind) # {} THEN "fail"
        ELSE "none"

Abstract == INSTANCE StabilityPoolCall
                WITH phase <- [c \in Calls |-> AbsPhase(c)],
                     kind <- [c \in Calls |-> call[c].kind],
                     fed <- [c \in Calls |-> call[c].fed],
                     verdict <- [c \in Calls |-> Verdict(c)]

(* Every behaviour of the thunks against the bridge is one the contract   *)
(* allows: a call settles only once its own operation (same federation    *)
(* as captured, same operation id) reached a state the listener handles, *)
(* settles as that state says, and, so decided, does not stay pending.   *)
ImplementsStabilityPoolCall == Abstract!Spec

=============================================================================
