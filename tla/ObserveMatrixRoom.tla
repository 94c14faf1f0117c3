------------------------- MODULE ObserveMatrixRoom -------------------------
(***************************************************************************)
(* useObserveMatrixRoom of src/ui/common/hooks/matrix.ts.  Its first      *)
(* effect observes the room while the matrix client is ready, a room is   *)
(* given and the hook is not paused; its cleanup unobserves the room,     *)
(* except a DM, which stays observed so ecash is claimed in the           *)
(* background.  The cleanup reads room?.directUserId from the render that *)
(* ran the effect.  Its second effect sends a read receipt for the        *)
(* room's latest event.  Every step is a render: one input changes, then  *)
(* React runs the cleanup of each effect whose dependencies changed,      *)
(* then the effect.  observeMatrixRoom and unobserveMatrixRoom are        *)
(* counted per room; what the thunks do is outside this code.             *)
(***************************************************************************)
EXTENDS Integers

CONSTANTS
    Rooms,        \* room ids (model values)
    DMs,          \* the rooms that are direct chats (have a directUserId)
    NoRoom,       \* roomId null or undefined
    MaxRenders,   \* bound on input changes
    MaxEvents     \* bound on new events per room

ASSUME DMs \subseteq Rooms /\ NoRoom \notin Rooms

VARIABLES
    mounted,      \* the component using the hook is mounted
    isReady,      \* selectIsMatrixReady
    roomId,       \* the roomId argument
    paused,       \* the paused argument
    loaded,       \* loaded[r]: selectMatrixRoom(r) is defined
    latest,       \* latest[r]: selectLatestMatrixRoomEventId, 0 = none
    observer,     \* the first effect's registration: its roomId and
                  \* room?.directUserId, or NoRoom when it returned early
    observing,    \* observing[r]: observe dispatches minus unobserve dispatches
    receipt,      \* receipt[r]: latest event id a read receipt was sent for
    renders

vars == <<mounted, isReady, roomId, paused, loaded, latest, observer,
          observing, receipt, renders>>

IsDirect(r) == r \in DMs /\ loaded[r]

Init ==
    /\ mounted = FALSE
    /\ isReady \in BOOLEAN
    /\ roomId \in Rooms \cup {NoRoom}
    /\ paused \in BOOLEAN
    /\ loaded \in [Rooms -> BOOLEAN]
    /\ latest = [r \in Rooms |-> 0]
    /\ observer = NoRoom
    /\ observing = [r \in Rooms |-> 0]
    /\ receipt = [r \in Rooms |-> 0]
    /\ renders = 0

(* The first effect's guard: if (!isReady || !roomId || paused) return.  *)
Wants(ready, r, p) == ready /\ r # NoRoom /\ ~p

(* Seeded faults in the cleanup: every loaded room skipped, not only    *)
(* DMs; the DM early return dropped; the room read from the new props    *)
(* rather than the render that ran the effect.                           *)
CleanupLoadedRooms(obs, ld) ==
    IF obs = NoRoom \/ ld[obs.room] THEN [r \in Rooms |-> 0]
    ELSE [r \in Rooms |-> IF r = obs.room THEN -1 ELSE 0]
CleanupEvenDirect(obs, ld) ==
    IF obs = NoRoom THEN [r \in Rooms |-> 0]
    ELSE [r \in Rooms |-> IF r = obs.room THEN -1 ELSE 0]
CleanupNewRoomId(obs, ld) ==
    IF obs = NoRoom \/ obs.direct THEN [r \in Rooms |-> 0]
    ELSE [r \in Rooms |-> IF r = roomId' THEN -1 ELSE 0]

(* The change the first effect's cleanup makes to observing: nothing if   *)
(* the effect returned early or the room it saw was a DM, else one        *)
(* unobserveMatrixRoom.                                                   *)
Cleanup(obs, ld) ==
    IF obs = NoRoom \/ obs.direct THEN [r \in Rooms |-> 0]
    ELSE [r \in Rooms |-> IF r = obs.room THEN -1 ELSE 0]

(* The second effect: sendMatrixReadReceipt for the latest event of the   *)
(* room, when the first effect's guard passes and there is one.  It runs  *)
(* whenever an input it reads changed; when none did it already sent      *)
(* this same receipt.                                                     *)
ReadReceipt(m, rd, r, p, lt) ==
    IF m /\ Wants(rd, r, p) /\ lt[r] # 0
    THEN [receipt EXCEPT ![r] = lt[r]]
    ELSE receipt

(* A render with the inputs m, rd, r, p, ld, lt.  The first effect re-    *)
(* runs when isReady, roomId, paused or room?.directUserId changed, and   *)
(* on mount and unmount: React first runs the old cleanup, then the      *)
(* effect, which records what its cleanup will see.                      *)
Render(m, rd, r, p, ld, lt) ==
    LET direct == r # NoRoom /\ r \in DMs /\ ld[r]
        rerun  == \/ m # mounted
                  \/ << rd, r, p >> # << isReady, roomId, paused >>
                  \/ direct # (roomId # NoRoom /\ IsDirect(roomId))
        undo   == IF rerun /\ mounted THEN Cleanup(observer, loaded)
                  ELSE [x \in Rooms |-> 0]
        run    == rerun /\ m /\ Wants(rd, r, p)
    IN
    /\ renders < MaxRenders
    /\ renders' = renders + 1
    /\ mounted' = m /\ isReady' = rd /\ roomId' = r /\ paused' = p
    /\ loaded' = ld /\ latest' = lt
    /\ observing' = [x \in Rooms |->
                       observing[x] + undo[x] + (IF run /\ x = r THEN 1 ELSE 0)]
    /\ observer' = IF run THEN [room |-> r, direct |-> direct]
                   ELSE IF rerun THEN NoRoom ELSE observer
    /\ receipt' = ReadReceipt(m, rd, r, p, lt)

Mount == ~mounted /\ Render(TRUE, isReady, roomId, paused, loaded, latest)
Unmount == mounted /\ Render(FALSE, isReady, roomId, paused, loaded, latest)

(* selectIsMatrixReady changes (the client starts or stops).             *)
SetReady(b) == b # isReady /\ Render(mounted, b, roomId, paused, loaded, latest)

(* The caller passes another roomId, or pauses or resumes the hook.      *)
SetRoomId(r) == r # roomId /\ Render(mounted, isReady, r, paused, loaded, latest)
SetPaused(b) == b # paused /\ Render(mounted, isReady, roomId, b, loaded, latest)

(* A room reaches the store (selectMatrixRoom now finds it).             *)
RoomLoads(r) ==
    /\ ~loaded[r]
    /\ Render(mounted, isReady, roomId, paused, [loaded EXCEPT ![r] = TRUE], latest)

(* A new event arrives in a room (selectLatestMatrixRoomEventId).        *)
NewEvent(r) ==
    /\ latest[r] < MaxEvents
    /\ Render(mounted, isReady, roomId, paused, loaded,
              [latest EXCEPT ![r] = @ + 1])

Next ==
    \/ Mount \/ Unmount
    \/ \E b \in BOOLEAN : SetReady(b) \/ SetPaused(b)
    \/ \E r \in Rooms \cup {NoRoom} : SetRoomId(r)
    \/ \E r \in Rooms : RoomLoads(r) \/ NewEvent(r)

Spec == Init /\ [][Next]_vars

-----------------------------------------------------------------------------
(* Properties.                                                             *)

TypeOK ==
    /\ mounted \in BOOLEAN /\ isReady \in BOOLEAN /\ paused \in BOOLEAN
    /\ roomId \in Rooms \cup {NoRoom}
    /\ loaded \in [Rooms -> BOOLEAN]
    /\ latest \in [Rooms -> 0..MaxEvents]
    /\ observer \in {NoRoom} \cup [room : Rooms, direct : BOOLEAN]
    /\ observing \in [Rooms -> 0..MaxRenders]
    /\ receipt \in [Rooms -> 0..MaxEvents]
    /\ renders \in 0..MaxRenders

(* The room the hook is given is observed, once, while the hook runs and  *)
(* its guard passes; a room that is not a DM is observed exactly then:   *)
(* never twice, and never after the hook unmounts, pauses, loses the      *)
(* client or moves to another room.                                       *)
ObservedExactlyWhileShown ==
    \A r \in Rooms :
        LET shown == mounted /\ Wants(isReady, roomId, paused) /\ roomId = r
        IN  /\ shown => observing[r] >= 1
            /\ r \notin DMs => observing[r] = IF shown THEN 1 ELSE 0

(* A DM observed after its room was loaded stays observed, whatever the   *)
(* hook does next (the background ecash claim relies on it).             *)
DirectChatStaysObserved ==
    \A r \in DMs : [](loaded[r] /\ observing[r] > 0 => [](observing[r] > 0))

=============================================================================
