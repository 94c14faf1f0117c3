----------------------------- MODULE ChatWallet -----------------------------
(***************************************************************************)
(* The ChatWallet screen (src/ui/native/screens/ChatWallet.tsx) on the    *)
(* navigation stack, and the default handlers of the Header back and      *)
(* close buttons (src/ui/native/components/ui/Header.tsx).                *)
(*                                                                         *)
(* The screen asks useChatPaymentUtils for the amount state and for       *)
(* handleRequestPayment; neither that hook nor the navigation helpers are *)
(* part of the repository, so their outputs are the environment: whether  *)
(* the amount can be sent and the hook's submitAction change at any time, *)
(* and a request the hook was handed settles later, calling back the      *)
(* onSuccess closure it was given or not.  The recipient's direct-message *)
(* room (selectMatrixDirectMessageRoom) may appear, change or go away.   *)
(*                                                                         *)
(* A route is a record: the screen and, for the chat screens, the room.   *)
(***************************************************************************)
EXTENDS Naturals, Sequences

CONSTANTS
    Rooms,          \* direct-message room ids with the recipient
    None,           \* undefined / null
    MaxPresses      \* bound on presses of Send and Request

VARIABLES
    stack,          \* the root stack navigator's routes, bottom first
    existingRoom,   \* selectMatrixDirectMessageRoom(s, recipientId)?.id
    canSendAmount,  \* useChatPaymentUtils: the amount is within min/max
    submitAction,   \* useChatPaymentUtils: None, "send" or "request"
    submitType,     \* useChatPaymentUtils: "send" or "request"
    submitAttempts,
    requests,       \* requests[r]: handleRequestPayment calls pending whose
                    \* onSuccess closure was made while the room was r
    presses

vars == <<stack, existingRoom, canSendAmount, submitAction, submitType,
          submitAttempts, requests, presses>>

Route(screen, room) == [screen |-> screen, room |-> room]
Tabs == Route("TabsNavigator", None)
Wallet == Route("ChatWallet", None)

Top == stack[Len(stack)]

(* resetToDirectChat(roomId): the stack reset to the tabs with the chat   *)
(* of that room on top.                                                   *)
ResetToDirectChat(r) == <<Tabs, Route("DirectChat", r)>>

Init ==
    /\ existingRoom \in Rooms \cup {None}
    /\ stack \in {<<Tabs, Wallet>>} \cup
                 {<<Tabs, Route("DirectChat", r), Wallet>> : r \in Rooms}
    /\ canSendAmount \in BOOLEAN
    /\ submitAction = None
    /\ submitType \in {"send", "request"}
    /\ submitAttempts = 0
    /\ requests = [r \in Rooms |-> 0]
    /\ presses = 0

(* The screen renders its buttons only while the room exists; otherwise   *)
(* it shows the member-not-found text.                                    *)
ButtonsShown == Top = Wallet /\ existingRoom # None

(* backToChat, as the closure made at a render where the room was r.     *)
BackToChat(r) ==
    IF r = None THEN stack ELSE ResetToDirectChat(r)

(* Request: handleRequest hands handleRequestPayment an onSuccess that   *)
(* calls the backToChat of this render.  The button is disabled while    *)
(* the hook sends.                                                        *)
HandleRequest ==
    /\ ButtonsShown
    /\ submitAction # "send"
    /\ presses < MaxPresses
    /\ presses' = presses + 1
    /\ requests' = [requests EXCEPT ![existingRoom] = @ + 1]
    /\ UNCHANGED <<stack, existingRoom, canSendAmount, submitAction,
                   submitType, submitAttempts>>

(* Send: set the submit type, count the attempt, then navigate to the    *)
(* confirmation only with a sendable amount and a room.  The button is   *)
(* disabled while the hook requests.                                      *)
HandleSend ==
    /\ ButtonsShown
    /\ submitAction # "request"
    /\ presses < MaxPresses
    /\ presses' = presses + 1
    /\ submitType' = "send"
    /\ submitAttempts' = submitAttempts + 1
    /\ stack' = IF canSendAmount /\ existingRoom # None
                THEN Append(stack, Route("ConfirmSendChatPayment", existingRoom))
                ELSE stack
    /\ UNCHANGED <<existingRoom, canSendAmount, submitAction, requests>>

(* handleRequestPayment settles a request: on success it runs the        *)
(* closure it was handed, on failure it does not.                         *)
RequestSettles(r) ==
    /\ requests[r] > 0
    /\ requests' = [requests EXCEPT ![r] = @ - 1]
    /\ \/ stack' = BackToChat(r)
       \/ UNCHANGED stack
    /\ UNCHANGED <<existingRoom, canSendAmount, submitAction, submitType,
                   submitAttempts, presses>>

(* The Header back button without onBackButtonPress: go back when the    *)
(* stack can, else navigate to the tabs.                                   *)
HeaderBack ==
    /\ Top # Tabs
    /\ stack' = IF Len(stack) > 1 THEN SubSeq(stack, 1, Len(stack) - 1)
                ELSE Append(stack, Tabs)
    /\ UNCHANGED <<existingRoom, canSendAmount, submitAction, submitType,
                   submitAttempts, requests, presses>>

(* The Header close button without onClose: reset to the tabs.           *)
HeaderClose ==
    /\ Top # Tabs
    /\ stack' = <<Tabs>>
    /\ UNCHANGED <<existingRoom, canSendAmount, submitAction, submitType,
                   submitAttempts, requests, presses>>

(* ChatWallet is opened again, from Omni on the tabs or from a chat; the  *)
(* new screen's hook starts with fresh submit state.                      *)
OpenChatWallet ==
    /\ Top.screen \in {"TabsNavigator", "DirectChat"}
    /\ stack' = Append(stack, Wallet)
    /\ submitAttempts' = 0
    /\ submitType' \in {"send", "request"}
    /\ UNCHANGED <<existingRoom, canSendAmount, submitAction, requests, presses>>

(* The store's direct-message room with the recipient changes.           *)
RoomChanges ==
    /\ existingRoom' \in (Rooms \cup {None}) \ {existingRoom}
    /\ UNCHANGED <<stack, canSendAmount, submitAction, submitType,
                   submitAttempts, requests, presses>>

(* The hook's outputs change: the amount typed, or its submit action.    *)
HookChanges ==
    /\ \/ canSendAmount' = ~canSendAmount /\ UNCHANGED submitAction
       \/ submitAction' \in {None, "send", "request"} \ {submitAction}
          /\ UNCHANGED canSendAmount
    /\ UNCHANGED <<stack, existingRoom, submitType, submitAttempts,
                   requests, presses>>

Next ==
    \/ HandleRequest
    \/ HandleSend
    \/ \E r \in Rooms : RequestSettles(r)
    \/ HeaderBack
    \/ HeaderClose
    \/ OpenChatWallet
    \/ RoomChanges
    \/ HookChanges

Spec == Init /\ [][Next]_vars

-----------------------------------------------------------------------------
(* Properties.                                                             *)

Routes == {Tabs, Wallet} \cup
          {Route(s, r) : s \in {"DirectChat", "ConfirmSendChatPayment"},
                         r \in Rooms}

TypeOK ==
    /\ stack \in Seq(Routes) /\ Len(stack) \in 1..4
    /\ existingRoom \in Rooms \cup {None}
    /\ canSendAmount \in BOOLEAN
    /\ submitAction \in {None, "send", "request"}
    /\ submitType \in {"send", "request"}
    /\ submitAttempts \in 0..MaxPresses
    /\ requests \in [Rooms -> 0..MaxPresses]
    /\ presses \in 0..MaxPresses

(* backToChat returns early when the recipient has no room: a request    *)
(* that succeeds never takes the user to the chat of a room that is not  *)
(* the recipient's direct-message room when it succeeds.                 *)
RequestReturnsToExistingRoom ==
    [][\A r \in Rooms :
          (requests'[r] < requests[r] /\ stack' # stack)
              => r = existingRoom]_vars

(* The comment on backToChat: a request returns to the chat from this    *)
(* screen.  A request that succeeds moves the user only while ChatWallet *)
(* is still the screen shown.                                             *)
RequestReturnsFromChatWallet ==
    [][\A r \in Rooms :
          (requests'[r] < requests[r] /\ stack' # stack)
              => Top = Wallet]_vars

=============================================================================
