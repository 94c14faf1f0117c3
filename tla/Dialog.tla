------------------------------- MODULE Dialog -------------------------------
(***************************************************************************)
(* The web Dialog of src/ui/web/src/components/Dialog.tsx: a controlled    *)
(* Radix dialog.  The parent owns open and the props; the user dismisses   *)
(* it with Escape, a pointer or focus outside the content, the Close       *)
(* button or the Back button, each of which reaches onOpenChange(false)    *)
(* unless handleCloseTrigger prevents it; the parent is taken to follow    *)
(* onOpenChange.  On the sm breakpoint the content fills the viewport, so  *)
(* there is no outside to press.  Title, description and children are     *)
(* reduced to whether a title is given.                                   *)
(***************************************************************************)
EXTENDS FiniteSets

Triggers == {"escape", "pointerOutside", "interactOutside", "closeButton", "backButton"}
Modes == {"back", "close"}

VARIABLES
    open,          \* the open prop
    title,         \* a title is given
    disableClose,
    mobileDismiss, \* "back" or "close" (the default)
    isSm,          \* useMediaQuery(config.media.sm)
    closedBy       \* what last closed the dialog: a trigger, "parent" or "none"

vars == <<open, title, disableClose, mobileDismiss, isSm, closedBy>>

Init ==
    /\ open \in BOOLEAN
    /\ title \in BOOLEAN
    /\ disableClose \in BOOLEAN
    /\ mobileDismiss \in Modes
    /\ isSm \in BOOLEAN
    /\ closedBy = "none"

MobileDismissBack == mobileDismiss = "back" /\ isSm

(* The dismiss buttons rendered: Back inside the title, Close otherwise.  *)
ShownButtons ==
    (IF title /\ ~disableClose /\ MobileDismissBack THEN {"backButton"} ELSE {})
    \cup (IF ~disableClose /\ ~MobileDismissBack THEN {"closeButton"} ELSE {})

(* Seeded fault: only onEscapeKeyDown given handleCloseTrigger.          *)
PreventedEscapeOnly(trigger) == disableClose /\ trigger = "escape"

(* handleCloseTrigger, wired to Escape and to presses and focus outside. *)
Prevented(trigger) ==
    disableClose /\ trigger \in {"escape", "pointerOutside", "interactOutside"}

(* A trigger the user can reach now.                                     *)
Reachable(trigger) ==
    CASE trigger = "escape"                              -> TRUE
      [] trigger \in {"pointerOutside", "interactOutside"} -> ~isSm
      [] OTHER                                           -> trigger \in ShownButtons

(* The user dismisses the open dialog: onOpenChange(false) unless the     *)
(* event's default was prevented.                                         *)
Dismiss(trigger) ==
    /\ open
    /\ Reachable(trigger)
    /\ ~Prevented(trigger)
    /\ open' = FALSE
    /\ closedBy' = trigger
    /\ UNCHANGED <<title, disableClose, mobileDismiss, isSm>>

(* The parent opens or closes the dialog, or renders it with other props. *)
ParentSetsOpen(o) ==
    /\ o # open
    /\ open' = o
    /\ closedBy' = IF o THEN closedBy ELSE "parent"
    /\ UNCHANGED <<title, disableClose, mobileDismiss, isSm>>

ParentSetsProps(t, d, m) ==
    /\ << t, d, m >> # << title, disableClose, mobileDismiss >>
    /\ title' = t /\ disableClose' = d /\ mobileDismiss' = m
    /\ UNCHANGED <<open, isSm, closedBy>>

(* The viewport crosses the sm breakpoint.                               *)
Resize ==
    /\ isSm' = ~isSm
    /\ UNCHANGED <<open, title, disableClose, mobileDismiss, closedBy>>

Next ==
    \/ \E t \in Triggers : Dismiss(t)
    \/ \E o \in BOOLEAN : ParentSetsOpen(o)
    \/ \E t, d \in BOOLEAN, m \in Modes : ParentSetsProps(t, d, m)
    \/ Resize

Spec == Init /\ [][Next]_vars

-----------------------------------------------------------------------------
(* Properties.                                                             *)

(* With disableClose the user cannot close the dialog by any means: only  *)
(* the parent closes it.                                                  *)
DisableCloseKeepsOpen ==
    [][open /\ disableClose /\ ~open' => closedBy' = "parent"]_vars

(* A dialog the user may close always shows a Close or a Back button.    *)
ClosableShowsDismissButton ==
    open /\ ~disableClose => ShownButtons # {}

=============================================================================
