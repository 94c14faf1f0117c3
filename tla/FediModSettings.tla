-------------------------- MODULE FediModSettings --------------------------
(***************************************************************************)
(* The FediModSettings screen of src/ui/native/screens: one row per       *)
(* suggested and per custom global mod, each with an eye that flips the    *)
(* mod's isHidden in the store, and for custom mods a delete button that  *)
(* opens a confirmation overlay.  The handlers are synchronous dispatches; *)
(* a render follows every press before the next one, so each action is a *)
(* handler together with the render it causes.  The overlay's loading     *)
(* flag isDeleting is raised and lowered within one handler.  Mods are    *)
(* model values; a custom mod may be added from the AddFediMod screen.   *)
(***************************************************************************)
EXTENDS Naturals

CONSTANTS
    CustomMods,     \* ids a custom mod may have
    SuggestedMods,  \* the suggested global mods
    NoMod,          \* deletingMod undefined
    MaxToggles      \* bound on eye presses per mod

VARIABLES
    customMods,           \* selectGlobalCustomMods
    customVisibility,     \* s.mod.customGlobalModVisibility: mod -> isHidden
    suggestedVisibility,  \* s.mod.suggestedGlobalModVisibility
    deletingMod,
    isDeleting,
    toggles               \* eye presses per mod (history)

vars == <<customMods, customVisibility, suggestedVisibility, deletingMod,
          isDeleting, toggles>>

AllMods == CustomMods \cup SuggestedMods

Init ==
    /\ customMods \in SUBSET CustomMods
    /\ customVisibility = [m \in CustomMods |-> FALSE]
    /\ suggestedVisibility = [m \in SuggestedMods |-> FALSE]
    /\ deletingMod = NoMod
    /\ isDeleting = FALSE
    /\ toggles = [m \in AllMods |-> 0]

Counted(m) ==
    /\ toggles[m] < MaxToggles
    /\ toggles' = [toggles EXCEPT ![m] = @ + 1]

(* The eye of a custom mod's row: setCustomGlobalModVisibility with the    *)
(* negation of the isHidden this render shows.                            *)
HandleToggleCustomVisibility(m) ==
    /\ m \in customMods
    /\ Counted(m)
    /\ customVisibility' = [customVisibility EXCEPT ![m] = ~@]
    /\ UNCHANGED <<customMods, suggestedVisibility, deletingMod, isDeleting>>

HandleToggleSuggestedVisibility(m) ==
    /\ Counted(m)
    /\ suggestedVisibility' = [suggestedVisibility EXCEPT ![m] = ~@]
    /\ UNCHANGED <<customMods, customVisibility, deletingMod, isDeleting>>

(* The delete button of a custom mod's row opens the overlay.            *)
HandleDeletePress(m) ==
    /\ m \in customMods
    /\ deletingMod' = m
    /\ UNCHANGED <<customMods, customVisibility, suggestedVisibility,
                   isDeleting, toggles>>

(* The overlay's cancel button or its backdrop: setDeletingMod(undefined), *)
(* and the effect on deletingMod lowers isDeleting.                       *)
CancelDeletion ==
    /\ deletingMod # NoMod
    /\ deletingMod' = NoMod
    /\ isDeleting' = FALSE
    /\ UNCHANGED <<customMods, customVisibility, suggestedVisibility, toggles>>

(* confirmModDeletion: nothing without a mod; else removeCustomGlobalMod, *)
(* the overlay closed and isDeleting back to false in the same handler.   *)
ConfirmModDeletion ==
    /\ deletingMod # NoMod
    /\ customMods' = customMods \ {deletingMod}
    /\ deletingMod' = NoMod
    /\ isDeleting' = FALSE
    /\ UNCHANGED <<customVisibility, suggestedVisibility, toggles>>

(* A custom mod is added on the AddFediMod screen.                       *)
AddCustomMod(m) ==
    /\ m \notin customMods
    /\ customMods' = customMods \cup {m}
    /\ UNCHANGED <<customVisibility, suggestedVisibility, deletingMod,
                   isDeleting, toggles>>

Next ==
    \/ \E m \in CustomMods :
          \/ HandleToggleCustomVisibility(m) \/ HandleDeletePress(m)
          \/ AddCustomMod(m)
    \/ \E m \in SuggestedMods : HandleToggleSuggestedVisibility(m)
    \/ CancelDeletion
    \/ ConfirmModDeletion

Spec == Init /\ [][Next]_vars

-----------------------------------------------------------------------------
(* Properties.                                                             *)

=============================================================================
