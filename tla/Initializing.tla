--------------------------- MODULE Initializing ---------------------------
(***************************************************************************)
(* The Initializing screen of src/ui/native/screens: an effect that, once *)
(* storage has loaded and the app lock status is known, replaces the      *)
(* screen by the lock screen (with the destination as its routeParams)   *)
(* or by the destination itself: TabsNavigator, or Splash for a user with *)
(* no display name and no legacy chat member.  The selectors it reads     *)
(* change in any order as the app starts; each change of a dependency     *)
(* re-runs the effect after the render that shows it.  navigation.replace *)
(* takes the screen away, so the effect runs for it at most once.         *)
(***************************************************************************)
EXTENDS Naturals

CONSTANT Undefined   \* isAppUnlocked before the lock status is known

VARIABLES
    hasStorageLoaded,      \* selectHasLoadedFromStorage
    isAppUnlocked,         \* useIsFeatureUnlocked('app'): Undefined, TRUE or FALSE
    hasSetDisplayName,     \* selectHasSetMatrixDisplayName
    authenticatedMember,   \* selectAuthenticatedMember is defined
    effectDue,             \* a dependency changed since the effect last ran
    route                  \* the screen on top: [name, routeParams]

vars == <<hasStorageLoaded, isAppUnlocked, hasSetDisplayName,
          authenticatedMember, effectDue, route>>

Screen(name, params) == [name |-> name, routeParams |-> params]

Shown == Screen("Initializing", "none")

Routes == {"TabsNavigator", "Splash"}

(* The screen mounts at start-up, before or after storage has loaded and  *)
(* the lock status is known.                                               *)
Init ==
    /\ hasStorageLoaded \in BOOLEAN
    /\ isAppUnlocked \in {Undefined, TRUE, FALSE}
    /\ hasSetDisplayName \in BOOLEAN
    /\ authenticatedMember \in BOOLEAN
    /\ effectDue = TRUE
    /\ route = Shown

(* Seeded fault: isAppUnlocked left out of the effect's dependencies.    *)
DepsWithoutUnlock(changed) == changed \in {"authenticatedMember", "hasStorageLoaded",
                                           "hasSetDisplayName"}

(* The effect's dependency list: hasLegacyChatData, hasLoaded,            *)
(* hasSetDisplayName, navigation and isAppUnlocked.                      *)
Deps(changed) ==
    changed \in {"authenticatedMember", "hasStorageLoaded",
                 "hasSetDisplayName", "isAppUnlocked"}

(* A selector changes: the store is global and changes whether or not   *)
(* the screen is shown; while it is, the render that follows schedules    *)
(* the effect when the selector is a dependency.                          *)
SelectorChanges ==
    /\ \/ /\ ~hasStorageLoaded /\ hasStorageLoaded' = TRUE
          /\ effectDue' = (effectDue \/ Deps("hasStorageLoaded"))
          /\ UNCHANGED <<isAppUnlocked, hasSetDisplayName, authenticatedMember>>
       \/ /\ isAppUnlocked = Undefined /\ isAppUnlocked' \in BOOLEAN
          /\ effectDue' = (effectDue \/ Deps("isAppUnlocked"))
          /\ UNCHANGED <<hasStorageLoaded, hasSetDisplayName, authenticatedMember>>
       \/ /\ ~hasSetDisplayName /\ hasSetDisplayName' = TRUE
          /\ effectDue' = (effectDue \/ Deps("hasSetDisplayName"))
          /\ UNCHANGED <<hasStorageLoaded, isAppUnlocked, authenticatedMember>>
       \/ /\ authenticatedMember' = ~authenticatedMember
          /\ effectDue' = (effectDue \/ Deps("authenticatedMember"))
          /\ UNCHANGED <<hasStorageLoaded, isAppUnlocked, hasSetDisplayName>>
    /\ UNCHANGED route

(* destination: TabsNavigator unless there is neither a display name nor  *)
(* legacy chat data.                                                      *)
Destination ==
    IF ~hasSetDisplayName /\ ~authenticatedMember THEN "Splash" ELSE "TabsNavigator"

(* The effect runs: it returns early until storage has loaded and the    *)
(* lock status is known; then it replaces the screen.                    *)
RunEffect ==
    /\ route = Shown
    /\ effectDue
    /\ effectDue' = FALSE
    /\ IF ~hasStorageLoaded \/ isAppUnlocked = Undefined
       THEN UNCHANGED route
       ELSE route' = IF isAppUnlocked = FALSE
                     THEN Screen("LockScreen", Destination)
                     ELSE Screen(Destination, "none")
    /\ UNCHANGED <<hasStorageLoaded, isAppUnlocked, hasSetDisplayName,
                   authenticatedMember>>

Next == SelectorChanges \/ RunEffect

(* React runs a scheduled effect after the commit that scheduled it.      *)
Spec == Init /\ [][Next]_vars /\ WF_vars(RunEffect)

-----------------------------------------------------------------------------
(* Properties.                                                             *)

(* The app never hangs on the Initializing screen: once storage has      *)
(* loaded and the lock status is known, the screen is replaced, in        *)
(* whatever order the two became ready.                                   *)
LeavesInitializing ==
    (hasStorageLoaded /\ isAppUnlocked # Undefined) ~> route # Shown

=============================================================================
