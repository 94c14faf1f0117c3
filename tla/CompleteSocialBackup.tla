------------------------ MODULE CompleteSocialBackup ------------------------
(***************************************************************************)
(* The CompleteSocialBackup screen of src/ui/native/screens: createBackup *)
(* locates the recovery file, opens the share sheet, and on success sets  *)
(* backupsCompleted from the value its render saw, capped at              *)
(* BACKUPS_REQUIRED; it lowers isCreatingBackup however it ends.  The     *)
(* main button saves the file while no backup is counted and completes    *)
(* the social backup after; a second button saves again.  Both buttons    *)
(* show isCreatingBackup as loading; whether a loading button still takes *)
(* presses is the constant LoadingBlocksPress (the button component is    *)
(* not part of this code).  Share.open rejects when the user dismisses    *)
(* the sheet.                                                             *)
(***************************************************************************)
EXTENDS Naturals

CONSTANTS
    LoadingBlocksPress,  \* does a loading button ignore presses?
    MaxAttempts          \* bound on createBackup calls

BACKUPS_REQUIRED == 2

VARIABLES
    backupsCompleted,
    isCreatingBackup,
    calls,        \* createBackup calls in flight: [id, seen, stage]
    shares,       \* share sheets that completed (history)
    completed,    \* completeSocialBackup dispatched
    attempts

vars == <<backupsCompleted, isCreatingBackup, calls, shares, completed, attempts>>

Init ==
    /\ backupsCompleted = 0
    /\ isCreatingBackup = FALSE
    /\ calls = {}
    /\ shares = 0
    /\ completed = FALSE
    /\ attempts = 0

Pressable == ~(LoadingBlocksPress /\ isCreatingBackup)

(* createBackup up to its first await: the spinner on, locateRecoveryFile *)
(* called with this render's backupsCompleted in its closure.            *)
CreateBackup ==
    /\ attempts < MaxAttempts
    /\ attempts' = attempts + 1
    /\ isCreatingBackup' = TRUE
    /\ calls' = calls \cup {[id |-> attempts, seen |-> backupsCompleted,
                             stage |-> "locate"]}
    /\ UNCHANGED <<backupsCompleted, shares, completed>>

(* The main button: save the file first, complete after.                 *)
PressMain ==
    /\ Pressable
    /\ IF backupsCompleted = 0
       THEN CreateBackup
       ELSE /\ completed' = TRUE
            /\ UNCHANGED <<backupsCompleted, isCreatingBackup, calls, shares, attempts>>

(* The save-again button, shown once a backup is counted.                *)
PressSaveAgain ==
    /\ Pressable
    /\ backupsCompleted > 0
    /\ CreateBackup

(* The catch and the line after it: log, spinner off.                    *)
Fail(c) ==
    /\ calls' = calls \ {c}
    /\ isCreatingBackup' = FALSE
    /\ UNCHANGED <<backupsCompleted, shares, completed, attempts>>

(* locateRecoveryFile answers: on to Share.open, or throws.              *)
LocateReturns(c) ==
    /\ c \in calls /\ c.stage = "locate"
    /\ \/ /\ calls' = (calls \ {c}) \cup {[c EXCEPT !.stage = "share"]}
          /\ UNCHANGED <<backupsCompleted, isCreatingBackup, shares, completed, attempts>>
       \/ Fail(c)

(* Seeded fault: the count raised without Math.min.                      *)
ShareReturnsUncapped(c) ==
    /\ c \in calls /\ c.stage = "share"
    /\ \/ /\ calls' = calls \ {c}
          /\ backupsCompleted' = c.seen + 1
          /\ shares' = shares + 1
          /\ isCreatingBackup' = FALSE
          /\ UNCHANGED <<completed, attempts>>
       \/ Fail(c)

(* The share sheet closes: shared, then the count is set from the        *)
(* closure's value; or dismissed, and Share.open throws.                 *)
ShareReturns(c) ==
    /\ c \in calls /\ c.stage = "share"
    /\ \/ /\ calls' = calls \ {c}
          /\ backupsCompleted' = IF c.seen + 1 < BACKUPS_REQUIRED
                                 THEN c.seen + 1 ELSE BACKUPS_REQUIRED
          /\ shares' = shares + 1
          /\ isCreatingBackup' = FALSE
          /\ UNCHANGED <<completed, attempts>>
       \/ Fail(c)

Next ==
    \/ PressMain
    \/ PressSaveAgain
    \/ \E c \in calls : LocateReturns(c) \/ ShareReturns(c)

Spec == Init /\ [][Next]_vars

-----------------------------------------------------------------------------
(* Properties.                                                             *)

TypeOK ==
    /\ backupsCompleted \in 0..BACKUPS_REQUIRED
    /\ isCreatingBackup \in BOOLEAN
    /\ calls \subseteq [id : 0..MaxAttempts, seen : 0..BACKUPS_REQUIRED,
                        stage : {"locate", "share"}]
    /\ shares \in 0..MaxAttempts
    /\ completed \in BOOLEAN
    /\ attempts \in 0..MaxAttempts

(* The count shown is the number of share sheets the user completed,      *)
(* capped at BACKUPS_REQUIRED, whatever failed or was dismissed between.  *)
CountsCompletedShares ==
    backupsCompleted = IF shares < BACKUPS_REQUIRED THEN shares ELSE BACKUPS_REQUIRED

=============================================================================
