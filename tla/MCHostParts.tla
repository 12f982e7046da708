----------------------------- MODULE MCHostParts -----------------------------
(***************************************************************************)
(* What nomctl does on a host beside the chain data and the alert          *)
(* pipeline, for one run of TLC: keys, configuration and their archives,   *)
(* the document they are written in, nomctl's own binary, its cache of     *)
(* what is new, the schedule of backups, the rules the daemon applies to   *)
(* its samples, and the analytics stack.  The components share no state,   *)
(* so each behaviour follows one of them ("focus") and the others stay as  *)
(* they start.                                                             *)
(***************************************************************************)
EXTENDS NodeFiles, ConfigDocument, SelfUpgrade, UpdateCheck, BackupTimer, AlertRules,
        AnalyticsInstall, TLC

VARIABLE focus
mcVars == <<filesVars, docVars, upVars, checkVars, timerVars, rulesVars,
            installVars, focus>>

\* One state for each component a behaviour leaves alone.
FilesRest == FilesInit /\ config = None /\ archives = {}
DocRest == document = Absent /\ changes = 0
UpgradeRest == UpgradeInit /\ unit = 1 /\ daemon = NoFile /\ upFaults = CHOOSE f \in UpFaultSets : TRUE
CheckRest == CheckInit /\ branch = Default
InstallRest == InstallInit /\ svc = [u \in Services |-> [enabled |-> FALSE, active |-> FALSE]]
RulesRest == RulesInit /\ view = "service" /\ written = 9

\* Minutes a hand-edited alerts.json may hold: negative, and longer than
\* the history.
HandEdited == {-1, 9}

MCInit ==
    /\ focus \in {"files", "document", "upgrade", "check", "timer", "rules", "install"}
    /\ IF focus = "files" THEN FilesInit ELSE FilesRest
    /\ IF focus = "document" THEN DocInit ELSE DocRest
    /\ IF focus = "upgrade" THEN UpgradeInit ELSE UpgradeRest
    /\ IF focus = "check" THEN CheckInit ELSE CheckRest
    /\ IF focus = "rules" THEN RulesInit ELSE RulesRest
    /\ IF focus = "install" THEN InstallInit ELSE InstallRest
    /\ TimerInit

MCNext ==
    /\ UNCHANGED focus
    /\ \/ focus = "files" /\ FilesNext
          /\ UNCHANGED <<docVars, upVars, checkVars, timerVars, rulesVars, installVars>>
       \/ focus = "document" /\ DocNext
          /\ UNCHANGED <<filesVars, upVars, checkVars, timerVars, rulesVars, installVars>>
       \/ focus = "upgrade" /\ UpgradeNext
          /\ UNCHANGED <<filesVars, docVars, checkVars, timerVars, rulesVars, installVars>>
       \/ focus = "check" /\ CheckNext
          /\ UNCHANGED <<filesVars, docVars, upVars, timerVars, rulesVars, installVars>>
       \/ focus = "timer" /\ TimerNext
          /\ UNCHANGED <<filesVars, docVars, upVars, checkVars, rulesVars, installVars>>
       \/ focus = "rules" /\ RulesNext
          /\ UNCHANGED <<filesVars, docVars, upVars, checkVars, timerVars, installVars>>
       \/ focus = "install" /\ InstallNext
          /\ UNCHANGED <<filesVars, docVars, upVars, checkVars, timerVars, rulesVars>>

\* The types of the components' variables.
PartsTypeOK ==
    /\ FilesTypeOK /\ UpgradeTypeOK /\ CheckTypeOK /\ TimerTypeOK
    /\ InstallTypeOK

\* What set, unset and edit rely on, of every document they can be given
\* (Set, Unset, Validate): looked at where the document changes.
EveryEditIsSafe == focus = "document" => EditsAreSafe

PartsSymmetry == Permutations(Writers) \cup Permutations(Keys)

MCSpec == MCInit /\ [][MCNext]_mcVars
=============================================================================
