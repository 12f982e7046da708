----------------------------- MODULE BackupTimer -----------------------------
(***************************************************************************)
(* Scheduled backups: the systemd timer that runs `nomctl backup` daily,   *)
(* the cadence that decides whether a run makes an archive, retention, and *)
(* the backup_stale rule that watches the newest archive                   *)
(* (internal/backup/backup.go, internal/alerts/rules.go, cmd/backup.go).   *)
(* What a run does to the node and its data is in DataOperations.          *)
(***************************************************************************)
EXTENDS Integers, FiniteSets, FiniteSetsExt

CONSTANTS
    Day,        \* ticks in a day
    Hour,       \* the timer's time of day, 0 .. Day - 1
    Cadences,   \* values of --cadence a person schedules with
    Takes,      \* how long a run may take from its start to its archive
    MaxBackups, \* archives kept
    TimerFaults,\* among {"fails", "off", "byHand"}
    LastTick    \* bound: the clock stops here

ASSUMPTION TimerAssumption ==
    /\ Day \in Nat \ {0} /\ Hour \in 0 .. Day - 1 /\ LastTick \in Nat
    /\ Cadences \subseteq Nat /\ Takes \subseteq Nat /\ MaxBackups \in Nat \ {0}

VARIABLES
    time,       \* the time
    cadence,    \* the --cadence in nomctl-backup.service, NoTimer before Schedule
    hostUp,     \* whether the host runs
    due,        \* the timer has fired and its run has not begun
    attempt,    \* the run under way, or NoAttempt
    backups,    \* modification times of the archives that have their hash
    smooth      \* history: no run failed and the host was never off since the last archive

timerVars == <<time, cadence, hostUp, due, attempt, backups, smooth>>

NoTimer == -1
\* "then" is the cadence to schedule once the run has succeeded.
NoAttempt == [began |-> -1, ends |-> -1, then |-> NoTimer, timed |-> FALSE]
Newest == Max(backups)

TimerTypeOK ==
    /\ time \in 0 .. LastTick
    /\ cadence \in Cadences \cup {NoTimer}
    /\ hostUp \in BOOLEAN /\ due \in BOOLEAN /\ smooth \in BOOLEAN
    /\ attempt \in {NoAttempt} \cup
         [began : 0 .. LastTick, ends : Nat, then : Cadences \cup {NoTimer}, timed : BOOLEAN]
    /\ backups \subseteq 0 .. LastTick

TimerInit ==
    /\ time = 0
    /\ cadence = NoTimer
    /\ hostUp = TRUE
    /\ due = FALSE
    /\ attempt = NoAttempt
    /\ backups = {}
    /\ smooth = TRUE

\* CadenceReached counts whole days.
CadenceReached(last, days) == (time - last) \div Day >= days

\* Run, with Interactive false: a cadence of 0 never skips.
Skips(days) == days > 0 /\ backups # {} /\ ~CadenceReached(Newest, days)

Idle == hostUp /\ attempt = NoAttempt
Starts(then, timed) ==
    \E d \in Takes :
        attempt' = [began |-> time, ends |-> time + d, then |-> then, timed |-> timed]

\* `nomctl backup --schedule --cadence N`, again to change it: a backup
\* first, unless the cadence skips it; the timer only once that succeeded.
Schedule ==
    /\ Idle
    /\ \E days \in Cadences :
        IF Skips(days) THEN cadence' = days /\ UNCHANGED attempt
        ELSE Starts(days, FALSE) /\ UNCHANGED cadence
    /\ UNCHANGED <<time, hostUp, due, backups, smooth>>

\* The timer's service: `nomctl backup --cadence N`.
TimedRun ==
    /\ Idle /\ due
    /\ due' = FALSE
    /\ IF Skips(cadence) THEN UNCHANGED attempt ELSE Starts(NoTimer, TRUE)
    /\ UNCHANGED <<time, cadence, hostUp, backups, smooth>>

\* `nomctl backup` by hand, with the default cadence of 0.
HandRun ==
    /\ "byHand" \in TimerFaults
    /\ Idle
    /\ Starts(NoTimer, FALSE)
    /\ UNCHANGED <<time, cadence, hostUp, due, backups, smooth>>

\* writeArchive renames the archive into place, under the time it was
\* finished; Prune keeps the newest ones.
\* Variant: the oldest are kept.
RetainOldest(set) == {a \in set : Cardinality({b \in set : b < a}) < MaxBackups}
Retain(set) == {a \in set : Cardinality({b \in set : b > a}) < MaxBackups}
Finishes ==
    /\ hostUp /\ attempt # NoAttempt /\ time = attempt.ends
    /\ backups' = Retain(backups \cup {time})
    /\ cadence' = IF attempt.then = NoTimer THEN cadence ELSE attempt.then
    /\ attempt' = NoAttempt
    /\ smooth' = TRUE
    /\ UNCHANGED <<time, hostUp, due>>

Fails ==
    /\ "fails" \in TimerFaults
    /\ attempt # NoAttempt
    /\ attempt' = NoAttempt
    /\ smooth' = FALSE
    /\ UNCHANGED <<time, cadence, hostUp, due, backups>>

\* Persistent=true: a timer missed while the host was off fires at boot.
Off ==
    /\ "off" \in TimerFaults
    /\ hostUp /\ hostUp' = FALSE
    /\ attempt' = NoAttempt
    /\ smooth' = FALSE
    /\ UNCHANGED <<time, cadence, due, backups>>
Boots ==
    /\ ~hostUp /\ hostUp' = TRUE
    /\ UNCHANGED <<time, cadence, due, attempt, backups, smooth>>

\* Time passes; a run ends when it ends, and a timer that is due runs.
Clock ==
    /\ time < LastTick
    /\ attempt # NoAttempt => time < attempt.ends
    /\ due => ~Idle
    /\ time' = time + 1
    /\ due' = (due \/ (cadence # NoTimer /\ (time + 1) % Day = Hour))
    /\ UNCHANGED <<cadence, hostUp, attempt, backups, smooth>>

TimerNext ==
    \/ Schedule \/ TimedRun \/ HandRun
    \/ Finishes \/ Fails \/ Off \/ Boots \/ Clock

TimerSpec == TimerInit /\ [][TimerNext]_timerVars

-----------------------------------------------------------------------------
\* backup_stale: the timer is enabled and the newest archive is older than
\* the cadence in the installed unit and a day.
\* Variant: no day on top.
LimitBare == cadence * Day
Limit == (cadence + 1) * Day
BackupStale ==
    /\ cadence # NoTimer
    /\ backups = {} \/ time - Newest > Limit

Longest == Max(Takes)

(***************************************************************************)
(* On a host that stays up and whose runs succeed, backup_stale never      *)
(* fires between runs, and a new archive follows the last one within the   *)
(* cadence, a day and the length of a run (rules.go:274-292,               *)
(* backup.go:117-122).                                                     *)
(***************************************************************************)
StaleNeedsTrouble ==
    smooth /\ hostUp =>
        /\ BackupStale => attempt # NoAttempt
        /\ cadence # NoTimer => time - Newest <= Limit + Longest

(***************************************************************************)
(* "Backup every N days" (internal/tui/menu.go:727): the timer's run that  *)
(* comes N days after the run which made the newest archive makes one.     *)
(***************************************************************************)
EveryCadence ==
    [][TimedRun /\ attempt' = attempt =>
        \E d \in Takes : time - (Newest - d) < cadence * Day]_timerVars

(***************************************************************************)
(* backup_stale as it is documented, a backup that is overdue: it does not *)
(* fire on a host where every scheduled run has succeeded.                 *)
(***************************************************************************)
StaleIsTrouble == smooth /\ hostUp => ~BackupStale
=============================================================================
