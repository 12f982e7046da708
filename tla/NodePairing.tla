---------------------------- MODULE NodePairing ----------------------------
(***************************************************************************)
(* How a node gets, keeps and gives up its credentials: /start and /unpair *)
(* in the chat, the relay's pairing codes and node rows, and on the host   *)
(* `alerts setup`, `unpair` and `set` (cmd/alerts.go), which write         *)
(* alerts.json and the units of the daemon (internal/alerts).  The alerts  *)
(* commands take no lock: PerHost of them may run on a host at once.       *)
(***************************************************************************)
EXTENDS Naturals, FiniteSets

CONSTANTS
    Hosts,
    PerHost,       \* alerts commands that may run on a host at once
    Codes, Ids,
    Names,         \* numbers in the order of names; 2n and 2n + 1 differ in case
    MaxCodes,      \* MaxCodesPerChat
    MaxAlertsRuns, \* bound on the commands ever run
    PairFaultSets  \* sets of what may go wrong, each behaviour has one

NoId == "none"
NoName == 99

PairFaultNames == {"sendFails", "relayRestarts", "expires", "storeFails",
                   "replyLost", "saveFails", "installFails", "uninstallFails",
                   "unreachable", "died"}

ASSUME PairingAssumption ==
    /\ PerHost \in Nat /\ MaxCodes \in Nat /\ MaxAlertsRuns \in Nat
    /\ NoId \notin Ids \cup Codes
    /\ Names \subseteq Nat
    /\ PairFaultSets \subseteq SUBSET PairFaultNames

VARIABLES
    code,      \* [Codes -> where the code is]
    redeemed,  \* history: [Codes -> nodes the code has paired]
    row,       \* [Ids -> the name of the node], the relay's nodes table
    message,   \* the chat's command that the relay is handling
    delivered, \* codes that reached the chat
    alertsCfg, \* [Hosts -> alerts.json]
    runUser,   \* hosts where the daemon's user exists
    units,     \* [Hosts -> the daemon's unit, the probe timer, the daemon]
    saved,     \* history: [Hosts -> the id saved last]
    excused,   \* history: ids given up by --force, or replaced by another
    died,      \* history: hosts where a command died
    cmd,       \* [Commands -> what the command is doing]
    begun,     \* alerts commands run so far
    pairFaults \* what may go wrong

relayVars == <<code, redeemed, row, message, delivered>>
hostVars == <<alertsCfg, runUser, units, saved, excused, died>>
pairVars == <<relayVars, hostVars, cmd, begun, pairFaults>>

Commands == Hosts \X (1 .. PerHost)
MaybeId == Ids \cup {NoId}
\* "rule" stands for the thresholds; the daemon's user may read the file or not.
AlertsFile == [id : MaybeId, rule : BOOLEAN, readable : BOOLEAN]
NoFile_ == [id |-> NoId, rule |-> FALSE, readable |-> FALSE]
Paired(file) == file.id # NoId
\* "runs" is the id the daemon reports with.
Unit == [file : {"none", "root", "user"}, enabled : BOOLEAN, probe : BOOLEAN,
         runs : MaybeId]
NoUnit == [file |-> "none", enabled |-> FALSE, probe |-> FALSE, runs |-> NoId]
CmdSteps == {"idle", "select", "consume", "create", "paired", "save", "converge",
             "timer", "service", "restart", "undoUnits", "undoPairing", "forget",
             "setSave", "setConverge", "setReload", "tell", "uninstall", "remove"}
Command == [step : CmdSteps, code : Codes \cup {NoId}, name : Names \cup {NoName},
            file : AlertsFile, force : BOOLEAN]
IdleCommand == [step |-> "idle", code |-> NoId, name |-> NoName, file |-> NoFile_,
                force |-> FALSE]
NoMessage == [text |-> "none", name |-> NoName, attempt |-> 0]

PairingTypeOK ==
    /\ code \in [Codes -> {"unborn", "unused", "used"}]
    /\ redeemed \in [Codes -> 0 .. 2]
    /\ row \in [Ids -> Names \cup {NoName}]
    /\ message \in [text : {"none", "start", "unpair"}, name : Names \cup {NoName},
                    attempt : 0 .. 3]
    /\ delivered \subseteq Codes
    /\ alertsCfg \in [Hosts -> AlertsFile]
    /\ runUser \subseteq Hosts
    /\ units \in [Hosts -> Unit]
    /\ saved \in [Hosts -> MaybeId]
    /\ excused \subseteq Ids
    /\ died \subseteq Hosts
    /\ cmd \in [Commands -> Command]
    /\ begun \in 0 .. MaxAlertsRuns
    /\ pairFaults \in PairFaultSets

\* No node is paired yet, or one was by a release whose daemon ran as root.
PairingInit ==
    /\ code = [c \in Codes |-> "unborn"]
    /\ redeemed = [c \in Codes |-> 0]
    /\ message = NoMessage
    /\ delivered = {}
    /\ \E old \in SUBSET Hosts, id \in Ids, name \in Names :
         /\ old = {} \/ \E h \in Hosts : old = {h}
         /\ row = [i \in Ids |-> IF i = id /\ old # {} THEN name ELSE NoName]
         /\ saved = [h \in Hosts |-> IF h \in old THEN id ELSE NoId]
         /\ alertsCfg = [h \in Hosts |-> IF h \in old
               THEN [id |-> id, rule |-> TRUE, readable |-> FALSE] ELSE NoFile_]
         /\ units = [h \in Hosts |-> IF h \in old
               THEN [file |-> "root", enabled |-> TRUE, probe |-> FALSE, runs |-> id]
               ELSE NoUnit]
    /\ runUser = {}
    /\ excused = {}
    /\ died = {}
    /\ cmd = [p \in Commands |-> IdleCommand]
    /\ begun = 0
    /\ pairFaults \in PairFaultSets

-----------------------------------------------------------------------------
(* The chat.                                                               *)

Unused == {c \in Codes : code[c] = "unused"}

Write(text, name) ==
    /\ message = NoMessage
    /\ message' = [text |-> text, name |-> name, attempt |-> 1]
    /\ UNCHANGED <<code, redeemed, row, delivered, hostVars, cmd, begun>>

\* Mutant: a command is handled anew as long as its reply cannot be sent.
AnsweredForever(codes) ==
    \/ message' = NoMessage /\ delivered' = delivered \cup codes
    \/ /\ "sendFails" \in pairFaults
       /\ message' = [message EXCEPT !.attempt = @ + 1]
       /\ UNCHANGED delivered
\* The reply: sent, or the command is handled anew, three times at most.
Answered(codes) ==
    \/ message' = NoMessage /\ delivered' = delivered \cup codes
    \/ /\ "sendFails" \in pairFaults
       /\ message' = IF message.attempt = 3 THEN NoMessage
                     ELSE [message EXCEPT !.attempt = @ + 1]
       /\ UNCHANGED delivered

CmdStart ==
    /\ message.text = "start"
    /\ IF Cardinality(Unused) >= MaxCodes
       THEN Answered({}) /\ UNCHANGED code
       ELSE \E c \in Codes :
              /\ code[c] = "unborn"
              /\ code' = [code EXCEPT ![c] = "unused"]
              /\ Answered({c})
    /\ UNCHANGED <<redeemed, row, hostVars, cmd, begun>>

\* findNode compares without regard to case, and takes the first by name.
Found(name) ==
    LET alike == {i \in Ids : row[i] # NoName /\ row[i] \div 2 = name \div 2}
    IN  {i \in alike : \A j \in alike : row[i] <= row[j]}
CmdUnpair ==
    /\ message.text = "unpair"
    /\ row' = [i \in Ids |-> IF i \in Found(message.name) THEN NoName ELSE row[i]]
    /\ Answered({})
    /\ UNCHANGED <<code, redeemed, hostVars, cmd, begun>>

CodeExpires(c) ==
    /\ "expires" \in pairFaults
    /\ code[c] = "unused"
    /\ code' = [code EXCEPT ![c] = "used"]
    /\ UNCHANGED <<redeemed, row, message, delivered, hostVars, cmd, begun>>

\* The offset is lost: an update not yet acknowledged is handled again.
RelayRestarts ==
    /\ "relayRestarts" \in pairFaults
    /\ message.attempt > 1
    /\ message' = [message EXCEPT !.attempt = 1]
    /\ UNCHANGED <<code, redeemed, row, delivered, hostVars, cmd, begun>>

-----------------------------------------------------------------------------
(* alerts setup.                                                           *)

In(p, step) == cmd[p].step = step
Step(p, step) == cmd' = [cmd EXCEPT ![p].step = step]
Over(p) == cmd' = [cmd EXCEPT ![p] = IdleCommand]
MayFail(fault) == fault \in pairFaults

BeginSetup(p) ==
    /\ In(p, "idle")
    /\ begun < MaxAlertsRuns
    /\ begun' = begun + 1
    /\ \E c \in delivered, n \in Names :
         cmd' = [cmd EXCEPT ![p] = [IdleCommand EXCEPT
                   !.step = "select", !.code = c, !.name = n]]
    /\ UNCHANGED <<relayVars, hostVars>>

\* handlePair: ConsumeCode reads the code, then marks it.
SelectCode(p) ==
    /\ In(p, "select")
    /\ IF code[cmd[p].code] = "unused" THEN Step(p, "consume") ELSE Over(p)
    /\ UNCHANGED <<relayVars, hostVars, begun>>

\* Mutant: the update does not look whether the code is used by now.
ConsumeAgain(p) ==
    /\ In(p, "consume")
    /\ code' = [code EXCEPT ![cmd[p].code] = "used"]
    /\ Step(p, "create")
    /\ UNCHANGED <<redeemed, row, message, delivered, hostVars, begun>>
ConsumeCode(p) ==
    /\ In(p, "consume")
    /\ code' = [code EXCEPT ![cmd[p].code] = "used"]
    /\ IF code[cmd[p].code] = "unused" THEN Step(p, "create") ELSE Over(p)
    /\ UNCHANGED <<redeemed, row, message, delivered, hostVars, begun>>

\* A name that is taken, or an error of the store, costs the code.
CreateNode(p) ==
    /\ In(p, "create")
    /\ \/ /\ \A i \in Ids : row[i] # cmd[p].name
          /\ \E i \in Ids :
               /\ row[i] = NoName
               /\ \A h \in Hosts : i \notin {alertsCfg[h].id, saved[h], units[h].runs}
               /\ row' = [row EXCEPT ![i] = cmd[p].name]
               /\ cmd' = [cmd EXCEPT ![p].step = "paired", ![p].file.id = i]
          /\ redeemed' = [redeemed EXCEPT ![cmd[p].code] = @ + 1]
       \/ /\ MayFail("storeFails") \/ \E i \in Ids : row[i] = cmd[p].name
          /\ Over(p)
          /\ UNCHANGED <<redeemed, row>>
    /\ UNCHANGED <<code, message, delivered, hostVars, begun>>

\* The thresholds of a file that is there are kept.
KeepThresholds(p) ==
    LET h == p[1]
    IN  /\ In(p, "paired")
        /\ cmd' = [cmd EXCEPT ![p].step = "save", ![p].file.rule = alertsCfg[h].rule]
        /\ UNCHANGED <<relayVars, hostVars, begun>>

\* The answer does not arrive, or names a node that cannot be saved.
PairingLost(p) ==
    /\ \/ In(p, "paired") /\ MayFail("replyLost")
       \/ In(p, "save") /\ MayFail("saveFails")
    /\ Over(p)
    /\ UNCHANGED <<relayVars, hostVars, begun>>

\* Mutant: only root may read the file.
SavedPrivate(h, file) == [file EXCEPT !.readable = FALSE]
\* Save: the daemon's user may read the file once there is one.
Saved(h, file) == [file EXCEPT !.readable = (h \in runUser)]

Save(p) ==
    LET h == p[1]
    IN  /\ In(p, "save")
        /\ alertsCfg' = [alertsCfg EXCEPT ![h] = Saved(h, cmd[p].file)]
        /\ saved' = [saved EXCEPT ![h] = cmd[p].file.id]
        /\ excused' = excused \cup ({alertsCfg[h].id} \ {NoId})
        /\ Step(p, "converge")
        /\ UNCHANGED <<relayVars, runUser, units, died, begun>>

\* A (re)started daemon reads the file; without one it ends, and is started
\* again every ten seconds.
Starts(h, file, unit) ==
    IF Paired(file) /\ (unit.file = "root" \/ file.readable)
    THEN [unit EXCEPT !.runs = file.id] ELSE [unit EXCEPT !.runs = NoId]
Running(h) == units[h].enabled

\* Converge: the user, the mode of the file, the units, a restart of a daemon
\* that runs when they changed, the probe of one that is enabled.
ConvergedUnits(h, file) ==
    LET u == units[h]
        written == [u EXCEPT !.file = "user"]
        restarted == IF u.file # "user" /\ u.enabled
                     THEN Starts(h, file, written) ELSE written
    IN  [restarted EXCEPT !.probe = u.probe \/ u.enabled]
Converge(h) ==
    LET file == [alertsCfg[h] EXCEPT !.readable = Paired(alertsCfg[h])]
    IN  /\ runUser' = runUser \cup {h}
        /\ alertsCfg' = [alertsCfg EXCEPT ![h] = file]
        /\ units' = [units EXCEPT ![h] = ConvergedUnits(h, file)]
\* It fails: at once, or with the user there, or with the file handed over
\* and the first unit file written.
ConvergeFails(h) ==
    /\ MayFail("installFails")
    /\ \/ UNCHANGED <<runUser, alertsCfg, units>>
       \/ runUser' = runUser \cup {h} /\ UNCHANGED <<alertsCfg, units>>
       \/ /\ runUser' = runUser \cup {h}
          /\ alertsCfg' = [alertsCfg EXCEPT ![h].readable = Paired(alertsCfg[h])]
          /\ units' = [units EXCEPT ![h].file = "user"]

\* Mutant: a unit that runs already is left as it is.
RestartedIfDown(h) == units[h]
Restarted(h) == Starts(h, alertsCfg[h], units[h])

\* InstallUnit.
Install_(p) ==
    LET h == p[1]
    IN  /\ \/ In(p, "converge") /\ Converge(h) /\ Step(p, "timer")
           \/ /\ In(p, "timer")
              /\ units' = [units EXCEPT ![h].probe = TRUE]
              /\ Step(p, "service") /\ UNCHANGED <<runUser, alertsCfg>>
           \/ /\ In(p, "service")
              /\ units' = [units EXCEPT ![h] = IF @.enabled THEN @
                             ELSE Starts(h, alertsCfg[h], [@ EXCEPT !.enabled = TRUE])]
              /\ Step(p, "restart") /\ UNCHANGED <<runUser, alertsCfg>>
           \/ /\ In(p, "restart")
              /\ units' = [units EXCEPT ![h] = Restarted(h)]
              /\ Over(p) /\ UNCHANGED <<runUser, alertsCfg>>
        /\ UNCHANGED <<relayVars, saved, excused, died, begun>>

InstallFails(p) ==
    LET h == p[1]
    IN  /\ \/ In(p, "converge") /\ ConvergeFails(h)
           \/ /\ cmd[p].step \in {"timer", "service", "restart"}
              /\ MayFail("installFails")
              /\ UNCHANGED <<runUser, alertsCfg, units>>
        /\ Step(p, "undoUnits")
        /\ UNCHANGED <<relayVars, saved, excused, died, begun>>

\* UninstallUnit goes on after a failure; what systemd did not disable runs on.
Uninstalled(h) ==
    {NoUnit} \cup (IF MayFail("uninstallFails")
                   THEN {[NoUnit EXCEPT !.enabled = units[h].enabled,
                                        !.runs = units[h].runs]} ELSE {})
UndoUnits(p) ==
    LET h == p[1]
    IN  /\ In(p, "undoUnits")
        /\ \E u \in Uninstalled(h) : units' = [units EXCEPT ![h] = u]
        /\ Step(p, "undoPairing")
        /\ UNCHANGED <<relayVars, alertsCfg, runUser, saved, excused, died, begun>>

\* A relay that cannot be told keeps the node, and the host its credentials.
UndoPairing(p) ==
    /\ In(p, "undoPairing")
    /\ \/ row' = [row EXCEPT ![cmd[p].file.id] = NoName] /\ Step(p, "forget")
       \/ MayFail("unreachable") /\ Over(p) /\ UNCHANGED row
    /\ UNCHANGED <<code, redeemed, message, delivered, hostVars, begun>>

Forget(p) ==
    /\ In(p, "forget") \/ In(p, "remove")
    /\ alertsCfg' = [alertsCfg EXCEPT ![p[1]] = NoFile_]
    /\ Over(p)
    /\ UNCHANGED <<relayVars, runUser, units, saved, excused, died, begun>>

-----------------------------------------------------------------------------
(* alerts enable, disable and set.                                         *)

BeginSet(p) ==
    /\ In(p, "idle")
    /\ begun < MaxAlertsRuns
    /\ begun' = begun + 1
    /\ Paired(alertsCfg[p[1]])
    /\ cmd' = [cmd EXCEPT ![p] = [IdleCommand EXCEPT
                 !.step = "setSave",
                 !.file = [alertsCfg[p[1]] EXCEPT !.rule = ~@]]]
    /\ UNCHANGED <<relayVars, hostVars>>

SetSave(p) ==
    /\ In(p, "setSave")
    /\ \/ /\ alertsCfg' = [alertsCfg EXCEPT ![p[1]] = Saved(p[1], cmd[p].file)]
          /\ Step(p, "setConverge")
       \/ MayFail("saveFails") /\ Over(p) /\ UNCHANGED alertsCfg
    /\ UNCHANGED <<relayVars, runUser, units, saved, excused, died, begun>>

\* Units that do not converge are only logged.
SetConverge(p) ==
    LET h == p[1]
    IN  /\ In(p, "setConverge")
        /\ IF units[h].file = "none" THEN UNCHANGED <<runUser, alertsCfg, units>>
           ELSE Converge(h) \/ ConvergeFails(h)
        /\ Step(p, "setReload")
        /\ UNCHANGED <<relayVars, saved, excused, died, begun>>

\* SIGHUP; a daemon that cannot load the file keeps what it has.
SetReload(p) ==
    LET h == p[1]
        u == units[h]
    IN  /\ In(p, "setReload")
        /\ units' = [units EXCEPT ![h] =
                       IF u.runs = NoId \/ ~Paired(alertsCfg[h]) THEN u
                       ELSE IF u.file = "root" \/ alertsCfg[h].readable
                       THEN [u EXCEPT !.runs = alertsCfg[h].id] ELSE u]
        /\ Over(p)
        /\ UNCHANGED <<relayVars, alertsCfg, runUser, saved, excused, died, begun>>

-----------------------------------------------------------------------------
(* alerts unpair.                                                          *)

BeginUnpair(p) ==
    /\ In(p, "idle")
    /\ begun < MaxAlertsRuns
    /\ begun' = begun + 1
    /\ \E force \in BOOLEAN :
         cmd' = [cmd EXCEPT ![p] = [IdleCommand EXCEPT
                   !.file = alertsCfg[p[1]], !.force = force,
                   !.step = IF Paired(alertsCfg[p[1]]) THEN "tell" ELSE "uninstall"]]
    /\ UNCHANGED <<relayVars, hostVars>>

\* Mutant: a relay that cannot be reached does not stop an unpair.
TellAnyway(p) ==
    /\ In(p, "tell")
    /\ \/ row' = [row EXCEPT ![cmd[p].file.id] = NoName]
       \/ MayFail("unreachable") /\ UNCHANGED row
    /\ Step(p, "uninstall")
    /\ UNCHANGED <<code, redeemed, message, delivered, hostVars, begun>>
TellRelay(p) ==
    /\ In(p, "tell")
    /\ \/ /\ row' = [row EXCEPT ![cmd[p].file.id] = NoName]
          /\ Step(p, "uninstall") /\ UNCHANGED excused
       \/ /\ MayFail("unreachable")
          /\ IF cmd[p].force
             THEN Step(p, "uninstall") /\ excused' = excused \cup {cmd[p].file.id}
             ELSE Over(p) /\ UNCHANGED excused
          /\ UNCHANGED row
    /\ UNCHANGED <<code, redeemed, message, delivered, alertsCfg, runUser, units,
                   saved, died, begun>>

UninstallUnits(p) ==
    LET h == p[1]
    IN  /\ In(p, "uninstall")
        /\ \E u \in Uninstalled(h) :
             /\ units' = [units EXCEPT ![h] = u]
             /\ IF u = NoUnit THEN Step(p, "remove") ELSE Over(p)
        /\ UNCHANGED <<relayVars, alertsCfg, runUser, saved, excused, died, begun>>

-----------------------------------------------------------------------------
CommandDies(p) ==
    /\ MayFail("died")
    /\ ~In(p, "idle")
    /\ Over(p)
    /\ died' = died \cup {p[1]}
    /\ UNCHANGED <<relayVars, alertsCfg, runUser, units, saved, excused, begun>>

\* Restart=always.
DaemonRestarts(h) ==
    /\ Running(h)
    /\ units' = [units EXCEPT ![h] = Starts(h, alertsCfg[h], @)]
    /\ units' # units
    /\ UNCHANGED <<relayVars, alertsCfg, runUser, saved, excused, died, cmd, begun>>

PairingNext ==
    /\ UNCHANGED pairFaults
    /\ \/ Write("start", NoName) \/ CmdStart \/ CmdUnpair \/ RelayRestarts
       \/ \E n \in Names : Write("unpair", n)
       \/ \E c \in Codes : CodeExpires(c)
       \/ \E p \in Commands :
            \/ BeginSetup(p) \/ SelectCode(p) \/ ConsumeCode(p) \/ CreateNode(p)
            \/ KeepThresholds(p) \/ PairingLost(p) \/ Save(p) \/ Install_(p)
            \/ InstallFails(p) \/ UndoUnits(p) \/ UndoPairing(p) \/ Forget(p)
            \/ BeginSet(p) \/ SetSave(p) \/ SetConverge(p) \/ SetReload(p)
            \/ BeginUnpair(p) \/ TellRelay(p) \/ UninstallUnits(p)
            \/ CommandDies(p)
       \/ \E h \in Hosts : DaemonRestarts(h)

PairingSpec == PairingInit /\ [][PairingNext]_pairVars

-----------------------------------------------------------------------------
(* Properties.                                                             *)

AtRest(h) == \A p \in Commands : p[1] = h => In(p, "idle")

\* A code pairs one node at most, also when two nodes redeem it at once and
\* each finds it unused (ConsumeCode has no transaction).
OneNodePerCode == \A c \in Codes : redeemed[c] <= 1

\* While the relay knows the node a host saved last, and would call it
\* silent, the host has the credentials to take that back, wherever setup or
\* unpair failed or died; only --force gives them up.
KnownIsKept ==
    \A h \in Hosts :
        (saved[h] \in Ids \ excused /\ row[saved[h]] # NoName) => alertsCfg[h].id = saved[h]

\* The daemon that runs as its own user may read the file it is started with,
\* across the first setup, a new pairing, the migration from root and any set.
DaemonCanRead ==
    \A h \in Hosts :
        (Running(h) /\ units[h].file = "user" /\ Paired(alertsCfg[h])) =>
            alertsCfg[h].readable

\* Between commands a daemon reports with the credentials in the file, also
\* after commands that failed; only a command that died may leave another.
DaemonRunsConfig ==
    \A h \in Hosts \ died : AtRest(h) => units[h].runs \in {NoId, alertsCfg[h].id}

\* The daemon works with the credentials the host has: it can read them, and
\* no command leaves it with others.
DaemonKeepsUp == DaemonCanRead /\ DaemonRunsConfig

\* "undo the pairing": when no command runs, each node that the relay knows
\* is one whose credentials a host has.
NoGhost ==
    (\A h \in Hosts : AtRest(h)) =>
        \A i \in Ids \ excused : row[i] # NoName => \E h \in Hosts : alertsCfg[h].id = i

\* /unpair NAME forgets the node of that name, when there is one.
UnpairsTheNamed ==
    [][CmdUnpair => \A i \in Ids : row'[i] # row[i] =>
          row[i] = message.name \/ \A j \in Ids : row[j] # message.name]_pairVars

\* "You already have several unused pairing codes. Use one of them": the chat
\* that is refused a code has one.
RefusedHasOne ==
    (message.text = "start" /\ Cardinality(Unused) >= MaxCodes) =>
        Unused \cap delivered # {}
=============================================================================
