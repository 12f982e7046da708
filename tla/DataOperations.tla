--------------------------- MODULE DataOperations ---------------------------
(***************************************************************************)
(* The operations that stop the node and change or copy its chain data:    *)
(* backup, restore, bootstrap (with and without --discard), resync and     *)
(* deploy.  Each runs in a nomctl process of its own under the lock; a     *)
(* step is one file or service operation, and each can fail or be the      *)
(* last before the process is killed.                                      *)
(***************************************************************************)
EXTENDS NodeHost, Sequences, FiniteSets

CONSTANTS
    Ops,         \* the operations this run allows
    Faults,      \* what may go wrong in it
    MaxBackups,  \* archives that pruning keeps
    MaxArchives  \* bound on the archives ever published

OpNames == {"backup", "restore", "bootstrap", "discard", "resync", "deploy"}
FaultNames == {"stopFails", "startFails", "copyFails", "archiveFails",
               "removeFails", "extractFails", "asideFails", "installFails",
               "putBackFails", "wipeFails", "buildFails", "killed", "reboot",
               "nodeDies", "userStarts", "userStops"}

ASSUME OperationsAssumption ==
    /\ Ops \subseteq OpNames
    /\ Faults \subseteq FaultNames
    /\ MaxBackups \in Nat \ {0}
    /\ MaxArchives \in Nat

VARIABLES
    proc,        \* [Procs -> what each process is doing]
    temp,        \* TempDir, where a backup copies to
    archives     \* every archive published, oldest first

vars == <<hostVars, proc, temp, archives>>

PCs == {"idle", "prepare", "extract", "stop", "copy", "archive", "prune",
        "aside", "install", "back", "restart", "wipe", "unpack", "build",
        "start"}

\* "todo" is what the loop at pc has left, "staged" the unpacked archive,
\* "moved" the safety copies this operation has made.  "before" is history:
\* the data the node had when it was stopped, as it has changed it since.
ProcState ==
    [op : OpNames, pc : PCs, todo : SUBSET Folders, staged : Files,
     moved : Files, before : Files, wasActive : BOOLEAN, failed : BOOLEAN]

IdleProc ==
    [op |-> "backup", pc |-> "idle", todo |-> {}, staged |-> AllAt(None),
     moved |-> AllAt(None), before |-> AllAt(None), wasActive |-> FALSE,
     failed |-> FALSE]

\* "kept": the archive is there; "hashed": its sidecar is.
Archive == [files : Files, kept : BOOLEAN, hashed : BOOLEAN]

TypeOK ==
    /\ HostTypeOK
    /\ proc \in [Procs -> ProcState]
    /\ temp \in Files
    /\ archives \in Seq(Archive)

Init ==
    /\ HostInit
    /\ proc = [p \in Procs |-> IdleProc]
    /\ temp = AllAt(None)
    /\ archives = <<>>

-----------------------------------------------------------------------------
May(fault) == fault \in Faults
At(p, pc) == proc[p].pc = pc
Goto(p, pc) == proc' = [proc EXCEPT ![p].pc = pc] /\ UNCHANGED lock
End(p) == proc' = [proc EXCEPT ![p] = IdleProc] /\ Release(p)

\* The loop at pc has dealt with f: round again, or on to "next", which
\* loops over "folders".
Turn(p, f, next, folders) ==
    [proc[p] EXCEPT !.todo = IF @ = {f} THEN folders ELSE @ \ {f},
                    !.pc = IF proc[p].todo = {f} THEN next ELSE @]
Becomes(p, state) == proc' = [proc EXCEPT ![p] = state] /\ UNCHANGED lock

Manifest(p) == IF proc[p].op = "restore" THEN Present(proc[p].staged)
                                         ELSE Folders

First(op) ==
    CASE op = "backup" -> "prepare"
      [] op \in {"restore", "bootstrap"} -> "extract"
      [] OTHER -> "stop"

Begin(p) ==
    /\ At(p, "idle")
    /\ Acquire(p)
    /\ \E op \in Ops :
         /\ op = "backup" => Len(archives) < MaxArchives
         /\ proc' = [proc EXCEPT ![p] = [IdleProc EXCEPT
                        !.op = op, !.pc = First(op), !.wasActive = IsActive]]
    /\ UNCHANGED <<svc, now, data, temp, archives>>

\* List ignores archives without a hash; Prune keeps the newest MaxBackups of
\* the others and removes the rest.  An archive that cannot be removed loses
\* its hash all the same.
Hashed == {i \in DOMAIN archives : archives[i].kept /\ archives[i].hashed}
Newer(i) == {j \in Hashed : j > i}
\* Mutant: room is made for the archive to come as well.
SurplusMakesRoom == {i \in Hashed : Cardinality(Newer(i)) >= MaxBackups - 1}
Surplus == {i \in Hashed : Cardinality(Newer(i)) >= MaxBackups}
Gone(stuck) == [files |-> AllAt(None), kept |-> stuck, hashed |-> FALSE]

Prune ==
    \E stuck \in SUBSET Surplus :
        /\ stuck # {} => May("removeFails")
        /\ archives' = [i \in DOMAIN archives |->
                           IF i \in Surplus THEN Gone(i \in stuck)
                                            ELSE archives[i]]

\* Free space (with a pruning if it is low), the temporary directory, and
\* whether the node is running.
Prepare(p) ==
    /\ At(p, "prepare")
    /\ Prune \/ UNCHANGED archives
    /\ temp' = AllAt(None)
    /\ Becomes(p, [proc[p] EXCEPT !.pc = "stop", !.wasActive = IsActive])
    /\ UNCHANGED <<svc, now, data>>

\* A restore takes an archive that verifies against its hash and holds some
\* folder; a bootstrap has a verified download.
Extract(p) ==
    /\ At(p, "extract")
    /\ \E files \in IF proc[p].op = "bootstrap" THEN {AllAt(Snapshot)}
                    ELSE {archives[i].files : i \in Hashed} :
         /\ Present(files) # {}
         /\ Becomes(p, [proc[p] EXCEPT !.pc = "stop", !.staged = files])
    /\ UNCHANGED <<svc, now, data, temp, archives>>

\* Too little space, a cadence not reached, an archive that does not verify,
\* a unit that cannot be stopped: the operation ends there.
FailsEarly(p) ==
    /\ \/ At(p, "prepare")
       \/ At(p, "extract") /\ (May("extractFails") \/ proc[p].op = "restore")
       \/ At(p, "stop") /\ May("stopFails")
    /\ End(p)
    /\ UNCHANGED <<svc, now, data, temp, archives>>

AfterStop(op) ==
    CASE op = "backup" -> "copy"
      [] op \in {"restore", "bootstrap"} -> "aside"
      [] op = "deploy" -> "build"
      [] OTHER -> "wipe"

\* Resync does not call Stop when it found the node stopped.
Stop(p) ==
    /\ At(p, "stop")
    /\ IF proc[p].op = "resync" /\ ~proc[p].wasActive THEN UNCHANGED svc
       ELSE StopService
    /\ Becomes(p, [proc[p] EXCEPT !.pc = AfterStop(proc[p].op), !.todo = Manifest(p),
                                  !.before = data])
    /\ UNCHANGED <<now, data, temp, archives>>

-----------------------------------------------------------------------------
(* Backup: copy while the node is stopped, start it, then compress.        *)

Copy(p) ==
    /\ At(p, "copy")
    /\ \E f \in proc[p].todo :
         /\ temp' = [temp EXCEPT ![f] = data[f]]
         /\ Becomes(p, Turn(p, f, "start", {}))
    /\ UNCHANGED <<svc, now, data, archives>>

\* Mutant: a failed copy leaves the node down.
CopyFailsStops(p) ==
    /\ At(p, "copy") /\ May("copyFails")
    /\ End(p)
    /\ UNCHANGED <<svc, now, data, temp, archives>>

\* Mutant: what was copied is archived all the same.
CopyFailsArchives(p) ==
    /\ At(p, "copy") /\ May("copyFails")
    /\ Becomes(p, [proc[p] EXCEPT !.pc = "start", !.todo = {}])
    /\ UNCHANGED <<svc, now, data, temp, archives>>

\* The node is restarted if it was running.
CopyFails(p) ==
    /\ At(p, "copy") /\ May("copyFails")
    /\ IF proc[p].wasActive
       THEN Becomes(p, [proc[p] EXCEPT !.pc = "start", !.failed = TRUE])
       ELSE End(p)
    /\ UNCHANGED <<svc, now, data, temp, archives>>

\* The archive and its hash appear together or not at all.
Publish(p) ==
    /\ At(p, "archive")
    /\ archives' = Append(archives,
                         [files |-> temp, kept |-> TRUE, hashed |-> TRUE])
    /\ Goto(p, "prune")
    /\ UNCHANGED <<svc, now, data, temp>>

PublishFails(p) ==
    /\ At(p, "archive") /\ May("archiveFails")
    /\ End(p)
    /\ UNCHANGED <<svc, now, data, temp, archives>>

Finish(p) ==
    /\ At(p, "prune")
    /\ temp' = AllAt(None)
    /\ Prune
    /\ End(p)
    /\ UNCHANGED <<svc, now, data>>

-----------------------------------------------------------------------------
(* Restore and bootstrap: move the folders aside, rename the staged ones   *)
(* into place, and undo that if a step fails.                              *)

Aside(p) ==
    /\ At(p, "aside")
    /\ \E f \in proc[p].todo :
         /\ data' = [data EXCEPT ![f] = None]
         /\ Becomes(p, [Turn(p, f, "install", Manifest(p))
                          EXCEPT !.moved[f] = data[f]])
    /\ UNCHANGED <<svc, now, temp, archives>>

Install(p) ==
    /\ At(p, "install")
    /\ \E f \in proc[p].todo :
         /\ data[f] = None
         /\ data' = [data EXCEPT ![f] = proc[p].staged[f]]
         /\ Becomes(p, Turn(p, f, "start", {}))
    /\ UNCHANGED <<svc, now, temp, archives>>

\* Mutant: only the folders already installed are put back.
InstalledFolders(p) == Present(proc[p].moved) \ proc[p].todo
\* MoveBack has only the folders that were moved to put back.
MovedFolders(p) == Present(proc[p].moved)

\* Mutant: every folder is put back, moved or not.
RollBackAll(p) ==
    Becomes(p, [proc[p] EXCEPT !.pc = "back", !.todo = Manifest(p)])
RollBack(p) ==
    Becomes(p, [proc[p] EXCEPT
        !.pc = IF MovedFolders(p) = {} THEN "restart" ELSE "back",
        !.todo = MovedFolders(p)])

\* A rename fails, over a folder that exists always.
SwapFails(p) ==
    /\ \/ At(p, "aside") /\ May("asideFails")
       \/ At(p, "install") /\ May("installFails")
       \/ At(p, "install") /\ \E f \in proc[p].todo : data[f] # None
    /\ IF proc[p].op = "discard" THEN End(p) ELSE RollBack(p)
    /\ UNCHANGED <<svc, now, data, temp, archives>>

\* MoveBack goes on after a failure; the node is started only if there was
\* none.
PutBackTurn(p, f, state) ==
    IF proc[p].todo = {f} /\ state.failed THEN End(p) ELSE Becomes(p, state)

PutBack(p) ==
    /\ At(p, "back")
    /\ \E f \in proc[p].todo :
         /\ data' = [data EXCEPT ![f] = proc[p].moved[f]]
         /\ PutBackTurn(p, f, [Turn(p, f, "restart", {}) EXCEPT !.moved[f] = None])
    /\ UNCHANGED <<svc, now, temp, archives>>

PutBackFails(p) ==
    /\ At(p, "back") /\ May("putBackFails")
    /\ \E f \in proc[p].todo :
         /\ data' \in {data, [data EXCEPT ![f] = None]}
         /\ PutBackTurn(p, f, [Turn(p, f, "restart", {}) EXCEPT !.failed = TRUE])
    /\ UNCHANGED <<svc, now, temp, archives>>

-----------------------------------------------------------------------------
(* Resync and bootstrap --discard delete the folders; deploy builds.       *)

\* The last folder is dealt with: what follows, and whether anything does.
AfterWipe(p) == IF proc[p].op = "discard" THEN "unpack" ELSE "start"
WipeTurn(p, f, state) ==
    IF /\ proc[p].op = "resync"
       /\ proc[p].todo = {f}
       /\ state.failed \/ ~state.wasActive
    THEN End(p) ELSE Becomes(p, state)

Wipe(p) ==
    /\ At(p, "wipe")
    /\ \E f \in proc[p].todo :
         /\ data' = [data EXCEPT ![f] = None]
         /\ WipeTurn(p, f, Turn(p, f, AfterWipe(p), {}))
    /\ UNCHANGED <<svc, now, temp, archives>>

\* Discard stops at the first failure; Wipe of resync tries the rest.
WipeFails(p) ==
    /\ At(p, "wipe") /\ May("wipeFails")
    /\ \E f \in proc[p].todo :
         IF proc[p].op = "discard" THEN End(p)
         ELSE WipeTurn(p, f, [Turn(p, f, AfterWipe(p), {}) EXCEPT !.failed = TRUE])
    /\ UNCHANGED <<svc, now, data, temp, archives>>

Unpack(p) ==
    /\ At(p, "unpack")
    /\ Becomes(p, [proc[p] EXCEPT !.pc = "install", !.todo = Folders,
                                  !.staged = AllAt(Snapshot)])
    /\ UNCHANGED <<svc, now, data, temp, archives>>

UnpackFails(p) ==
    /\ At(p, "unpack") /\ May("extractFails")
    /\ End(p)
    /\ UNCHANGED <<svc, now, data, temp, archives>>

\* Clone, build and install the binary, write the unit: none of it touches
\* the chain data, and a failure leaves the node stopped.
Build(p) ==
    /\ At(p, "build")
    /\ Goto(p, "start")
    /\ UNCHANGED <<svc, now, data, temp, archives>>

BuildFails(p) ==
    /\ At(p, "build") /\ May("buildFails")
    /\ End(p)
    /\ UNCHANGED <<svc, now, data, temp, archives>>

\* Every operation ends by starting the node, running before or not; only a
\* backup has something left to do.
AtStart(p) == At(p, "start") \/ At(p, "restart")

Start(p) ==
    /\ AtStart(p)
    /\ StartService
    /\ IF proc[p].op = "backup" /\ ~proc[p].failed THEN Goto(p, "archive")
                                                  ELSE End(p)
    /\ UNCHANGED <<now, data, temp, archives>>

StartFails(p) ==
    /\ AtStart(p) /\ May("startFails")
    /\ End(p)
    /\ UNCHANGED <<svc, now, data, temp, archives>>

-----------------------------------------------------------------------------
(* The world around: the node, its owner, and the end of a process.        *)

\* The kernel drops the lock of a process that dies.
Killed(p) ==
    /\ ~At(p, "idle") /\ May("killed")
    /\ End(p)
    /\ UNCHANGED <<svc, now, data, temp, archives>>

Reboot ==
    /\ May("reboot")
    /\ Reboots
    /\ proc' = [p \in Procs |-> IdleProc]
    /\ UNCHANGED <<temp, archives>>

\* What the node writes to a folder still in its place is what the folder
\* holds from then on, for "before" too.
Followed(p) ==
    [f \in Folders |->
        IF proc[p].moved[f] = None /\ proc[p].before[f] = data[f]
        THEN data'[f] ELSE proc[p].before[f]]

NodeRuns ==
    /\ NodeWrites
    /\ proc' = [p \in Procs |->
                  IF At(p, "idle") THEN proc[p]
                  ELSE [proc[p] EXCEPT !.before = Followed(p)]]
    /\ UNCHANGED <<temp, archives>>

Owner ==
    /\ \/ May("nodeDies") /\ (NodeDies \/ SystemdRestarts)
       \/ May("userStarts") /\ UserStarts
       \/ May("userStops") /\ UserStops
    /\ UNCHANGED <<proc, temp, archives>>

Works(p) ==
    \/ Prepare(p) \/ Extract(p) \/ FailsEarly(p) \/ Stop(p)
    \/ Copy(p) \/ CopyFails(p) \/ Publish(p) \/ PublishFails(p) \/ Finish(p)
    \/ Aside(p) \/ Install(p) \/ SwapFails(p) \/ PutBack(p) \/ PutBackFails(p)
    \/ Wipe(p) \/ WipeFails(p) \/ Unpack(p) \/ UnpackFails(p)
    \/ Build(p) \/ BuildFails(p) \/ Start(p) \/ StartFails(p)

Next ==
    \/ \E p \in Procs : Begin(p) \/ Works(p) \/ Killed(p)
    \/ Reboot \/ NodeRuns \/ Owner

Spec == Init /\ [][Next]_vars

\* A process that is not killed goes on to its end.
FairSpec == Spec /\ \A p \in Procs : WF_vars(Works(p))

-----------------------------------------------------------------------------
(* Properties.                                                             *)

\* From the moment a restore or a bootstrap has stopped the node, each folder
\* the node had is in its place or in the safety copy, whatever fails and
\* whoever starts the node meanwhile (MoveAside, install, MoveBack).
Swapping(p) ==
    /\ proc[p].op \in {"restore", "bootstrap"}
    /\ proc[p].pc \in {"aside", "install", "back", "restart", "start"}
NothingLost ==
    \A p \in Procs : Swapping(p) =>
        \A f \in Folders :
            proc[p].before[f] \in {None, data[f], proc[p].moved[f]}

\* Every archive with a hash holds the node's folders as of one moment, so
\* that restoring it gives the node a chain it once had (backup.Run).
ArchivesAreOneState == \A i \in Hashed : Uniform(archives[i].files)

\* The newest MaxBackups archives are always there to be restored from.  A run
\* short of space prunes before it has made its own archive (ensureFreeSpace),
\* and may then fail, be killed, or be followed by one that prunes again.
NewestKept ==
    \A i \in DOMAIN archives : Len(archives) - i < MaxBackups => i \in Hashed

\* The node never runs on folders of different moments (restore.Run,
\* bootstrap.Run: an install is complete or undone before the start).
RunsOnOneState == IsActive => Uniform(data)

\* "the previous data is put back": after MoveBack every folder is as it was,
\* those the archive did not hold included.
RolledBack ==
    \A p \in Procs : At(p, "restart") => data = proc[p].before

\* A restore or bootstrap that stopped the node, and a backup that found it
\* running, has it running again in the end, also when a copy, a move or an
\* install fails.
MustRestart(p) ==
    \/ proc[p].pc \in {"aside", "install", "back"}
    \/ proc[p].pc = "copy" /\ proc[p].wasActive
NodeComesBack == \A p \in Procs : MustRestart(p) ~> IsActive
=============================================================================
