------------------------ MODULE DataOperations_proofs ------------------------
(***************************************************************************)
(* Proofs about the host data operations, for every set of processes and   *)
(* folders, every set of operations and every fault: the types, that the   *)
(* newest archives are kept, one operation at a time, and that no chain    *)
(* data is lost in a swap; and for the operations over whole folder sets,  *)
(* as long as nobody starts the node and no process dies, that folders,    *)
(* copies and archives are of one moment.                                  *)
(***************************************************************************)
EXTENDS DataOperations, FiniteSetTheorems, TLAPS

-----------------------------------------------------------------------------
(* Types.                                                                  *)

\* A folder set as the operations build them: a moment for every folder
\* (AllAt, and the folder-wise updates of data, temp and moved).
LEMMA FilesLemma ==
    ASSUME HostAssumption
    PROVE  /\ None \in Moments /\ Snapshot \in Moments
           /\ \A m \in Moments : AllAt(m) \in Files
           /\ \A d \in Files, f \in Folders, m \in Moments :
                 [d EXCEPT ![f] = m] \in Files
BY DEF HostAssumption, Moments, Files, AllAt

\* IdleProc, the state of a process that runs nothing, is well-typed.
LEMMA IdleType == ASSUME HostAssumption PROVE IdleProc \in ProcState
<1>1. AllAt(None) \in Files
  BY FilesLemma
<1>2. QED
  BY <1>1 DEF IdleProc, ProcState, OpNames, PCs

\* One turn of a loop over folders (copyData, MoveAside, install, MoveBack,
\* Wipe) is well-typed when what follows the loop is.
LEMMA TurnType ==
    ASSUME TypeOK, NEW p \in Procs, NEW f, NEW next \in PCs,
           NEW folders \in SUBSET Folders
    PROVE  Turn(p, f, next, folders) \in ProcState
<1>1. proc[p] \in ProcState
  BY DEF TypeOK
<1>2. QED
  BY <1>1 DEF Turn, ProcState

\* Handing a process a well-typed state, or ending it, keeps proc and lock
\* well-typed (withLock's deferred Release).
LEMMA ProcType ==
    ASSUME HostAssumption, TypeOK, NEW p \in Procs,
           \/ \E s \in ProcState : Becomes(p, s)
           \/ End(p)
    PROVE  proc' \in [Procs -> ProcState] /\ lock' \in Procs \cup {"free"}
<1>1. CASE \E s \in ProcState : Becomes(p, s)
  BY <1>1 DEF Becomes, TypeOK, HostTypeOK
<1>2. CASE End(p)
  BY <1>2, IdleType DEF End, Release, TypeOK, HostTypeOK
<1>3. QED
  BY <1>1, <1>2

\* Prune leaves a sequence of archives.
LEMMA PruneType ==
    ASSUME HostAssumption, TypeOK, Prune
    PROVE  archives' \in Seq(Archive)
<1>1. PICK stuck \in SUBSET Surplus :
        archives' = [i \in DOMAIN archives |->
                       IF i \in Surplus THEN Gone(i \in stuck)
                                        ELSE archives[i]]
  BY DEF Prune
<1>2. \A i \in DOMAIN archives : archives[i] \in Archive
  BY DEF TypeOK
<1>3. \A b \in BOOLEAN : Gone(b) \in Archive
  BY FilesLemma DEF Gone, Archive
<1>4. ASSUME NEW i \in DOMAIN archives
      PROVE  archives'[i] \in Archive
  <2>1. CASE i \in Surplus
    <3>1. archives'[i] = Gone(i \in stuck)
      BY <1>1, <2>1, Zenon
    <3>2. (i \in stuck) \in BOOLEAN
      OBVIOUS
    <3>3. Gone(i \in stuck) \in Archive
      BY <1>3, <3>2, Zenon
    <3>4. QED
      BY <3>1, <3>3
  <2>2. CASE i \notin Surplus
    <3>1. archives'[i] = archives[i]
      BY <1>1, <2>2, Zenon
    <3>2. QED
      BY <1>2, <3>1
  <2>3. QED
    BY <2>1, <2>2
<1>5. DOMAIN archives' = 1 .. Len(archives) /\ Len(archives) \in Nat
  BY <1>1 DEF TypeOK
<1>6. QED
  BY <1>1, <1>4, <1>5

\* What the operations write to folders stays a set of moments.
LEMMA HostType ==
    ASSUME HostAssumption, HostTypeOK
    PROVE  /\ NodeWrites => HostTypeOK'
           /\ NodeDies \/ SystemdRestarts \/ UserStarts \/ UserStops => HostTypeOK'
           /\ Reboots => HostTypeOK'
<1>1. ASSUME NodeWrites PROVE HostTypeOK'
  <2>1. now + 1 \in 0 .. MaxMoment
    BY <1>1 DEF NodeWrites, HostTypeOK, HostAssumption
  <2>2. AllAt(now + 1) \in Files
    BY <2>1, FilesLemma DEF Moments
  <2>3. QED
    BY <1>1, <2>1, <2>2 DEF NodeWrites, HostTypeOK
<1>2. NodeDies \/ SystemdRestarts \/ UserStarts \/ UserStops => HostTypeOK'
  BY DEF NodeDies, SystemdRestarts, UserStarts, UserStops, StartService,
         StopService, IsActive, HostTypeOK
<1>3. Reboots => HostTypeOK'
  BY DEF Reboots, HostTypeOK
<1>4. QED
  BY <1>1, <1>2, <1>3

\* Starting and stopping the unit.
LEMMA ServiceType ==
    ASSUME HostTypeOK, StartService \/ StopService \/ UNCHANGED svc
    PROVE  svc' \in {"active", "inactive", "activating"}
BY DEF StartService, StopService, IsActive, HostTypeOK

\* A step of a process is well-typed when what it writes is.
LEMMA StepType ==
    ASSUME HostAssumption, TypeOK, NEW p \in Procs,
           (\E s \in ProcState : Becomes(p, s)) \/ End(p),
           svc' \in {"active", "inactive", "activating"}, UNCHANGED now,
           data' \in Files, temp' \in Files, archives' \in Seq(Archive)
    PROVE  TypeOK'
BY ProcType DEF TypeOK, HostTypeOK

\* Begin, Prepare, Extract, Stop and the early returns.
LEMMA PreludeTypes ==
    ASSUME HostAssumption, OperationsAssumption, TypeOK, NEW p \in Procs,
           Begin(p) \/ Prepare(p) \/ Extract(p) \/ FailsEarly(p) \/ Stop(p)
    PROVE  TypeOK'
<1> USE DEF PCs
<1>a. proc[p] \in ProcState /\ IdleProc \in ProcState /\ data \in Files
  BY IdleType DEF TypeOK, HostTypeOK
<1>b. AllAt(None) \in Files /\ AllAt(Snapshot) \in Files
  BY FilesLemma
<1>c. \A i \in DOMAIN archives : archives[i].files \in Files
  <2>1. \A i \in DOMAIN archives : archives[i] \in Archive
    BY DEF TypeOK
  <2>2. QED
    BY <2>1 DEF Archive
<1>1. CASE Begin(p)
  <2>1. PICK op \in Ops :
          proc' = [proc EXCEPT ![p] = [IdleProc EXCEPT
                     !.op = op, !.pc = First(op), !.wasActive = IsActive]]
    BY <1>1 DEF Begin
  <2>2. First(op) \in PCs /\ op \in OpNames /\ IsActive \in BOOLEAN
    BY DEF First, IsActive, OperationsAssumption
  <2>3. [IdleProc EXCEPT !.op = op, !.pc = First(op), !.wasActive = IsActive]
           \in ProcState
    BY <1>a, <2>2 DEF ProcState
  <2>4. proc' \in [Procs -> ProcState]
    BY <2>1, <2>3 DEF TypeOK
  <2>5. QED
    BY <1>1, <2>4 DEF Begin, Acquire, TypeOK, HostTypeOK
<1>2. CASE Prepare(p)
  <2>1. [proc[p] EXCEPT !.pc = "stop", !.wasActive = IsActive] \in ProcState
    <3>1. IsActive \in BOOLEAN
      BY DEF IsActive
    <3>2. QED
      BY <1>a, <3>1 DEF ProcState
  <2>2. archives' \in Seq(Archive)
    BY <1>2, PruneType DEF Prepare, TypeOK
  <2>3. QED
    BY <1>2, <1>b, <2>1, <2>2, StepType DEF Prepare, TypeOK, HostTypeOK
<1>3. CASE Extract(p)
  <2>1. PICK files \in Files :
          Becomes(p, [proc[p] EXCEPT !.pc = "stop", !.staged = files])
    BY <1>3, <1>b, <1>c DEF Extract, Hashed
  <2>2. [proc[p] EXCEPT !.pc = "stop", !.staged = files] \in ProcState
    BY <1>a DEF ProcState
  <2>3. QED
    BY <1>3, <2>1, <2>2, StepType DEF Extract, TypeOK, HostTypeOK
<1>4. CASE FailsEarly(p)
  BY <1>4, StepType DEF FailsEarly, TypeOK, HostTypeOK
<1>5. CASE Stop(p)
  <2>1. Manifest(p) \in SUBSET Folders
    BY DEF Manifest, Present
  <2>2. AfterStop(proc[p].op) \in PCs
    BY DEF AfterStop
  <2>3. [proc[p] EXCEPT !.pc = AfterStop(proc[p].op), !.todo = Manifest(p),
                        !.before = data] \in ProcState
    BY <1>a, <2>1, <2>2 DEF ProcState
  <2>4. svc' \in {"active", "inactive", "activating"}
    BY <1>5, ServiceType DEF Stop, TypeOK
  <2>5. QED
    BY <1>5, <2>3, <2>4, StepType DEF Stop, TypeOK, HostTypeOK
<1>6. QED
  BY <1>1, <1>2, <1>3, <1>4, <1>5

\* The backup's own steps.
LEMMA BackupTypes ==
    ASSUME HostAssumption, TypeOK, NEW p \in Procs,
           \/ Copy(p) \/ CopyFails(p) \/ Publish(p) \/ PublishFails(p)
           \/ Finish(p)
    PROVE  TypeOK'
<1> USE DEF PCs
<1>a. proc[p] \in ProcState /\ data \in Files /\ temp \in Files
  BY DEF TypeOK, HostTypeOK
<1>1. CASE Copy(p)
  <2>1. PICK f \in Folders : /\ temp' = [temp EXCEPT ![f] = data[f]]
                             /\ Becomes(p, Turn(p, f, "start", {}))
    BY <1>1, <1>a DEF Copy, ProcState
  <2>2. temp' \in Files
    BY <2>1, <1>a, FilesLemma DEF Files
  <2>3. Turn(p, f, "start", {}) \in ProcState
    BY TurnType
  <2>4. QED
    BY <1>1, <2>1, <2>2, <2>3, StepType DEF Copy, TypeOK, HostTypeOK
<1>2. CASE CopyFails(p)
  <2>1. [proc[p] EXCEPT !.pc = "start", !.failed = TRUE] \in ProcState
    BY <1>a DEF ProcState
  <2>2. QED
    BY <1>2, <2>1, StepType DEF CopyFails, TypeOK, HostTypeOK
<1>3. CASE Publish(p)
  <2>1. [files |-> temp, kept |-> TRUE, hashed |-> TRUE] \in Archive
    BY <1>a DEF Archive
  <2>2. archives' \in Seq(Archive)
    BY <1>3, <2>1 DEF Publish, TypeOK
  <2>3. Becomes(p, [proc[p] EXCEPT !.pc = "prune"])
    BY <1>3 DEF Publish, Goto, Becomes
  <2>4. [proc[p] EXCEPT !.pc = "prune"] \in ProcState
    BY <1>a DEF ProcState
  <2>5. QED
    BY <1>3, <2>2, <2>3, <2>4, StepType DEF Publish, TypeOK, HostTypeOK
<1>4. CASE PublishFails(p)
  BY <1>4, StepType DEF PublishFails, TypeOK, HostTypeOK
<1>5. CASE Finish(p)
  <2>1. temp' \in Files
    BY <1>5, FilesLemma DEF Finish
  <2>2. archives' \in Seq(Archive)
    BY <1>5, PruneType DEF Finish
  <2>3. QED
    BY <1>5, <2>1, <2>2, StepType DEF Finish, TypeOK, HostTypeOK
<1>6. QED
  BY <1>1, <1>2, <1>3, <1>4, <1>5

\* The swap: Aside, Install, SwapFails, PutBack, PutBackFails.
LEMMA SwapTypes ==
    ASSUME HostAssumption, TypeOK, NEW p \in Procs,
           \/ Aside(p) \/ Install(p) \/ SwapFails(p) \/ PutBack(p)
           \/ PutBackFails(p)
    PROVE  TypeOK'
<1> USE DEF PCs
<1>a. proc[p] \in ProcState /\ data \in Files
  BY DEF TypeOK, HostTypeOK
<1>b. /\ proc[p].staged \in Files /\ proc[p].moved \in Files
      /\ proc[p].todo \subseteq Folders
  BY <1>a DEF ProcState
<1>c. \A f \in Folders : /\ data[f] \in Moments
                         /\ proc[p].staged[f] \in Moments
                         /\ proc[p].moved[f] \in Moments
  BY <1>a, <1>b DEF Files
<1>d. Manifest(p) \in SUBSET Folders /\ MovedFolders(p) \in SUBSET Folders
  BY DEF Manifest, MovedFolders, Present
<1>1. CASE Aside(p)
  <2>1. PICK f \in Folders :
          /\ data' = [data EXCEPT ![f] = None]
          /\ Becomes(p, [Turn(p, f, "install", Manifest(p))
                            EXCEPT !.moved[f] = data[f]])
    BY <1>1, <1>b DEF Aside
  <2>2. Turn(p, f, "install", Manifest(p)) \in ProcState
    BY <1>d, TurnType
  <2>3. [Turn(p, f, "install", Manifest(p)) EXCEPT !.moved[f] = data[f]]
           \in ProcState
    BY <1>c, <2>2 DEF ProcState, Files
  <2>4. data' \in Files
    BY <1>a, <2>1, FilesLemma
  <2>5. QED
    BY <1>1, <2>1, <2>3, <2>4, StepType DEF Aside, TypeOK, HostTypeOK
<1>2. CASE Install(p)
  <2>1. PICK f \in Folders :
          /\ data' = [data EXCEPT ![f] = proc[p].staged[f]]
          /\ Becomes(p, Turn(p, f, "start", {}))
    BY <1>2, <1>b DEF Install
  <2>2. Turn(p, f, "start", {}) \in ProcState
    BY TurnType
  <2>3. data' \in Files
    BY <1>a, <1>c, <2>1, FilesLemma
  <2>4. QED
    BY <1>2, <2>1, <2>2, <2>3, StepType DEF Install, TypeOK, HostTypeOK
<1>3. CASE SwapFails(p)
  <2>1. [proc[p] EXCEPT
           !.pc = IF MovedFolders(p) = {} THEN "restart" ELSE "back",
           !.todo = MovedFolders(p)] \in ProcState
    BY <1>a, <1>d DEF ProcState
  <2>2. QED
    BY <1>3, <2>1, StepType DEF SwapFails, RollBack, TypeOK, HostTypeOK
<1>4. CASE PutBack(p)
  <2>1. PICK f \in Folders :
          /\ data' = [data EXCEPT ![f] = proc[p].moved[f]]
          /\ PutBackTurn(p, f,
               [Turn(p, f, "restart", {}) EXCEPT !.moved[f] = None])
    BY <1>4, <1>b DEF PutBack
  <2>2. Turn(p, f, "restart", {}) \in ProcState
    BY TurnType
  <2>3. [Turn(p, f, "restart", {}) EXCEPT !.moved[f] = None] \in ProcState
    BY <2>2, FilesLemma DEF ProcState, Files
  <2>4. data' \in Files
    BY <1>a, <1>c, <2>1, FilesLemma
  <2>5. QED
    BY <1>4, <2>1, <2>3, <2>4, StepType
    DEF PutBack, PutBackTurn, TypeOK, HostTypeOK
<1>5. CASE PutBackFails(p)
  <2>1. PICK f \in Folders :
          /\ data' \in {data, [data EXCEPT ![f] = None]}
          /\ PutBackTurn(p, f,
               [Turn(p, f, "restart", {}) EXCEPT !.failed = TRUE])
    BY <1>5, <1>b DEF PutBackFails
  <2>2. Turn(p, f, "restart", {}) \in ProcState
    BY TurnType
  <2>3. [Turn(p, f, "restart", {}) EXCEPT !.failed = TRUE] \in ProcState
    BY <2>2 DEF ProcState
  <2>4. data' \in Files
    BY <1>a, <2>1, FilesLemma
  <2>5. QED
    BY <1>5, <2>1, <2>3, <2>4, StepType
    DEF PutBackFails, PutBackTurn, TypeOK, HostTypeOK
<1>6. QED
  BY <1>1, <1>2, <1>3, <1>4, <1>5

\* Resync, discard, deploy and the start every operation ends with.
LEMMA OtherTypes ==
    ASSUME HostAssumption, TypeOK, NEW p \in Procs,
           \/ Wipe(p) \/ WipeFails(p) \/ Unpack(p) \/ UnpackFails(p)
           \/ Build(p) \/ BuildFails(p) \/ Start(p) \/ StartFails(p)
    PROVE  TypeOK'
<1> USE DEF PCs
<1>a. proc[p] \in ProcState /\ data \in Files
  BY DEF TypeOK, HostTypeOK
<1>b. proc[p].todo \subseteq Folders
  BY <1>a DEF ProcState
<1>c. \A f : Turn(p, f, AfterWipe(p), {}) \in ProcState
  BY TurnType DEF AfterWipe
<1>1. CASE Wipe(p)
  <2>1. PICK f \in Folders :
          /\ data' = [data EXCEPT ![f] = None]
          /\ WipeTurn(p, f, Turn(p, f, AfterWipe(p), {}))
    BY <1>1, <1>b DEF Wipe
  <2>2. data' \in Files
    BY <1>a, <2>1, FilesLemma
  <2>3. QED
    BY <1>1, <1>c, <2>1, <2>2, StepType DEF Wipe, WipeTurn, TypeOK, HostTypeOK
<1>2. CASE WipeFails(p)
  <2>1. \A f : [Turn(p, f, AfterWipe(p), {}) EXCEPT !.failed = TRUE] \in ProcState
    BY <1>c DEF ProcState
  <2>2. QED
    BY <1>2, <2>1, StepType DEF WipeFails, WipeTurn, TypeOK, HostTypeOK
<1>3. CASE Unpack(p)
  <2>1. [proc[p] EXCEPT !.pc = "install", !.todo = Folders,
                        !.staged = AllAt(Snapshot)] \in ProcState
    BY <1>a, FilesLemma DEF ProcState
  <2>2. QED
    BY <1>3, <2>1, StepType DEF Unpack, TypeOK, HostTypeOK
<1>4. CASE UnpackFails(p) \/ BuildFails(p) \/ StartFails(p)
  BY <1>4, StepType DEF UnpackFails, BuildFails, StartFails, TypeOK, HostTypeOK
<1>5. CASE Build(p)
  <2>1. Becomes(p, [proc[p] EXCEPT !.pc = "start"])
    BY <1>5 DEF Build, Goto, Becomes
  <2>2. [proc[p] EXCEPT !.pc = "start"] \in ProcState
    BY <1>a DEF ProcState
  <2>3. QED
    BY <1>5, <2>1, <2>2, StepType DEF Build, TypeOK, HostTypeOK
<1>6. CASE Start(p)
  <2>1. Goto(p, "archive") => Becomes(p, [proc[p] EXCEPT !.pc = "archive"])
    BY DEF Goto, Becomes
  <2>2. [proc[p] EXCEPT !.pc = "archive"] \in ProcState
    BY <1>a DEF ProcState
  <2>3. QED
    BY <1>6, <2>1, <2>2, StepType, ServiceType DEF Start, TypeOK, HostTypeOK
<1>7. QED
  BY <1>1, <1>2, <1>3, <1>4, <1>5, <1>6

\* The node, its owner, kills and reboots.
LEMMA WorldTypes ==
    ASSUME HostAssumption, TypeOK,
           \/ \E p \in Procs : Killed(p)
           \/ Reboot \/ NodeRuns \/ Owner
    PROVE  TypeOK'
<1>1. CASE \E p \in Procs : Killed(p)
  BY <1>1, StepType DEF Killed, TypeOK, HostTypeOK
<1>2. CASE Reboot
  BY <1>2, HostType, IdleType DEF Reboot, TypeOK
<1>3. CASE NodeRuns
  <2>1. HostTypeOK'
    BY <1>3, HostType DEF NodeRuns, TypeOK
  <2>2. ASSUME NEW p \in Procs
        PROVE  [proc[p] EXCEPT !.before = Followed(p)] \in ProcState
    <3>1. proc[p] \in ProcState
      BY DEF TypeOK
    <3>2. proc[p].before \in Files /\ data' \in Files
      BY <2>1, <3>1 DEF ProcState, HostTypeOK
    <3>3. Followed(p) \in Files
      BY <3>2 DEF Followed, Files
    <3>4. QED
      BY <3>1, <3>3 DEF ProcState
  <2>3. proc' \in [Procs -> ProcState]
    BY <1>3, <2>2 DEF NodeRuns, TypeOK
  <2>4. QED
    BY <1>3, <2>1, <2>3 DEF NodeRuns, TypeOK
<1>4. CASE Owner
  BY <1>4, HostType DEF Owner, TypeOK
<1>5. QED
  BY <1>1, <1>2, <1>3, <1>4

(***************************************************************************)
(* The unit, the folders, the archives and every process are well-typed    *)
(* in every reachable state.                                               *)
(***************************************************************************)
THEOREM HostTypes == Spec => []TypeOK
<1> USE HostAssumption, OperationsAssumption
<1>1. Init => TypeOK
  <2>1. \A m \in Moments : AllAt(m) \in Files
    BY FilesLemma
  <2>2. 0 \in Moments /\ None \in Moments
    BY FilesLemma DEF HostAssumption, Moments
  <2>3. QED
    BY <2>1, <2>2, IdleType DEF Init, HostInit, TypeOK, HostTypeOK, HostAssumption
<1>2. TypeOK /\ [Next]_vars => TypeOK'
  <2> SUFFICES ASSUME TypeOK, [Next]_vars PROVE TypeOK'
    OBVIOUS
  <2>1. CASE UNCHANGED vars
    BY <2>1 DEF vars, hostVars, TypeOK, HostTypeOK
  <2>2. ASSUME NEW p \in Procs, Begin(p) \/ Works(p) PROVE TypeOK'
    BY <2>2, PreludeTypes, BackupTypes, SwapTypes, OtherTypes DEF Works
  <2>3. CASE (\E p \in Procs : Killed(p)) \/ Reboot \/ NodeRuns \/ Owner
    BY <2>3, WorldTypes
  <2>4. QED
    BY <2>1, <2>2, <2>3 DEF Next
<1>3. QED
  BY <1>1, <1>2, PTL DEF Spec

-----------------------------------------------------------------------------
(* The newest archives.                                                    *)

\* Only publishing and pruning change the archives.
LEMMA ArchiveSteps ==
    ASSUME [Next]_vars
    PROVE  \/ UNCHANGED archives
           \/ Prune
           \/ archives' = Append(archives,
                              [files |-> temp, kept |-> TRUE, hashed |-> TRUE])
<1>1. ASSUME NEW p \in Procs, Begin(p) \/ Works(p) \/ Killed(p)
      PROVE  \/ UNCHANGED archives
             \/ Prune
             \/ archives' = Append(archives,
                                [files |-> temp, kept |-> TRUE, hashed |-> TRUE])
  BY <1>1
  DEF Begin, Works, Killed, Prepare, Extract, FailsEarly, Stop, Copy, CopyFails,
      Publish, PublishFails, Finish, Aside, Install, SwapFails, PutBack,
      PutBackFails, Wipe, WipeFails, Unpack, UnpackFails, Build, BuildFails,
      Start, StartFails
<1> QED
  BY <1>1 DEF Next, vars, Reboot, NodeRuns, Owner

\* Of the newest MaxBackups archives none has as many newer ones, so none is
\* selected (SelectForPruning), whatever incomplete archives List leaves out.
LEMMA NewestNotSurplus ==
    ASSUME OperationsAssumption, TypeOK, NEW i \in DOMAIN archives,
           Len(archives) - i < MaxBackups
    PROVE  i \notin Surplus
<1> DEFINE len == Len(archives)
<1>1. /\ len \in Nat /\ i \in 1 .. len /\ DOMAIN archives = 1 .. len
      /\ MaxBackups \in Nat
  BY DEF TypeOK, OperationsAssumption
<1> HIDE DEF len
<1>2. IsFiniteSet(i + 1 .. len) /\ Cardinality(i + 1 .. len) = len - i
  <2>1. i + 1 \in Int /\ len \in Int /\ len - (i + 1) + 1 = len - i
    BY <1>1
  <2>2. /\ IsFiniteSet(i + 1 .. len)
        /\ Cardinality(i + 1 .. len) =
              IF i + 1 > len THEN 0 ELSE len - (i + 1) + 1
    BY <2>1, FS_Interval
  <2> QED
    BY <1>1, <2>1, <2>2
<1>3. Newer(i) \subseteq i + 1 .. len
  BY <1>1 DEF Newer, Hashed
<1>4. Cardinality(Newer(i)) <= len - i /\ Cardinality(Newer(i)) \in Nat
  <2>1. /\ IsFiniteSet(Newer(i))
        /\ Cardinality(Newer(i)) <= Cardinality(i + 1 .. len)
    BY <1>2, <1>3, FS_Subset
  <2> QED
    BY <1>2, <2>1, FS_CardinalityType
<1>5. ~(Cardinality(Newer(i)) >= MaxBackups)
  BY <1>1, <1>4 DEF len
<1> QED
  BY <1>5 DEF Surplus

\* Publishing makes the others older by one, pruning spares the newest.
LEMMA NewestStay ==
    ASSUME HostAssumption, OperationsAssumption, TypeOK, NewestKept, [Next]_vars
    PROVE  NewestKept'
<1>0. /\ archives \in Seq(Archive) /\ Len(archives) \in Nat /\ MaxBackups \in Nat
      /\ DOMAIN archives = 1 .. Len(archives)
  BY DEF TypeOK, OperationsAssumption
<1>1. CASE UNCHANGED archives
  BY <1>1 DEF NewestKept, Hashed
<1>2. CASE Prune
  <2>1. PICK stuck \in SUBSET Surplus :
          archives' = [i \in DOMAIN archives |->
                         IF i \in Surplus THEN Gone(i \in stuck) ELSE archives[i]]
    BY <1>2 DEF Prune
  <2>2. archives' \in Seq(Archive)
    BY <1>2, PruneType
  <2>3. DOMAIN archives' = DOMAIN archives /\ Len(archives') = Len(archives)
    BY <1>0, <2>1, <2>2
  <2>4. ASSUME NEW i \in DOMAIN archives, Len(archives) - i < MaxBackups
        PROVE  i \in Hashed'
    <3>1. i \in Hashed
      BY <2>4 DEF NewestKept
    <3>2. i \notin Surplus
      BY <2>4, NewestNotSurplus
    <3>3. archives'[i] = archives[i]
      BY <2>1, <3>2
    <3> QED
      BY <2>3, <3>1, <3>3 DEF Hashed
  <2> QED
    BY <2>3, <2>4 DEF NewestKept
<1>3. CASE archives' = Append(archives,
                           [files |-> temp, kept |-> TRUE, hashed |-> TRUE])
  <2> DEFINE new == [files |-> temp, kept |-> TRUE, hashed |-> TRUE]
  <2>1. /\ DOMAIN archives' = 1 .. Len(archives) + 1
        /\ Len(archives') = Len(archives) + 1
        /\ archives'[Len(archives) + 1] = new
        /\ \A i \in DOMAIN archives : archives'[i] = archives[i]
    BY <1>0, <1>3
  <2>2. ASSUME NEW i \in DOMAIN archives', Len(archives') - i < MaxBackups
        PROVE  i \in Hashed'
    <3>1. CASE i = Len(archives) + 1
      BY <2>1, <3>1 DEF Hashed
    <3>2. CASE i # Len(archives) + 1
      <4>1. i \in DOMAIN archives /\ Len(archives) - i < MaxBackups
        BY <1>0, <2>1, <2>2, <3>2
      <4>2. i \in Hashed /\ archives'[i] = archives[i]
        BY <2>1, <4>1 DEF NewestKept
      <4> QED
        BY <2>2, <4>2 DEF Hashed
    <3> QED
      BY <3>1, <3>2
  <2> QED
    BY <2>2 DEF NewestKept
<1> QED
  BY <1>1, <1>2, <1>3, ArchiveSteps

(***************************************************************************)
(* Whatever fails, is killed or is done twice, the newest MaxBackups       *)
(* archives are there with their hashes: Prune, also the one a run makes   *)
(* for want of space before it has an archive of its own, removes none of  *)
(* them (ensureFreeSpace, SelectForPruning).                               *)
(***************************************************************************)
THEOREM NewestStayKept == Spec => []NewestKept
<1> USE HostAssumption, OperationsAssumption
<1>1. Init => NewestKept
  BY DEF Init, NewestKept
<1>2. TypeOK /\ NewestKept /\ [Next]_vars => NewestKept'
  BY NewestStay
<1> QED
  BY <1>1, <1>2, HostTypes, PTL DEF Spec

-----------------------------------------------------------------------------
(* Nothing is lost.                                                        *)

\* A process at work holds the lock.
Exclusive == \A p \in Procs : ~At(p, "idle") => lock = p

\* No safety copy is made before the node is stopped.
NothingMoved(p) ==
    proc[p].pc \in {"prepare", "extract", "stop"} => proc[p].moved = AllAt(None)

\* A copy, a wipe and a build are never steps of a swap.
NotASwap(p) ==
    proc[p].pc \in {"copy", "wipe", "unpack", "build"} =>
        proc[p].op \notin {"restore", "bootstrap"}

\* During a swap: a folder with a safety copy has what it held there, one
\* without has it in its place; what is to be moved aside has no copy yet,
\* and what is to be put back has one.
FolderSafe(p, f) ==
    /\ proc[p].moved[f] # None => proc[p].before[f] \in {None, proc[p].moved[f]}
    /\ proc[p].moved[f] = None => proc[p].before[f] \in {None, data[f]}
    /\ At(p, "aside") /\ f \in proc[p].todo => proc[p].moved[f] = None
    /\ At(p, "back") /\ f \in proc[p].todo => proc[p].moved[f] # None

SwapSafe(p) ==
    /\ NothingMoved(p) /\ NotASwap(p)
    /\ (Swapping(p) => \A f \in Folders : FolderSafe(p, f))

HostInv == TypeOK /\ Exclusive /\ \A p \in Procs : SwapSafe(p)

\* The lock leaves room for one operation (withLock).
LEMMA OthersIdle ==
    ASSUME HostAssumption, HostInv, NEW p \in Procs,
           ~At(p, "idle") \/ lock = "free"
    PROVE  \A q \in Procs \ {p} : At(q, "idle")
BY DEF HostInv, Exclusive, HostAssumption

\* An idle process is in no swap.
LEMMA IdleSafe ==
    ASSUME NEW p \in Procs, proc'[p].pc = "idle"
    PROVE  SwapSafe(p)'
BY DEF SwapSafe, NothingMoved, NotASwap, Swapping

\* Only the process that moves need be looked at.
LEMMA MoverSafe ==
    ASSUME HostAssumption, HostInv, NEW p \in Procs, ~At(p, "idle"), NEW s,
           Becomes(p, s), SwapSafe(p)'
    PROVE  Exclusive' /\ \A q \in Procs : SwapSafe(q)'
<1>1. \A q \in Procs \ {p} : At(q, "idle") /\ proc'[q] = proc[q]
  BY OthersIdle DEF Becomes, HostInv, TypeOK
<1>2. Exclusive'
  BY <1>1 DEF Exclusive, HostInv, At, Becomes
<1>3. \A q \in Procs \ {p} : SwapSafe(q)'
  BY <1>1, IdleSafe DEF At
<1>4. QED
  BY <1>2, <1>3

\* A process that ends leaves all of them idle and the lock free.
LEMMA EndSafe ==
    ASSUME HostAssumption, HostInv, NEW p \in Procs, ~At(p, "idle"), End(p)
    PROVE  Exclusive' /\ \A q \in Procs : SwapSafe(q)'
<1>1. \A q \in Procs : proc'[q].pc = "idle"
  BY OthersIdle DEF End, HostInv, TypeOK, At, IdleProc
<1>2. QED
  BY <1>1, IdleSafe DEF Exclusive, At

\* Steps up to the stop, which takes the history and finds no copy made.
LEMMA PreludeSafe ==
    ASSUME HostAssumption, HostInv, NEW p \in Procs,
           Begin(p) \/ Prepare(p) \/ Extract(p) \/ FailsEarly(p) \/ Stop(p)
    PROVE  Exclusive' /\ \A q \in Procs : SwapSafe(q)'
<1>a. proc[p] \in ProcState /\ SwapSafe(p)
  BY DEF HostInv, TypeOK
<1>1. CASE Begin(p)
  <2>1. PICK op \in Ops :
          proc' = [proc EXCEPT ![p] = [IdleProc EXCEPT
                     !.op = op, !.pc = First(op), !.wasActive = IsActive]]
    BY <1>1 DEF Begin
  <2>2. \A q \in Procs \ {p} : At(q, "idle") /\ proc'[q] = proc[q]
    BY <1>1, <2>1, OthersIdle DEF Begin, Acquire, HostInv, TypeOK
  <2>3. proc'[p].pc \in {"prepare", "extract", "stop"} /\ proc'[p].moved = AllAt(None)
    BY <2>1 DEF HostInv, TypeOK, IdleProc, First
  <2>4. SwapSafe(p)'
    BY <2>3 DEF SwapSafe, NothingMoved, NotASwap, Swapping, AllAt
  <2>5. \A q \in Procs \ {p} : SwapSafe(q)'
    BY <2>2, IdleSafe DEF At
  <2>6. Exclusive'
    BY <1>1, <2>2 DEF Exclusive, Begin, Acquire, At
  <2>7. QED
    BY <2>4, <2>5, <2>6
<1>2. CASE Prepare(p)
  <2>1. Becomes(p, [proc[p] EXCEPT !.pc = "stop", !.wasActive = IsActive])
    BY <1>2 DEF Prepare
  <2>2. proc'[p].pc = "stop" /\ proc'[p].moved = AllAt(None)
    BY <1>2, <1>a, <2>1
    DEF Prepare, At, Becomes, HostInv, TypeOK, ProcState, SwapSafe, NothingMoved
  <2>3. SwapSafe(p)'
    BY <2>2 DEF SwapSafe, NothingMoved, NotASwap, Swapping, AllAt
  <2>4. QED
    BY <1>2, <2>1, <2>3, MoverSafe DEF Prepare, At
<1>3. CASE Extract(p)
  <2>1. PICK files : Becomes(p, [proc[p] EXCEPT !.pc = "stop", !.staged = files])
    BY <1>3 DEF Extract
  <2>2. proc'[p].pc = "stop" /\ proc'[p].moved = AllAt(None)
    BY <1>3, <1>a, <2>1
    DEF Extract, At, Becomes, HostInv, TypeOK, ProcState, SwapSafe, NothingMoved
  <2>3. SwapSafe(p)'
    BY <2>2 DEF SwapSafe, NothingMoved, NotASwap, Swapping, AllAt
  <2>4. QED
    BY <1>3, <2>1, <2>3, MoverSafe DEF Extract, At
<1>4. CASE FailsEarly(p)
  BY <1>4, EndSafe DEF FailsEarly, At
<1>5. CASE Stop(p)
  <2> DEFINE s == [proc[p] EXCEPT !.pc = AfterStop(proc[p].op),
                                  !.todo = Manifest(p), !.before = data]
  <2>1. Becomes(p, s) /\ UNCHANGED data
    BY <1>5 DEF Stop
  <2>2. /\ proc'[p].op = proc[p].op
        /\ proc'[p].pc = AfterStop(proc[p].op)
        /\ proc'[p].before = data
        /\ proc'[p].moved = AllAt(None)
    BY <1>5, <1>a, <2>1
    DEF Stop, At, Becomes, HostInv, TypeOK, ProcState, SwapSafe, NothingMoved
  <2>3. NothingMoved(p)' /\ NotASwap(p)'
    BY <2>2 DEF NothingMoved, NotASwap, AfterStop, AllAt
  <2>4. ASSUME Swapping(p)', NEW f \in Folders PROVE FolderSafe(p, f)'
    <3>1. proc'[p].pc = "aside"
      BY <2>2, <2>4 DEF Swapping, AfterStop
    <3>2. proc'[p].moved[f] = None
      BY <2>2 DEF AllAt
    <3>3. QED
      BY <2>1, <2>2, <3>1, <3>2 DEF FolderSafe, At
  <2>5. SwapSafe(p)'
    BY <2>3, <2>4 DEF SwapSafe
  <2>6. QED
    BY <1>5, <2>1, <2>5, MoverSafe DEF Stop, At
<1>6. QED
  BY <1>1, <1>2, <1>3, <1>4, <1>5

\* A step that leaves its process in no swap.
LEMMA NoSwapSafe ==
    ASSUME HostAssumption, HostInv, NEW p \in Procs, ~At(p, "idle"), NEW s,
           Becomes(p, s),
           s.pc \notin {"prepare", "extract", "stop"},
           \/ s.op \notin {"restore", "bootstrap"}
           \/ s.pc \in {"archive", "prune"}
    PROVE  Exclusive' /\ \A q \in Procs : SwapSafe(q)'
<1>1. proc'[p] = s
  BY DEF Becomes, HostInv, TypeOK
<1>2. SwapSafe(p)'
  BY <1>1 DEF SwapSafe, NothingMoved, NotASwap, Swapping
<1>3. QED
  BY <1>2, MoverSafe

\* Copying, wiping, building and starting.
LEMMA OtherSafe ==
    ASSUME HostAssumption, HostInv, NEW p \in Procs,
           \/ Copy(p) \/ CopyFails(p) \/ Publish(p) \/ PublishFails(p) \/ Finish(p)
           \/ Wipe(p) \/ WipeFails(p) \/ Unpack(p) \/ UnpackFails(p)
           \/ Build(p) \/ BuildFails(p) \/ Start(p) \/ StartFails(p)
    PROVE  Exclusive' /\ \A q \in Procs : SwapSafe(q)'
<1>a. proc[p] \in ProcState /\ SwapSafe(p)
  BY DEF HostInv, TypeOK
<1>b. proc[p].pc \in {"copy", "wipe", "unpack", "build"} =>
        proc[p].op \notin {"restore", "bootstrap"}
  BY <1>a DEF SwapSafe, NotASwap
<1>1. CASE Copy(p)
  <2>1. PICK f : Becomes(p, Turn(p, f, "start", {}))
    BY <1>1 DEF Copy
  <2>2. /\ Turn(p, f, "start", {}).op = proc[p].op
        /\ Turn(p, f, "start", {}).pc \in {"copy", "start"}
    BY <1>1, <1>a DEF Copy, At, Turn, ProcState
  <2>3. QED
    BY <1>1, <1>b, <2>1, <2>2, NoSwapSafe DEF Copy, At
<1>2. CASE CopyFails(p)
  <2> DEFINE s == [proc[p] EXCEPT !.pc = "start", !.failed = TRUE]
  <2>1. s.op = proc[p].op /\ s.pc = "start"
    BY <1>a DEF ProcState
  <2>2. Becomes(p, s) \/ End(p)
    BY <1>2 DEF CopyFails
  <2> HIDE DEF s
  <2>3. QED
    BY <1>2, <1>b, <2>1, <2>2, NoSwapSafe, EndSafe DEF CopyFails, At
<1>3. CASE Publish(p)
  <2> DEFINE s == [proc[p] EXCEPT !.pc = "prune"]
  <2>1. Becomes(p, s)
    BY <1>3 DEF Publish, Goto, Becomes
  <2>2. s.pc = "prune"
    BY <1>a DEF ProcState
  <2> HIDE DEF s
  <2>3. QED
    BY <1>3, <2>1, <2>2, NoSwapSafe DEF Publish, At
<1>4. CASE \/ PublishFails(p) \/ Finish(p) \/ UnpackFails(p) \/ BuildFails(p)
           \/ StartFails(p)
  BY <1>4, EndSafe
  DEF PublishFails, Finish, UnpackFails, BuildFails, StartFails, AtStart, At
<1>5. CASE Wipe(p)
  <2>1. PICK f : WipeTurn(p, f, Turn(p, f, AfterWipe(p), {}))
    BY <1>5 DEF Wipe
  <2> DEFINE s == Turn(p, f, AfterWipe(p), {})
  <2>2. s.op = proc[p].op /\ s.pc \in {"wipe", "unpack", "start"}
    BY <1>5, <1>a DEF Wipe, At, Turn, AfterWipe, ProcState
  <2>3. Becomes(p, s) \/ End(p)
    BY <2>1 DEF WipeTurn
  <2> HIDE DEF s
  <2>4. QED
    BY <1>5, <1>b, <2>2, <2>3, NoSwapSafe, EndSafe DEF Wipe, At
<1>6. CASE WipeFails(p)
  <2>1. PICK f : \/ End(p)
                 \/ WipeTurn(p, f, [Turn(p, f, AfterWipe(p), {}) EXCEPT !.failed = TRUE])
    BY <1>6 DEF WipeFails
  <2> DEFINE s == [Turn(p, f, AfterWipe(p), {}) EXCEPT !.failed = TRUE]
  <2>2. s.op = proc[p].op /\ s.pc \in {"wipe", "unpack", "start"}
    BY <1>6, <1>a DEF WipeFails, At, Turn, AfterWipe, ProcState
  <2>3. Becomes(p, s) \/ End(p)
    BY <2>1 DEF WipeTurn
  <2> HIDE DEF s
  <2>4. QED
    BY <1>6, <1>b, <2>2, <2>3, NoSwapSafe, EndSafe DEF WipeFails, At
<1>7. CASE Unpack(p)
  <2> DEFINE s == [proc[p] EXCEPT !.pc = "install", !.todo = Folders,
                                  !.staged = AllAt(Snapshot)]
  <2>1. Becomes(p, s) /\ s.op = proc[p].op /\ s.pc = "install"
    BY <1>7, <1>a DEF Unpack, ProcState
  <2> HIDE DEF s
  <2>2. QED
    BY <1>7, <1>b, <2>1, NoSwapSafe DEF Unpack, At
<1>8. CASE Build(p)
  <2> DEFINE s == [proc[p] EXCEPT !.pc = "start"]
  <2>1. Becomes(p, s) /\ s.op = proc[p].op /\ s.pc = "start"
    BY <1>8, <1>a DEF Build, Goto, Becomes, ProcState
  <2> HIDE DEF s
  <2>2. QED
    BY <1>8, <1>b, <2>1, NoSwapSafe DEF Build, At
<1>9. CASE Start(p)
  <2> DEFINE s == [proc[p] EXCEPT !.pc = "archive"]
  <2>1. s.pc = "archive"
    BY <1>a DEF ProcState
  <2>2. Becomes(p, s) \/ End(p)
    BY <1>9 DEF Start, Goto, Becomes
  <2> HIDE DEF s
  <2>3. QED
    BY <1>9, <2>1, <2>2, NoSwapSafe, EndSafe DEF Start, AtStart, At
<1>10. QED
  BY <1>1, <1>2, <1>3, <1>4, <1>5, <1>6, <1>7, <1>8, <1>9

\* MoveAside, the renames into place and MoveBack keep every folder safe.
LEMMA SwapStepsSafe ==
    ASSUME HostAssumption, HostInv, NEW p \in Procs,
           \/ Aside(p) \/ Install(p) \/ SwapFails(p) \/ PutBack(p)
           \/ PutBackFails(p)
    PROVE  Exclusive' /\ \A q \in Procs : SwapSafe(q)'
<1>a. /\ proc[p] \in ProcState /\ SwapSafe(p)
      /\ data \in Files /\ proc[p].moved \in Files
  BY DEF HostInv, TypeOK, HostTypeOK, ProcState
<1>b. Swapping(p) => \A f \in Folders : FolderSafe(p, f)
  BY <1>a DEF SwapSafe
<1>c. /\ DOMAIN data = Folders /\ DOMAIN proc[p].moved = Folders
      /\ proc[p].todo \subseteq Folders
  BY <1>a DEF Files, ProcState
<1>1. CASE Aside(p)
  <2>1. PICK f \in proc[p].todo :
          /\ data' = [data EXCEPT ![f] = None]
          /\ Becomes(p, [Turn(p, f, "install", Manifest(p))
                            EXCEPT !.moved[f] = data[f]])
    BY <1>1 DEF Aside
  <2> DEFINE s == [Turn(p, f, "install", Manifest(p)) EXCEPT !.moved[f] = data[f]]
  <2>2. /\ s.op = proc[p].op /\ s.before = proc[p].before
        /\ s.moved = [proc[p].moved EXCEPT ![f] = data[f]]
        /\ \/ s.pc = "aside" /\ s.todo = proc[p].todo \ {f}
           \/ s.pc = "install"
    BY <1>1, <1>a DEF Aside, At, Turn, ProcState
  <2>3. Becomes(p, s)
    BY <2>1
  <2> HIDE DEF s
  <2>4. proc'[p] = s
    BY <2>3 DEF Becomes, HostInv, TypeOK
  <2>5. ASSUME Swapping(p)', NEW g \in Folders PROVE FolderSafe(p, g)'
    <3>1. Swapping(p) /\ At(p, "aside")
      BY <1>1, <2>2, <2>4, <2>5 DEF Swapping, Aside, At
    <3>2. FolderSafe(p, g) /\ FolderSafe(p, f)
      BY <1>b, <1>c, <2>1, <3>1
    <3>3. CASE g = f
      <4>1. proc[p].moved[f] = None /\ proc[p].before[f] \in {None, data[f]}
        BY <2>1, <3>1, <3>2 DEF FolderSafe
      <4>2. proc'[p].moved[g] = data[f] /\ proc'[p].before[g] = proc[p].before[f]
        BY <1>c, <2>1, <2>2, <2>4, <3>3
      <4>3. ~(At(p, "aside")' /\ g \in proc'[p].todo) /\ ~At(p, "back")'
        BY <2>2, <2>4, <3>3 DEF At
      <4>4. QED
        BY <4>1, <4>2, <4>3 DEF FolderSafe
    <3>4. CASE g # f
      <4>1. /\ proc'[p].moved[g] = proc[p].moved[g]
            /\ proc'[p].before[g] = proc[p].before[g]
            /\ data'[g] = data[g]
        BY <1>c, <2>1, <2>2, <2>4, <3>4
      <4>2. At(p, "aside")' /\ g \in proc'[p].todo => g \in proc[p].todo
        BY <2>2, <2>4 DEF At
      <4>3. ~At(p, "back")'
        BY <2>2, <2>4 DEF At
      <4>4. QED
        BY <3>1, <3>2, <4>1, <4>2, <4>3 DEF FolderSafe
    <3>5. QED
      BY <3>3, <3>4
  <2>6. SwapSafe(p)'
    BY <2>2, <2>4, <2>5 DEF SwapSafe, NothingMoved, NotASwap
  <2>7. QED
    BY <1>1, <2>3, <2>6, MoverSafe DEF Aside, At
<1>2. CASE Install(p)
  <2>1. PICK f \in proc[p].todo :
          /\ data[f] = None
          /\ data' = [data EXCEPT ![f] = proc[p].staged[f]]
          /\ Becomes(p, Turn(p, f, "start", {}))
    BY <1>2 DEF Install
  <2> DEFINE s == Turn(p, f, "start", {})
  <2>2. /\ s.op = proc[p].op /\ s.before = proc[p].before
        /\ s.moved = proc[p].moved /\ s.pc \in {"install", "start"}
    BY <1>2, <1>a DEF Install, At, Turn, ProcState
  <2>3. Becomes(p, s)
    BY <2>1
  <2> HIDE DEF s
  <2>4. proc'[p] = s
    BY <2>3 DEF Becomes, HostInv, TypeOK
  <2>5. ASSUME Swapping(p)', NEW g \in Folders PROVE FolderSafe(p, g)'
    <3>1. Swapping(p)
      BY <1>2, <2>2, <2>4, <2>5 DEF Swapping, Install, At
    <3>2. FolderSafe(p, g)
      BY <1>b, <3>1
    <3>3. data[g] = None \/ data'[g] = data[g]
      BY <1>c, <2>1
    <3>4. ~At(p, "aside")' /\ ~At(p, "back")'
      BY <2>2, <2>4 DEF At
    <3>5. QED
      BY <2>2, <2>4, <3>2, <3>3, <3>4 DEF FolderSafe
  <2>6. SwapSafe(p)'
    BY <2>2, <2>4, <2>5 DEF SwapSafe, NothingMoved, NotASwap
  <2>7. QED
    BY <1>2, <2>3, <2>6, MoverSafe DEF Install, At
<1>3. CASE SwapFails(p)
  <2>1. CASE End(p)
    BY <1>3, <2>1, EndSafe DEF SwapFails, At
  <2>2. CASE RollBack(p)
    <3> DEFINE s == [proc[p] EXCEPT
                       !.pc = IF MovedFolders(p) = {} THEN "restart" ELSE "back",
                       !.todo = MovedFolders(p)]
    <3>1. /\ s.op = proc[p].op /\ s.before = proc[p].before
          /\ s.moved = proc[p].moved /\ s.pc \in {"restart", "back"}
          /\ s.todo = MovedFolders(p)
      BY <1>a DEF ProcState
    <3>2. Becomes(p, s)
      BY <2>2 DEF RollBack
    <3> HIDE DEF s
    <3>3. proc'[p] = s /\ data' = data
      BY <1>3, <3>2 DEF Becomes, HostInv, TypeOK, SwapFails
    <3>4. ASSUME Swapping(p)', NEW g \in Folders PROVE FolderSafe(p, g)'
      <4>1. Swapping(p)
        BY <1>3, <3>1, <3>3, <3>4 DEF Swapping, SwapFails, At
      <4>2. FolderSafe(p, g)
        BY <1>b, <4>1
      <4>3. g \in proc'[p].todo => proc[p].moved[g] # None
        BY <3>1, <3>3 DEF MovedFolders, Present
      <4>4. QED
        BY <3>1, <3>3, <4>2, <4>3 DEF FolderSafe, At
    <3>5. SwapSafe(p)'
      BY <3>1, <3>3, <3>4 DEF SwapSafe, NothingMoved, NotASwap
    <3>6. QED
      BY <1>3, <3>2, <3>5, MoverSafe DEF SwapFails, At
  <2>3. QED
    BY <1>3, <2>1, <2>2 DEF SwapFails
<1>4. CASE PutBack(p)
  <2>1. PICK f \in proc[p].todo :
          /\ data' = [data EXCEPT ![f] = proc[p].moved[f]]
          /\ PutBackTurn(p, f,
               [Turn(p, f, "restart", {}) EXCEPT !.moved[f] = None])
    BY <1>4 DEF PutBack
  <2> DEFINE s == [Turn(p, f, "restart", {}) EXCEPT !.moved[f] = None]
  <2>2. /\ s.op = proc[p].op /\ s.before = proc[p].before
        /\ s.moved = [proc[p].moved EXCEPT ![f] = None]
        /\ \/ s.pc = "back" /\ s.todo = proc[p].todo \ {f}
           \/ s.pc = "restart"
    BY <1>4, <1>a DEF PutBack, At, Turn, ProcState
  <2>3. Becomes(p, s) \/ End(p)
    BY <2>1 DEF PutBackTurn
  <2> HIDE DEF s
  <2>4. ASSUME Becomes(p, s) PROVE SwapSafe(p)'
    <3>1. proc'[p] = s
      BY <2>4 DEF Becomes, HostInv, TypeOK
    <3>2. ASSUME Swapping(p)', NEW g \in Folders PROVE FolderSafe(p, g)'
      <4>1. Swapping(p) /\ At(p, "back")
        BY <1>4, <2>2, <3>1, <3>2 DEF Swapping, PutBack, At
      <4>2. FolderSafe(p, g) /\ FolderSafe(p, f)
        BY <1>b, <1>c, <2>1, <4>1
      <4>3. ~At(p, "aside")'
        BY <2>2, <3>1 DEF At
      <4>4. CASE g = f
        <5>1. proc[p].before[f] \in {None, proc[p].moved[f]}
          BY <2>1, <4>1, <4>2 DEF FolderSafe
        <5>2. /\ proc'[p].moved[g] = None
              /\ proc'[p].before[g] = proc[p].before[f]
              /\ data'[g] = proc[p].moved[f]
          BY <1>c, <2>1, <2>2, <3>1, <4>4
        <5>3. ~(At(p, "back")' /\ g \in proc'[p].todo)
          BY <2>2, <3>1, <4>4 DEF At
        <5>4. QED
          BY <4>3, <5>1, <5>2, <5>3 DEF FolderSafe
      <4>5. CASE g # f
        <5>1. /\ proc'[p].moved[g] = proc[p].moved[g]
              /\ proc'[p].before[g] = proc[p].before[g]
              /\ data'[g] = data[g]
          BY <1>c, <2>1, <2>2, <3>1, <4>5
        <5>2. At(p, "back")' /\ g \in proc'[p].todo => g \in proc[p].todo
          BY <2>2, <3>1 DEF At
        <5>3. QED
          BY <4>1, <4>2, <4>3, <5>1, <5>2 DEF FolderSafe
      <4>6. QED
        BY <4>4, <4>5
    <3>3. QED
      BY <2>2, <3>1, <3>2 DEF SwapSafe, NothingMoved, NotASwap
  <2>5. QED
    BY <1>4, <2>3, <2>4, MoverSafe, EndSafe DEF PutBack, At
<1>5. CASE PutBackFails(p)
  <2>1. PICK f \in proc[p].todo :
          /\ data' \in {data, [data EXCEPT ![f] = None]}
          /\ PutBackTurn(p, f,
               [Turn(p, f, "restart", {}) EXCEPT !.failed = TRUE])
    BY <1>5 DEF PutBackFails
  <2> DEFINE s == [Turn(p, f, "restart", {}) EXCEPT !.failed = TRUE]
  <2>2. /\ s.op = proc[p].op /\ s.before = proc[p].before
        /\ s.moved = proc[p].moved
        /\ \/ s.pc = "back" /\ s.todo = proc[p].todo \ {f}
           \/ s.pc = "restart"
    BY <1>5, <1>a DEF PutBackFails, At, Turn, ProcState
  <2>3. Becomes(p, s) \/ End(p)
    BY <2>1 DEF PutBackTurn
  <2> HIDE DEF s
  <2>4. ASSUME Becomes(p, s) PROVE SwapSafe(p)'
    <3>1. proc'[p] = s
      BY <2>4 DEF Becomes, HostInv, TypeOK
    <3>2. ASSUME Swapping(p)', NEW g \in Folders PROVE FolderSafe(p, g)'
      <4>1. Swapping(p) /\ At(p, "back")
        BY <1>5, <2>2, <3>1, <3>2 DEF Swapping, PutBackFails, At
      <4>2. FolderSafe(p, g)
        BY <1>b, <4>1
      <4>3. proc[p].moved[g] = None => data'[g] = data[g]
        <5>1. FolderSafe(p, f)
          BY <1>b, <1>c, <2>1, <4>1
        <5>2. proc[p].moved[f] # None
          BY <2>1, <4>1, <5>1 DEF FolderSafe
        <5>3. QED
          BY <1>c, <2>1, <5>2
      <4>4. /\ ~At(p, "aside")'
            /\ At(p, "back")' /\ g \in proc'[p].todo => g \in proc[p].todo
        BY <2>2, <3>1 DEF At
      <4>5. QED
        BY <2>2, <3>1, <4>1, <4>2, <4>3, <4>4 DEF FolderSafe
    <3>3. QED
      BY <2>2, <3>1, <3>2 DEF SwapSafe, NothingMoved, NotASwap
  <2>5. QED
    BY <1>5, <2>3, <2>4, MoverSafe, EndSafe DEF PutBackFails, At
<1>6. QED
  BY <1>1, <1>2, <1>3, <1>4, <1>5

\* The node writing between two steps: a folder without a safety copy is
\* followed, one with a copy keeps what it held.
LEMMA NodeRunsSafe ==
    ASSUME HostAssumption, HostInv, NodeRuns
    PROVE  Exclusive' /\ \A q \in Procs : SwapSafe(q)'
<1>1. ASSUME NEW q \in Procs, ~At(q, "idle")
      PROVE  /\ proc'[q] = [proc[q] EXCEPT !.before = Followed(q)]
             /\ proc[q] \in ProcState /\ SwapSafe(q)
  BY <1>1 DEF NodeRuns, HostInv, TypeOK
<1>2. ASSUME NEW q \in Procs, At(q, "idle") PROVE proc'[q] = proc[q]
  BY <1>2 DEF NodeRuns
<1>3. Exclusive'
  <2>1. \A q \in Procs : proc'[q].pc = proc[q].pc
    BY <1>1, <1>2 DEF ProcState
  <2>2. lock' = lock
    BY DEF NodeRuns, NodeWrites
  <2>3. QED
    BY <2>1, <2>2 DEF Exclusive, HostInv, At
<1>4. ASSUME NEW q \in Procs PROVE SwapSafe(q)'
  <2>1. CASE At(q, "idle")
    BY <1>2, <2>1, IdleSafe DEF At
  <2>2. CASE ~At(q, "idle")
    <3>1. /\ proc'[q].op = proc[q].op /\ proc'[q].pc = proc[q].pc
          /\ proc'[q].todo = proc[q].todo /\ proc'[q].moved = proc[q].moved
          /\ proc'[q].before = Followed(q)
      BY <1>1, <2>2 DEF ProcState
    <3>2. ASSUME Swapping(q), NEW f \in Folders PROVE FolderSafe(q, f)'
      <4>1. FolderSafe(q, f)
        BY <1>1, <2>2, <3>2 DEF SwapSafe
      <4>2. proc'[q].before[f] =
              IF proc[q].moved[f] = None /\ proc[q].before[f] = data[f]
              THEN data'[f] ELSE proc[q].before[f]
        BY <3>1 DEF Followed
      <4>3. QED
        BY <3>1, <4>1, <4>2 DEF FolderSafe, At
    <3>3. QED
      BY <1>1, <2>2, <3>1, <3>2
      DEF SwapSafe, NothingMoved, NotASwap, Swapping, AllAt
  <2>3. QED
    BY <2>1, <2>2
<1>5. QED
  BY <1>3, <1>4

(***************************************************************************)
(* HostInv, the inductive invariant of the operations, holds throughout.   *)
(***************************************************************************)
THEOREM HostOperations == Spec => []HostInv
<1> USE HostAssumption, OperationsAssumption
<1>1. Init => Exclusive /\ \A p \in Procs : SwapSafe(p)
  BY DEF Init, Exclusive, SwapSafe, NothingMoved, NotASwap, Swapping, At, IdleProc
<1>2. HostInv /\ [Next]_vars => Exclusive' /\ \A p \in Procs : SwapSafe(p)'
  <2> SUFFICES ASSUME HostInv, [Next]_vars
               PROVE  Exclusive' /\ \A p \in Procs : SwapSafe(p)'
    OBVIOUS
  <2>1. CASE UNCHANGED <<proc, data, lock>>
    BY <2>1 DEF HostInv, Exclusive, SwapSafe, NothingMoved, NotASwap, Swapping,
                FolderSafe, At
  <2>2. ASSUME NEW p \in Procs, Begin(p) \/ Works(p)
        PROVE  Exclusive' /\ \A q \in Procs : SwapSafe(q)'
    BY <2>2, PreludeSafe, OtherSafe, SwapStepsSafe DEF Works
  <2>3. ASSUME NEW p \in Procs, Killed(p)
        PROVE  Exclusive' /\ \A q \in Procs : SwapSafe(q)'
    BY <2>3, EndSafe DEF Killed
  <2>4. CASE Reboot
    <3>1. \A p \in Procs : proc'[p].pc = "idle"
      BY <2>4 DEF Reboot, IdleProc
    <3>2. QED
      BY <3>1, IdleSafe DEF Exclusive, At
  <2>5. CASE NodeRuns
    BY <2>5, NodeRunsSafe
  <2>6. Owner \/ UNCHANGED vars => UNCHANGED <<proc, data, lock>>
    BY DEF Owner, NodeDies, SystemdRestarts, UserStarts, UserStops, vars, hostVars
  <2>7. QED
    BY <2>1, <2>2, <2>3, <2>4, <2>5, <2>6 DEF Next
<1>3. Init /\ TypeOK => HostInv
  BY <1>1 DEF HostInv
<1>4. HostInv /\ TypeOK' /\ [Next]_vars => HostInv'
  BY <1>2 DEF HostInv
<1>5. QED
  BY <1>3, <1>4, HostTypes, PTL DEF Spec

(***************************************************************************)
(* No restore and no bootstrap loses a folder of the node, whatever fails, *)
(* whoever starts the node meanwhile and wherever the process is stopped   *)
(* (MoveAside, install, MoveBack).                                         *)
(***************************************************************************)
THEOREM SwapsLoseNothing == Spec => []NothingLost
<1>1. HostInv => NothingLost
  BY DEF HostInv, SwapSafe, FolderSafe, NothingLost
<1>2. QED
  BY <1>1, HostOperations, PTL

(***************************************************************************)
(* At most one operation on the node's data is under way (lock.Acquire,    *)
(* withLock), also after kills and reboots.                                *)
(***************************************************************************)
OneOperation ==
    \A p, q \in Procs : ~At(p, "idle") /\ ~At(q, "idle") => p = q
THEOREM OneOperationAtATime == Spec => []OneOperation
<1>1. HostInv => OneOperation
  BY DEF HostInv, Exclusive, OneOperation
<1>2. QED
  BY <1>1, HostOperations, PTL

-----------------------------------------------------------------------------
(***************************************************************************)
(* One chain state.  The operations that put whole sets of folders in      *)
(* place or copy them, when the node runs only if they start it and no     *)
(* process dies in the middle.  What breaks it: a wipe (resync and         *)
(* --discard leave folders missing, and MoveBack puts back only what was   *)
(* there), an owner or systemd that starts the node in the middle of a     *)
(* swap or a copy, a MoveBack that fails, a killed process.                *)
(***************************************************************************)
WholeOps == {"backup", "restore", "bootstrap", "deploy"}
OrderlyFaults == {"stopFails", "startFails", "copyFails", "archiveFails", "removeFails",
                  "extractFails", "asideFails", "installFails", "buildFails", "userStops"}

\* Every folder is there, and all are of one moment.
Whole(files) == Uniform(files) /\ \A f \in Folders : files[f] # None

SwapPCs == {"aside", "install", "back"}

\* The course of p's operation: what it may be doing, that the node is down
\* from the stop to the start, and that what it puts back or in is whole.
Course(p) ==
    LET pc == proc[p].pc
        op == proc[p].op
    IN  /\ op \in WholeOps
        /\ pc \notin {"wipe", "unpack"}
        /\ pc \in {"extract", "restart"} \cup SwapPCs => op \in {"restore", "bootstrap"}
        /\ pc \in {"prepare", "copy"} => op = "backup"
        /\ pc = "build" => op = "deploy"
        /\ pc \in {"copy", "build", "restart", "start"} \cup SwapPCs => ~IsActive
        /\ pc \in SwapPCs => Whole(proc[p].before)
        /\ op \in {"restore", "bootstrap"} /\ pc \in {"stop", "aside", "install"} =>
              Whole(proc[p].staged)

\* What a backup has copied is what the node has.
Copied(p) ==
    LET pc == proc[p].pc
    IN  /\ pc = "copy" => \A f \in Folders \ proc[p].todo : temp[f] = data[f]
        /\ \/ pc = "archive"
           \/ pc = "start" /\ proc[p].op = "backup" /\ ~proc[p].failed
           => Whole(temp)

\* Where each folder is in a swap.
Swapped(p) ==
    LET pc == proc[p].pc
        todo == proc[p].todo
        before == proc[p].before
        moved == proc[p].moved
    IN  /\ pc = "aside" => \A f \in Folders :
              IF f \in todo THEN data[f] = before[f] /\ moved[f] = None
                            ELSE data[f] = None /\ moved[f] = before[f]
        /\ pc = "install" => \A f \in Folders :
              /\ moved[f] = before[f]
              /\ data[f] = IF f \in todo THEN None ELSE proc[p].staged[f]
        /\ pc = "back" => \A f \in Folders :
              IF f \in todo THEN moved[f] = before[f] ELSE data[f] = before[f]
        /\ pc = "restart" => data = before

ArchivesWhole == \A i \in Hashed : Whole(archives[i].files)
InPlace == (\A p \in Procs : proc[p].pc \notin SwapPCs) => Whole(data)

OrderlyInv ==
    /\ svc # "activating"
    /\ ArchivesWhole
    /\ InPlace
    /\ \A p \in Procs : Course(p) /\ Copied(p) /\ Swapped(p)

LEMMA MomentsWhole ==
    ASSUME HostAssumption, NEW m \in Moments, m # None
    PROVE  Whole(AllAt(m))
BY DEF Whole, Uniform, AllAt

LEMMA OrderlyInit == HostAssumption /\ Init => OrderlyInv
<1> SUFFICES ASSUME HostAssumption, Init PROVE OrderlyInv
  OBVIOUS
<1>1. 0 \in Moments /\ 0 # None
  BY DEF HostAssumption, Moments
<1>2. Whole(data) /\ svc # "activating"
  BY <1>1, MomentsWhole DEF Init, HostInit
<1>3. Hashed = {}
  BY DEF Init, Hashed
<1>4. ASSUME NEW p \in Procs PROVE Course(p) /\ Copied(p) /\ Swapped(p)
  BY DEF Init, IdleProc, Course, Copied, Swapped, WholeOps, SwapPCs
<1> QED
  BY <1>2, <1>3, <1>4 DEF OrderlyInv, ArchivesWhole, InPlace

\* A process that is idle is in no course.
LEMMA IdleOrderly ==
    ASSUME NEW p \in Procs, proc'[p].pc = "idle", proc'[p].op \in WholeOps
    PROVE  (Course(p) /\ Copied(p) /\ Swapped(p))'
BY DEF Course, Copied, Swapped, SwapPCs

\* Only the process that moves need be looked at.
LEMMA MoverOrderly ==
    ASSUME HostAssumption, HostInv, OrderlyInv, NEW p \in Procs, ~At(p, "idle"),
           NEW s, Becomes(p, s),
           svc' # "activating", ArchivesWhole',
           s.pc \notin SwapPCs => Whole(data)',
           (Course(p) /\ Copied(p) /\ Swapped(p))'
    PROVE  OrderlyInv'
<1>1. /\ \A q \in Procs \ {p} : At(q, "idle") /\ proc'[q] = proc[q]
      /\ proc'[p] = s
  BY OthersIdle DEF Becomes, HostInv, TypeOK
<1>2. \A q \in Procs : (Course(q) /\ Copied(q) /\ Swapped(q))'
  BY <1>1, IdleOrderly DEF At, OrderlyInv, Course
<1>3. InPlace'
  BY <1>1 DEF InPlace
<1> QED
  BY <1>2, <1>3 DEF OrderlyInv

\* A process that ends leaves the folders in place.
LEMMA EndOrderly ==
    ASSUME HostAssumption, HostInv, OrderlyInv, NEW p \in Procs, ~At(p, "idle"), End(p),
           svc' # "activating", ArchivesWhole', Whole(data)'
    PROVE  OrderlyInv'
<1>1. \A q \in Procs : proc'[q].pc = "idle" /\ proc'[q].op \in WholeOps
  <2>1. proc'[p] = IdleProc /\ \A q \in Procs \ {p} : proc'[q] = proc[q]
    BY DEF End, HostInv, TypeOK
  <2>2. \A q \in Procs \ {p} : proc[q].pc = "idle" /\ proc[q].op \in WholeOps
    BY OthersIdle DEF At, OrderlyInv, Course
  <2> QED
    BY <2>1, <2>2 DEF IdleProc, WholeOps
<1> QED
  BY <1>1, IdleOrderly DEF OrderlyInv, InPlace

\* What is known of the process at work.
LEMMA AtWork ==
    ASSUME HostAssumption, HostInv, OrderlyInv, NEW p \in Procs, ~At(p, "idle")
    PROVE  /\ proc[p] \in ProcState /\ data \in Files /\ temp \in Files
           /\ Course(p) /\ Copied(p) /\ Swapped(p)
           /\ svc # "activating" /\ ArchivesWhole
           /\ proc[p].pc \notin SwapPCs => Whole(data)
           /\ \A q \in Procs \ {p} : proc[q].pc = "idle"
<1>1. \A q \in Procs \ {p} : proc[q].pc = "idle"
  BY OthersIdle DEF At
<1>2. proc[p].pc \notin SwapPCs => Whole(data)
  <2> SUFFICES ASSUME proc[p].pc \notin SwapPCs PROVE Whole(data)
    OBVIOUS
  <2>1. \A q \in Procs : proc[q].pc \notin SwapPCs
    BY <1>1 DEF SwapPCs
  <2> QED
    BY <2>1 DEF OrderlyInv, InPlace
<1> QED
  BY <1>1, <1>2 DEF OrderlyInv, HostInv, TypeOK, HostTypeOK

\* Publishing adds the copy, pruning takes hashes away.
LEMMA ArchivesStayWhole ==
    ASSUME HostAssumption, TypeOK, ArchivesWhole,
           \/ UNCHANGED archives
           \/ Prune
           \/ /\ Whole(temp)
              /\ archives' = Append(archives, [files |-> temp, kept |-> TRUE, hashed |-> TRUE])
    PROVE  ArchivesWhole'
<1>1. CASE UNCHANGED archives
  BY <1>1 DEF ArchivesWhole, Hashed
<1>2. CASE Prune
  <2>1. PICK stuck \in SUBSET Surplus :
          archives' = [i \in DOMAIN archives |->
                         IF i \in Surplus THEN Gone(i \in stuck) ELSE archives[i]]
    BY <1>2 DEF Prune
  <2>2. ASSUME NEW i \in Hashed' PROVE i \in Hashed /\ archives'[i] = archives[i]
    <3>1. i \in DOMAIN archives /\ archives'[i].hashed /\ archives'[i].kept
      BY <2>1, <2>2 DEF Hashed
    <3>2. CASE i \in Surplus
      <4>1. archives'[i] = Gone(i \in stuck)
        BY <2>1, <3>1, <3>2, Zenon
      <4>2. archives'[i].hashed = FALSE
        BY <4>1 DEF Gone
      <4> QED
        BY <3>1, <4>2
    <3>3. CASE i \notin Surplus
      <4>1. archives'[i] = archives[i]
        BY <2>1, <3>1, <3>3, Zenon
      <4> QED
        BY <3>1, <4>1 DEF Hashed
    <3> QED
      BY <3>2, <3>3
  <2> QED
    BY <2>2 DEF ArchivesWhole
<1>3. CASE /\ Whole(temp)
           /\ archives' = Append(archives, [files |-> temp, kept |-> TRUE, hashed |-> TRUE])
  <2> DEFINE new == [files |-> temp, kept |-> TRUE, hashed |-> TRUE]
  <2>1. archives \in Seq(Archive)
    BY DEF TypeOK
  <2>2. /\ DOMAIN archives = 1 .. Len(archives) /\ Len(archives) \in Nat
        /\ DOMAIN archives' = 1 .. Len(archives) + 1
        /\ archives'[Len(archives) + 1] = new
        /\ \A i \in DOMAIN archives : archives'[i] = archives[i]
    BY <1>3, <2>1
  <2>3. ASSUME NEW i \in Hashed' PROVE Whole(archives'[i].files)
    <3>1. i \in DOMAIN archives' /\ archives'[i].kept /\ archives'[i].hashed
      BY <2>3 DEF Hashed
    <3>2. CASE i = Len(archives) + 1
      BY <1>3, <2>2, <3>2
    <3>3. CASE i # Len(archives) + 1
      <4>1. i \in DOMAIN archives /\ archives'[i] = archives[i]
        BY <2>2, <3>1, <3>3
      <4>2. i \in Hashed
        BY <3>1, <4>1 DEF Hashed
      <4> QED
        BY <4>1, <4>2 DEF ArchivesWhole
    <3> QED
      BY <3>2, <3>3
  <2> QED
    BY <2>3 DEF ArchivesWhole
<1> QED
  BY <1>1, <1>2, <1>3

-----------------------------------------------------------------------------
\* Up to the stop the folders are in place; the stop then notes them.
LEMMA PreludeOrderly ==
    ASSUME HostAssumption, HostInv, OrderlyInv, Ops \subseteq WholeOps, NEW p \in Procs,
           Begin(p) \/ Prepare(p) \/ Extract(p) \/ FailsEarly(p) \/ Stop(p)
    PROVE  OrderlyInv'
<1>0. TypeOK
  BY DEF HostInv
<1>1. CASE Begin(p)
  <2>1. PICK op \in Ops :
          proc' = [proc EXCEPT ![p] = [IdleProc EXCEPT
                     !.op = op, !.pc = First(op), !.wasActive = IsActive]]
    BY <1>1 DEF Begin
  <2>2. \A q \in Procs \ {p} : proc[q].pc = "idle" /\ proc'[q] = proc[q]
    BY <1>1, <2>1, OthersIdle DEF Begin, Acquire, HostInv, TypeOK, At
  <2>3. /\ proc'[p].op = op /\ op \in WholeOps /\ proc'[p].pc = First(op)
        /\ First(op) \in {"prepare", "extract", "stop"}
        /\ First(op) = "prepare" => op = "backup"
        /\ First(op) = "extract" => op \in {"restore", "bootstrap"}
        /\ First(op) = "stop" => op = "deploy"
    BY <2>1 DEF HostInv, TypeOK, IdleProc, First, WholeOps
  <2>4. UNCHANGED <<svc, data, temp, archives>>
    BY <1>1 DEF Begin
  <2>5. (Course(p) /\ Copied(p) /\ Swapped(p))'
    BY <2>3, <2>4 DEF Course, Copied, Swapped, SwapPCs
  <2>6. \A q \in Procs \ {p} : (Course(q) /\ Copied(q) /\ Swapped(q))'
    BY <2>2, IdleOrderly DEF OrderlyInv, Course
  <2>7. Whole(data)
    BY <1>1, <2>2 DEF OrderlyInv, InPlace, Begin, At, SwapPCs
  <2>8. InPlace'
    BY <2>4, <2>7 DEF InPlace
  <2> QED
    BY <1>0, <2>4, <2>5, <2>6, <2>8, ArchivesStayWhole DEF OrderlyInv
<1>2. CASE Prepare(p)
  <2> DEFINE s == [proc[p] EXCEPT !.pc = "stop", !.wasActive = IsActive]
  <2>1. /\ ~At(p, "idle") /\ proc[p].pc = "prepare" /\ Becomes(p, s)
        /\ UNCHANGED <<svc, data>> /\ (Prune \/ UNCHANGED archives)
    BY <1>2 DEF Prepare, At
  <2>2. proc[p] \in ProcState /\ Course(p) /\ svc # "activating" /\ Whole(data)
    BY <2>1, AtWork DEF SwapPCs
  <2>3. s.pc = "stop" /\ s.op = "backup" /\ proc'[p] = s
    BY <1>0, <2>1, <2>2 DEF ProcState, Becomes, TypeOK, Course
  <2> HIDE DEF s
  <2>4. (Course(p) /\ Copied(p) /\ Swapped(p))'
    BY <2>3 DEF Course, Copied, Swapped, SwapPCs, WholeOps
  <2>5. ArchivesWhole'
    BY <1>0, <2>1, ArchivesStayWhole DEF OrderlyInv
  <2> QED
    BY <2>1, <2>2, <2>4, <2>5, MoverOrderly
<1>3. CASE Extract(p)
  <2>1. PICK files \in IF proc[p].op = "bootstrap" THEN {AllAt(Snapshot)}
                       ELSE {archives[i].files : i \in Hashed} :
          Becomes(p, [proc[p] EXCEPT !.pc = "stop", !.staged = files])
    BY <1>3 DEF Extract
  <2>2. /\ ~At(p, "idle") /\ proc[p].pc = "extract" /\ UNCHANGED <<svc, data, archives>>
    BY <1>3 DEF Extract, At
  <2>3. /\ proc[p] \in ProcState /\ Course(p) /\ svc # "activating" /\ Whole(data)
        /\ ArchivesWhole
    BY <2>2, AtWork DEF SwapPCs
  <2>4. Whole(files)
    <3>1. CASE proc[p].op = "bootstrap"
      BY <2>1, <3>1, FilesLemma, MomentsWhole DEF HostAssumption
    <3>2. CASE proc[p].op # "bootstrap"
      BY <2>1, <2>3, <3>2 DEF ArchivesWhole
    <3> QED
      BY <3>1, <3>2
  <2> DEFINE s == [proc[p] EXCEPT !.pc = "stop", !.staged = files]
  <2>5. s.pc = "stop" /\ s.op = proc[p].op /\ s.staged = files /\ proc'[p] = s
    BY <1>0, <2>1, <2>3 DEF ProcState, Becomes, TypeOK
  <2> HIDE DEF s
  <2>6. (Course(p) /\ Copied(p) /\ Swapped(p))'
    BY <2>3, <2>4, <2>5 DEF Course, Copied, Swapped, SwapPCs, WholeOps
  <2>7. ArchivesWhole'
    BY <1>0, <2>2, <2>3, ArchivesStayWhole
  <2> QED
    BY <2>1, <2>2, <2>3, <2>6, <2>7, MoverOrderly DEF s
<1>4. CASE FailsEarly(p)
  <2>1. ~At(p, "idle") /\ proc[p].pc \notin SwapPCs
    BY <1>4 DEF FailsEarly, At, SwapPCs
  <2>2. End(p) /\ UNCHANGED <<svc, data, archives>>
    BY <1>4 DEF FailsEarly
  <2>3. svc # "activating" /\ Whole(data) /\ ArchivesWhole
    BY <2>1, AtWork
  <2>4. ArchivesWhole'
    BY <1>0, <2>2, <2>3, ArchivesStayWhole
  <2> QED
    BY <2>1, <2>2, <2>3, <2>4, EndOrderly
<1>5. CASE Stop(p)
  <2> DEFINE s == [proc[p] EXCEPT !.pc = AfterStop(proc[p].op),
                                  !.todo = Manifest(p), !.before = data]
  <2>1. ~At(p, "idle") /\ proc[p].pc = "stop" /\ Becomes(p, s) /\ UNCHANGED <<data, archives>>
    BY <1>5 DEF Stop, At
  <2>2. /\ proc[p] \in ProcState /\ Course(p) /\ svc # "activating" /\ Whole(data)
        /\ ArchivesWhole
    BY <2>1, AtWork DEF SwapPCs
  <2>3. svc' \notin {"active", "activating"}
    BY <1>5, <2>2 DEF Stop, Course, WholeOps, StopService, IsActive
  <2>4. /\ s.pc = AfterStop(proc[p].op) /\ s.op = proc[p].op /\ s.before = data
        /\ s.staged = proc[p].staged /\ s.moved = proc[p].moved /\ s.todo = Manifest(p)
        /\ proc'[p] = s
    BY <1>0, <2>1, <2>2 DEF ProcState, Becomes, TypeOK
  <2>5. s.moved = AllAt(None)
    BY <2>1, <2>4 DEF HostInv, SwapSafe, NothingMoved
  <2> HIDE DEF s
  <2>6. AfterStop(proc[p].op) = CASE proc[p].op = "backup" -> "copy"
                                  [] proc[p].op = "deploy" -> "build"
                                  [] OTHER -> "aside"
    BY <2>2 DEF Course, WholeOps, AfterStop
  <2>7. Manifest(p) = Folders
    BY <2>1, <2>2 DEF Manifest, Present, Course, Whole
  <2>8. Course(p)'
    BY <2>1, <2>2, <2>3, <2>4, <2>6 DEF Course, SwapPCs, WholeOps, IsActive
  <2>9. Copied(p)' /\ Swapped(p)'
    BY <2>1, <2>4, <2>5, <2>6, <2>7 DEF Copied, Swapped, AllAt
  <2>10. ArchivesWhole'
    BY <1>0, <2>1, <2>2, ArchivesStayWhole
  <2> QED
    BY <2>1, <2>2, <2>3, <2>8, <2>9, <2>10, MoverOrderly
<1> QED
  BY <1>1, <1>2, <1>3, <1>4, <1>5

\* A backup copies while the node is down, and publishes what it copied.
LEMMA BackupOrderly ==
    ASSUME HostAssumption, HostInv, OrderlyInv, NEW p \in Procs,
           \/ Copy(p) \/ CopyFails(p) \/ Publish(p) \/ PublishFails(p) \/ Finish(p)
           \/ Build(p) \/ BuildFails(p) \/ Start(p) \/ StartFails(p)
    PROVE  OrderlyInv'
<1>0. TypeOK
  BY DEF HostInv
<1>1. ~At(p, "idle") /\ proc[p].pc \notin SwapPCs
  BY DEF Copy, CopyFails, Publish, PublishFails, Finish, Build, BuildFails, Start,
         StartFails, AtStart, At, SwapPCs
<1>2. /\ proc[p] \in ProcState /\ Course(p) /\ Copied(p) /\ svc # "activating"
      /\ Whole(data) /\ ArchivesWhole
  BY <1>1, AtWork
\* Moving on with the folders in place.
<1>3. ASSUME NEW s \in ProcState, Becomes(p, s), svc' # "activating", UNCHANGED data,
             ArchivesWhole', s.op = proc[p].op,
             \/ /\ s.pc = "copy" /\ proc[p].pc = "copy" /\ UNCHANGED svc
                /\ \A f \in Folders \ s.todo : temp'[f] = data[f]
             \/ /\ s.pc = "start" /\ ~IsActive /\ UNCHANGED svc
                /\ s.op = "backup" /\ ~s.failed => Whole(temp')
             \/ s.pc = "archive" /\ Whole(temp')
             \/ s.pc = "prune"
      PROVE  OrderlyInv'
  <2>1. proc'[p] = s
    BY <1>0, <1>3 DEF Becomes, TypeOK
  <2>2. Course(p)'
    BY <1>2, <1>3, <2>1 DEF Course, SwapPCs, IsActive
  <2>3. Copied(p)' /\ Swapped(p)'
    BY <1>3, <2>1 DEF Copied, Swapped
  <2> QED
    BY <1>1, <1>2, <1>3, <2>2, <2>3, MoverOrderly
<1>4. CASE Copy(p)
  <2>1. PICK f \in proc[p].todo : /\ temp' = [temp EXCEPT ![f] = data[f]]
                                  /\ Becomes(p, Turn(p, f, "start", {}))
    BY <1>4 DEF Copy
  <2> DEFINE s == Turn(p, f, "start", {})
  <2>2. s \in ProcState
    BY <1>0, TurnType DEF PCs
  <2>3. /\ s.op = proc[p].op
        /\ s.pc = IF proc[p].todo = {f} THEN "start" ELSE "copy"
        /\ proc[p].todo # {f} => s.todo = proc[p].todo \ {f}
        /\ proc[p].pc = "copy"
    BY <1>2, <1>4 DEF Turn, ProcState, Copy, At
  <2>4. UNCHANGED <<svc, data, archives>> /\ ~IsActive
    BY <1>2, <1>4, <2>3 DEF Copy, Course
  <2>5. \A g \in Folders \ (proc[p].todo \ {f}) : temp'[g] = data[g]
    BY <1>0, <1>2, <2>1, <2>3 DEF Copied, TypeOK, Files
  <2>6. ArchivesWhole'
    BY <1>0, <1>2, <2>4, ArchivesStayWhole
  <2> HIDE DEF s
  <2>7. CASE proc[p].todo = {f}
    <3>1. \A g \in Folders : temp'[g] = data[g]
      BY <2>5, <2>7
    <3>2. Whole(temp')
      BY <1>2, <3>1 DEF Whole, Uniform
    <3> QED
      BY <1>2, <1>3, <2>1, <2>2, <2>3, <2>4, <2>6, <2>7, <3>2 DEF s
  <2>8. CASE proc[p].todo # {f}
    BY <1>2, <1>3, <2>1, <2>2, <2>3, <2>4, <2>5, <2>6, <2>8 DEF s
  <2> QED
    BY <2>7, <2>8
<1>5. CASE CopyFails(p) /\ ~End(p)
  <2> DEFINE s == [proc[p] EXCEPT !.pc = "start", !.failed = TRUE]
  <2>1. Becomes(p, s) /\ UNCHANGED <<svc, data, archives>> /\ proc[p].pc = "copy"
    BY <1>5 DEF CopyFails, At
  <2>2. s \in ProcState /\ s.pc = "start" /\ s.failed /\ s.op = proc[p].op /\ ~IsActive
    BY <1>2, <2>1 DEF ProcState, PCs, Course
  <2>3. ArchivesWhole'
    BY <1>0, <1>2, <2>1, ArchivesStayWhole
  <2> HIDE DEF s
  <2> QED
    BY <1>2, <1>3, <2>1, <2>2, <2>3
<1>6. CASE Publish(p)
  <2> DEFINE s == [proc[p] EXCEPT !.pc = "prune"]
  <2>1. Becomes(p, s) /\ UNCHANGED <<svc, data>> /\ Whole(temp)
    BY <1>2, <1>6 DEF Publish, Goto, Becomes, Copied, At
  <2>2. s \in ProcState /\ s.pc = "prune" /\ s.op = proc[p].op
    BY <1>2 DEF ProcState, PCs
  <2>3. ArchivesWhole'
    BY <1>0, <1>2, <1>6, <2>1, ArchivesStayWhole DEF Publish
  <2> HIDE DEF s
  <2> QED
    BY <1>2, <1>3, <2>1, <2>2, <2>3
<1>7. CASE Build(p)
  <2> DEFINE s == [proc[p] EXCEPT !.pc = "start"]
  <2>1. Becomes(p, s) /\ UNCHANGED <<svc, data, archives>> /\ proc[p].pc = "build"
    BY <1>7 DEF Build, Goto, Becomes, At
  <2>2. /\ s \in ProcState /\ s.pc = "start" /\ s.op = proc[p].op
        /\ s.op = "deploy" /\ ~IsActive
    BY <1>2, <2>1 DEF ProcState, PCs, Course
  <2>3. ArchivesWhole'
    BY <1>0, <1>2, <2>1, ArchivesStayWhole
  <2> HIDE DEF s
  <2> QED
    BY <1>2, <1>3, <2>1, <2>2, <2>3
<1>8. CASE Start(p) /\ ~End(p)
  <2> DEFINE s == [proc[p] EXCEPT !.pc = "archive"]
  <2>1. /\ Becomes(p, s) /\ UNCHANGED <<data, temp, archives>> /\ svc' = "active"
        /\ proc[p].op = "backup" /\ ~proc[p].failed /\ proc[p].pc \in {"start", "restart"}
    BY <1>8 DEF Start, StartService, Goto, Becomes, AtStart, At
  <2>2. s \in ProcState /\ s.pc = "archive" /\ s.op = proc[p].op
    BY <1>2 DEF ProcState, PCs
  <2>3. Whole(temp)
    BY <1>2, <2>1 DEF Copied, Course
  <2>4. ArchivesWhole'
    BY <1>0, <1>2, <2>1, ArchivesStayWhole
  <2> HIDE DEF s
  <2> QED
    BY <1>3, <2>1, <2>2, <2>3, <2>4
<1>9. CASE End(p)
  <2>1. UNCHANGED data /\ (UNCHANGED archives \/ Prune \/ Publish(p))
    BY DEF Copy, CopyFails, Publish, PublishFails, Finish, Build, BuildFails, Start,
           StartFails
  <2>2. ~Publish(p)
    <3>1. End(p) => proc'[p].pc = "idle"
      BY <1>0 DEF End, TypeOK, IdleProc
    <3>2. Publish(p) => proc'[p].pc = "prune"
      BY <1>0, <1>2 DEF Publish, Goto, TypeOK, ProcState
    <3> QED
      BY <1>9, <3>1, <3>2
  <2>3. svc' # "activating"
    BY <1>2 DEF Copy, CopyFails, Publish, PublishFails, Finish, Build, BuildFails, Start,
                StartFails, StartService
  <2> QED
    BY <1>0, <1>1, <1>2, <1>9, <2>1, <2>2, <2>3, ArchivesStayWhole, EndOrderly
<1> QED
  BY <1>4, <1>5, <1>6, <1>7, <1>8, <1>9 DEF PublishFails, Finish, BuildFails, StartFails

\* MoveAside, install and MoveBack keep track of every folder, and end with
\* all of them new or all of them old.
LEMMA SwapOrderly ==
    ASSUME HostAssumption, HostInv, OrderlyInv, "putBackFails" \notin Faults,
           NEW p \in Procs,
           Aside(p) \/ Install(p) \/ SwapFails(p) \/ PutBack(p) \/ PutBackFails(p)
    PROVE  OrderlyInv'
<1>0. TypeOK
  BY DEF HostInv
<1>1. ~At(p, "idle") /\ proc[p].pc \in SwapPCs
  BY DEF Aside, Install, SwapFails, PutBack, PutBackFails, At, SwapPCs
<1>2. /\ proc[p] \in ProcState /\ data \in Files /\ Course(p) /\ Swapped(p)
      /\ svc # "activating" /\ ArchivesWhole
  BY <1>1, AtWork
<1>3. /\ proc[p].op \in {"restore", "bootstrap"} /\ ~IsActive /\ Whole(proc[p].before)
      /\ proc[p].pc # "back" => Whole(proc[p].staged) /\ Manifest(p) = Folders
  BY <1>1, <1>2 DEF Course, SwapPCs, Manifest, Present, Whole
<1>4. UNCHANGED <<svc, temp, archives>> /\ ArchivesWhole'
  <2>1. UNCHANGED <<svc, temp, archives>>
    BY DEF Aside, Install, SwapFails, PutBack, PutBackFails
  <2> QED
    BY <1>0, <1>2, <2>1, ArchivesStayWhole
<1>5. /\ proc[p].todo \subseteq Folders
      /\ proc[p].moved \in Files /\ proc[p].before \in Files /\ proc[p].staged \in Files
  BY <1>2 DEF ProcState
\* Where the swap may go: on with the folders where they should be.
<1>6. ASSUME NEW s, Becomes(p, s), s.op = proc[p].op, s.before = proc[p].before,
             s.staged = proc[p].staged,
             Swapped(p)',
             \/ s.pc = "back"
             \/ s.pc \in {"aside", "install"} /\ proc[p].pc # "back"
             \/ s.pc \in {"restart", "start"} /\ Whole(data)'
      PROVE  OrderlyInv'
  <2>1. proc'[p] = s
    BY <1>0, <1>6 DEF Becomes, TypeOK
  <2>2. Course(p)'
    BY <1>2, <1>3, <1>4, <1>6, <2>1 DEF Course, SwapPCs, IsActive, Whole, Uniform
  <2>3. Copied(p)'
    BY <1>3, <1>6, <2>1 DEF Copied
  <2> QED
    BY <1>1, <1>2, <1>4, <1>6, <2>2, <2>3, MoverOrderly DEF SwapPCs
<1>7. CASE Aside(p)
  <2>1. PICK f \in proc[p].todo :
          /\ data' = [data EXCEPT ![f] = None]
          /\ Becomes(p, [Turn(p, f, "install", Manifest(p))
                            EXCEPT !.moved[f] = data[f]])
    BY <1>7 DEF Aside
  <2> DEFINE s == [Turn(p, f, "install", Manifest(p)) EXCEPT !.moved[f] = data[f]]
  <2>2. /\ proc[p].pc = "aside"
        /\ s.op = proc[p].op /\ s.before = proc[p].before /\ s.staged = proc[p].staged
        /\ s.moved = [proc[p].moved EXCEPT ![f] = data[f]]
        /\ \/ s.pc = "aside" /\ s.todo = proc[p].todo \ {f}
           \/ s.pc = "install" /\ s.todo = Folders /\ proc[p].todo = {f}
    BY <1>2, <1>3, <1>7 DEF Aside, At, Turn, ProcState
  <2> HIDE DEF s
  <2>3. proc'[p] = s
    BY <1>0, <2>1 DEF Becomes, TypeOK, s
  <2>4. \A g \in Folders : /\ data'[g] = IF g = f THEN None ELSE data[g]
                           /\ s.moved[g] = IF g = f THEN data[f] ELSE proc[p].moved[g]
    BY <1>2, <1>5, <2>1, <2>2 DEF Files
  <2>5. \A g \in Folders :
          IF g \in proc[p].todo
          THEN data[g] = proc[p].before[g] /\ proc[p].moved[g] = None
          ELSE data[g] = None /\ proc[p].moved[g] = proc[p].before[g]
    BY <1>2, <2>2 DEF Swapped
  <2>6. Swapped(p)'
    <3>1. CASE s.pc = "aside" /\ s.todo = proc[p].todo \ {f}
      <4>1. ASSUME NEW g \in Folders
            PROVE  IF g \in s.todo THEN data'[g] = s.before[g] /\ s.moved[g] = None
                                   ELSE data'[g] = None /\ s.moved[g] = s.before[g]
        <5>1. CASE g = f
          BY <2>2, <2>4, <2>5, <3>1, <5>1
        <5>2. CASE g # f
          BY <2>2, <2>4, <2>5, <3>1, <5>2
        <5> QED
          BY <5>1, <5>2
      <4> QED
        BY <2>3, <3>1, <4>1 DEF Swapped
    <3>2. CASE s.pc = "install" /\ s.todo = Folders /\ proc[p].todo = {f}
      <4>1. ASSUME NEW g \in Folders PROVE s.moved[g] = s.before[g] /\ data'[g] = None
        <5>1. CASE g = f
          BY <2>2, <2>4, <2>5, <5>1
        <5>2. CASE g # f
          BY <2>2, <2>4, <2>5, <3>2, <5>2
        <5> QED
          BY <5>1, <5>2
      <4> QED
        BY <2>3, <3>2, <4>1 DEF Swapped
    <3> QED
      BY <2>2, <3>1, <3>2
  <2> QED
    BY <1>6, <2>1, <2>2, <2>6 DEF s
<1>8. CASE Install(p)
  <2>1. PICK f \in proc[p].todo :
          /\ data' = [data EXCEPT ![f] = proc[p].staged[f]]
          /\ Becomes(p, Turn(p, f, "start", {}))
    BY <1>8 DEF Install
  <2> DEFINE s == Turn(p, f, "start", {})
  <2>2. /\ proc[p].pc = "install"
        /\ s.op = proc[p].op /\ s.before = proc[p].before /\ s.staged = proc[p].staged
        /\ s.moved = proc[p].moved
        /\ \/ s.pc = "install" /\ s.todo = proc[p].todo \ {f}
           \/ s.pc = "start" /\ proc[p].todo = {f}
    BY <1>2, <1>8 DEF Install, At, Turn, ProcState
  <2> HIDE DEF s
  <2>3. proc'[p] = s
    BY <1>0, <2>1 DEF Becomes, TypeOK, s
  <2>4. \A g \in Folders : /\ data'[g] = IF g \in proc[p].todo \ {f} THEN None
                                                           ELSE proc[p].staged[g]
                           /\ proc[p].moved[g] = proc[p].before[g]
    BY <1>2, <1>5, <2>1, <2>2 DEF Files, Swapped
  <2>5. Swapped(p)'
    BY <2>2, <2>3, <2>4 DEF Swapped
  <2>6. proc[p].todo = {f} => Whole(data)'
    BY <1>3, <2>2, <2>4 DEF Whole, Uniform
  <2> QED
    BY <1>6, <2>1, <2>2, <2>5, <2>6 DEF s
<1>9. CASE SwapFails(p)
  <2> DEFINE s == [proc[p] EXCEPT
                     !.pc = IF MovedFolders(p) = {} THEN "restart" ELSE "back",
                     !.todo = MovedFolders(p)]
  <2>1. Becomes(p, s) /\ UNCHANGED data /\ proc[p].pc \in {"aside", "install"}
    BY <1>3, <1>9 DEF SwapFails, RollBack, At
  <2>2. /\ s.op = proc[p].op /\ s.before = proc[p].before /\ s.staged = proc[p].staged
        /\ s.moved = proc[p].moved /\ s.todo = MovedFolders(p)
        /\ s.pc = IF MovedFolders(p) = {} THEN "restart" ELSE "back"
    BY <1>2 DEF ProcState
  <2> HIDE DEF s
  <2>3. proc'[p] = s
    BY <1>0, <2>1 DEF Becomes, TypeOK
  <2>4. \A g \in Folders : proc[p].before[g] # None
    BY <1>3 DEF Whole
  <2>5. ASSUME NEW g \in Folders
        PROVE  IF g \in MovedFolders(p) THEN proc[p].moved[g] = proc[p].before[g]
                                        ELSE data[g] = proc[p].before[g]
    BY <1>2, <2>1, <2>4 DEF Swapped, MovedFolders, Present
  <2>6. MovedFolders(p) = {} => data = proc[p].before
    BY <1>2, <1>5, <2>5 DEF Files
  <2>7. Swapped(p)'
    BY <2>1, <2>2, <2>3, <2>5, <2>6 DEF Swapped
  <2>8. MovedFolders(p) = {} => Whole(data)'
    BY <1>3, <2>1, <2>6 DEF Whole, Uniform
  <2> QED
    BY <1>6, <2>1, <2>2, <2>7, <2>8
<1>10. CASE PutBack(p)
  <2>1. PICK f \in proc[p].todo :
          /\ data' = [data EXCEPT ![f] = proc[p].moved[f]]
          /\ PutBackTurn(p, f, [Turn(p, f, "restart", {}) EXCEPT !.moved[f] = None])
    BY <1>10 DEF PutBack
  <2> DEFINE s == [Turn(p, f, "restart", {}) EXCEPT !.moved[f] = None]
  <2>2. /\ proc[p].pc = "back"
        /\ s.op = proc[p].op /\ s.before = proc[p].before /\ s.staged = proc[p].staged
        /\ s.moved = [proc[p].moved EXCEPT ![f] = None]
        /\ \/ s.pc = "back" /\ s.todo = proc[p].todo \ {f}
           \/ s.pc = "restart" /\ proc[p].todo = {f}
    BY <1>2, <1>10 DEF PutBack, At, Turn, ProcState
  <2>3. (End(p) /\ proc[p].todo = {f}) \/ Becomes(p, s)
    BY <2>1 DEF PutBackTurn
  <2> HIDE DEF s
  <2>4. \A g \in Folders : /\ g = f => data'[g] = proc[p].before[g]
                           /\ g # f => data'[g] = data[g] /\ s.moved[g] = proc[p].moved[g]
                           /\ IF g \in proc[p].todo THEN proc[p].moved[g] = proc[p].before[g]
                                                    ELSE data[g] = proc[p].before[g]
    BY <1>2, <1>5, <2>1, <2>2 DEF Files, Swapped
  <2>5. proc[p].todo = {f} => data' = proc[p].before
    <3> SUFFICES ASSUME proc[p].todo = {f} PROVE data' = proc[p].before
      OBVIOUS
    <3>1. \A g \in Folders : data'[g] = proc[p].before[g]
      BY <2>4
    <3>2. DOMAIN data' = Folders /\ DOMAIN proc[p].before = Folders
      BY <1>2, <1>5, <2>1 DEF Files
    <3>3. data' = [g \in Folders |-> data'[g]]
      BY <1>2, <2>1, <3>2 DEF Files
    <3>4. proc[p].before = [g \in Folders |-> proc[p].before[g]]
      BY <1>5 DEF Files
    <3> QED
      BY <3>1, <3>3, <3>4
  <2>6. proc[p].todo = {f} => Whole(data)'
    BY <1>3, <2>5 DEF Whole, Uniform
  <2>7. CASE End(p) /\ proc[p].todo = {f}
    BY <1>1, <1>2, <1>4, <2>6, <2>7, EndOrderly
  <2>8. CASE Becomes(p, s)
    <3>1. proc'[p] = s
      BY <1>0, <2>8 DEF Becomes, TypeOK
    <3>2. Swapped(p)'
      <4>1. CASE s.pc = "back" /\ s.todo = proc[p].todo \ {f}
        <5>1. ASSUME NEW g \in Folders
              PROVE  IF g \in s.todo THEN s.moved[g] = s.before[g]
                                     ELSE data'[g] = s.before[g]
          <6>1. CASE g = f
            BY <2>2, <2>4, <4>1, <6>1
          <6>2. CASE g # f
            BY <2>2, <2>4, <4>1, <6>2
          <6> QED
            BY <6>1, <6>2
        <5> QED
          BY <3>1, <4>1, <5>1 DEF Swapped
      <4>2. CASE s.pc = "restart" /\ proc[p].todo = {f}
        BY <2>2, <2>5, <3>1, <4>2 DEF Swapped
      <4> QED
        BY <2>2, <4>1, <4>2
    <3> QED
      BY <1>6, <2>2, <2>6, <2>8, <3>2
  <2> QED
    BY <2>3, <2>7, <2>8
<1> QED
  BY <1>7, <1>8, <1>9, <1>10 DEF PutBackFails, May

\* The node runs only on folders in place, and no process then depends on
\* what it finds in them.
LEMMA NodeRunsOrderly ==
    ASSUME HostAssumption, HostInv, OrderlyInv, NodeRuns
    PROVE  OrderlyInv'
<1>1. /\ svc = "active" /\ data' = AllAt(now + 1) /\ now + 1 \in Moments /\ now + 1 # None
      /\ UNCHANGED <<svc, temp, archives>>
  BY DEF NodeRuns, NodeWrites, IsActive, HostInv, TypeOK, HostTypeOK, HostAssumption, Moments
<1>2. Whole(data')
  BY <1>1, MomentsWhole
<1>3. ASSUME NEW q \in Procs
      PROVE  /\ proc'[q].pc = proc[q].pc /\ proc'[q].op = proc[q].op
             /\ proc'[q].todo = proc[q].todo /\ proc'[q].staged = proc[q].staged
             /\ proc'[q].failed = proc[q].failed
  BY DEF NodeRuns, HostInv, TypeOK, ProcState
<1>4. ASSUME NEW q \in Procs PROVE (Course(q) /\ Copied(q) /\ Swapped(q))'
  <2>1. Course(q) /\ Copied(q)
    BY DEF OrderlyInv
  <2>2. proc[q].pc \notin {"copy", "build", "restart", "start", "aside", "install", "back"}
    BY <1>1, <2>1 DEF Course, SwapPCs, IsActive
  <2>3. Course(q)'
    BY <1>1, <1>3, <2>1, <2>2 DEF Course, SwapPCs, Whole, Uniform
  <2>4. Copied(q)'
    BY <1>1, <1>3, <2>1, <2>2 DEF Copied, Whole, Uniform
  <2>5. Swapped(q)'
    BY <1>3, <2>2 DEF Swapped
  <2> QED
    BY <2>3, <2>4, <2>5
<1>5. ArchivesWhole'
  BY <1>1, ArchivesStayWhole DEF OrderlyInv, HostInv
<1>6. InPlace'
  BY <1>2 DEF InPlace, Whole, Uniform
<1> QED
  BY <1>1, <1>4, <1>5, <1>6 DEF OrderlyInv

LEMMA OrderlyStep ==
    ASSUME HostAssumption, HostInv, OrderlyInv, Ops \subseteq WholeOps,
           Faults \subseteq OrderlyFaults, [Next]_vars
    PROVE  OrderlyInv'
<1>0. Faults \cap {"putBackFails", "wipeFails", "killed", "reboot", "nodeDies",
                   "userStarts"} = {}
  BY DEF OrderlyFaults
\* A unit that stops, and nothing else.
<1>1. ASSUME UNCHANGED <<proc, data, temp, archives>>, svc' = svc \/ svc' = "inactive"
      PROVE  OrderlyInv'
  <2>1. \A q \in Procs : (Course(q) /\ Copied(q) /\ Swapped(q))'
    BY <1>1 DEF OrderlyInv, Course, Copied, Swapped, IsActive, Whole, Uniform
  <2>2. ArchivesWhole'
    BY <1>1, ArchivesStayWhole DEF OrderlyInv, HostInv
  <2>3. InPlace'
    BY <1>1 DEF OrderlyInv, InPlace, Whole, Uniform
  <2> QED
    BY <1>1, <2>1, <2>2, <2>3 DEF OrderlyInv
<1>2. ASSUME NEW p \in Procs, Begin(p) PROVE OrderlyInv'
  BY <1>2, PreludeOrderly
<1>3. ASSUME NEW p \in Procs, Works(p) PROVE OrderlyInv'
  <2>1. ~Wipe(p) /\ ~WipeFails(p) /\ ~Unpack(p) /\ ~UnpackFails(p)
    BY DEF Wipe, WipeFails, Unpack, UnpackFails, At, OrderlyInv, Course
  <2> QED
    BY <1>0, <1>3, <2>1, PreludeOrderly, BackupOrderly, SwapOrderly DEF Works
<1>4. CASE NodeRuns
  BY <1>4, NodeRunsOrderly
<1>5. CASE Owner
  <2>1. UserStops /\ UNCHANGED <<proc, temp, archives>>
    BY <1>0, <1>5 DEF Owner, May
  <2> QED
    BY <1>1, <2>1 DEF UserStops, StopService
<1>6. CASE UNCHANGED vars
  BY <1>1, <1>6 DEF vars, hostVars
<1> QED
  BY <1>0, <1>2, <1>3, <1>4, <1>5, <1>6 DEF Next, Killed, Reboot, May

(***************************************************************************)
(* Backup, restore, bootstrap and deploy keep the node's folders, what     *)
(* they copy and what they publish one chain state, whichever of their     *)
(* steps fail (MoveBack's own renames apart).                              *)
(***************************************************************************)
THEOREM OrderlyOperations ==
    ASSUME Ops \subseteq WholeOps, Faults \subseteq OrderlyFaults
    PROVE  Spec => [](HostInv /\ OrderlyInv)
<1>1. Init => OrderlyInv
  BY HostAssumption, OrderlyInit
<1>2. HostInv /\ OrderlyInv /\ [Next]_vars => OrderlyInv'
  BY HostAssumption, OrderlyStep
<1> QED
  BY <1>1, <1>2, HostOperations, PTL DEF Spec

(***************************************************************************)
(* The node never runs on folders of different moments: an install is      *)
(* complete or undone before the start (restore.Run, bootstrap.Run).       *)
(***************************************************************************)
THEOREM NodeRunsOnOneState ==
    ASSUME Ops \subseteq WholeOps, Faults \subseteq OrderlyFaults
    PROVE  Spec => []RunsOnOneState
<1>1. OrderlyInv => RunsOnOneState
  <2> SUFFICES ASSUME OrderlyInv, IsActive PROVE Uniform(data)
    BY DEF RunsOnOneState
  <2>1. \A p \in Procs : proc[p].pc \notin SwapPCs
    BY DEF OrderlyInv, Course
  <2> QED
    BY <2>1 DEF OrderlyInv, InPlace, Whole
<1> QED
  BY <1>1, OrderlyOperations, PTL

(***************************************************************************)
(* "The previous data is put back": when MoveBack is through, every folder *)
(* is as the node left it, also when the install failed half way.          *)
(***************************************************************************)
THEOREM SwapsAreUndone ==
    ASSUME Ops \subseteq WholeOps, Faults \subseteq OrderlyFaults
    PROVE  Spec => []RolledBack
<1>1. OrderlyInv => RolledBack
  BY DEF OrderlyInv, RolledBack, Swapped, At
<1> QED
  BY <1>1, OrderlyOperations, PTL

(***************************************************************************)
(* Every archive with a hash is the node's folders of one moment: the copy *)
(* is made while the node is down, and a copy that failed is not published *)
(* (backup.Run).                                                           *)
(***************************************************************************)
THEOREM ArchivesHoldOneState ==
    ASSUME Ops \subseteq WholeOps, Faults \subseteq OrderlyFaults
    PROVE  Spec => []ArchivesAreOneState
<1>1. OrderlyInv => ArchivesAreOneState
  BY DEF OrderlyInv, ArchivesWhole, ArchivesAreOneState, Whole
<1> QED
  BY <1>1, OrderlyOperations, PTL
=============================================================================
