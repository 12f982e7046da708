-------------------------- MODULE NodeFiles_proofs --------------------------
(***************************************************************************)
(* What the commands that write a producer's key file and config.json      *)
(* guarantee, for every number of processes, keys, texts and runs, and     *)
(* whatever fails or is killed.                                            *)
(***************************************************************************)
EXTENDS NodeFiles, WellFoundedInduction, TLAPS

FileTypes ==
    /\ config \in MaybeDoc
    /\ wallet \in MaybeKeyFile
    /\ safety \in [Seconds -> Place]
    /\ archives \subseteq Archive
    /\ shown \subseteq Keys
    /\ run \in 0 .. MaxRuns
    /\ sec \in 0 .. run
    /\ mishap \in BOOLEAN

JobTypes == flock \in Writers \cup {None} /\ job \in [Writers -> Job]

(***************************************************************************)
(* Whoever is at work holds the lock, in the run begun last; so nobody     *)
(* else is.                                                                *)
(***************************************************************************)
LockInv ==
    \A w \in Writers : ~Doing(w, "idle") =>
        flock = w /\ job[w].run = run /\ run \in Runs

(***************************************************************************)
(* What a process at work relies on.  What it is about to write was read   *)
(* from the files that are still there; what a restore has set aside, and  *)
(* what it has not, make up the files that it found.                       *)
(***************************************************************************)
Consistent(doc, keyFile) ==
    (doc # None /\ doc.producer # None) => KeyOf(keyFile) = doc.producer

WritePhase(w) ==
    LET j == job[w]
    IN  /\ j.step = "read" => j.cmd \in ConfigCommands
        /\ j.step \in {"inspect", "create", "wire", "tell"} => j.cmd = "setup"
        /\ j.step = "create" => wallet = None
        /\ j.step = "wire" => wallet # None /\ j.key = KeyOf(wallet)
        /\ j.step \in {"keep", "rename"} =>
             /\ j.doc \in Doc
             /\ \/ j.cmd \in ConfigCommands /\ j.doc.producer = Loaded.producer
                \/ /\ j.cmd = "setup" /\ wallet # None /\ j.key \in Keys
                   /\ j.doc.producer = KeyOf(wallet)
        /\ j.step = "tell" => j.key \in Keys
        /\ j.step \in {"publish", "hash"} => j.key = KeyOf(wallet)

SwapSteps == {"asideConfig", "installConfig", "installWallet", "backConfig", "backWallet"}
Swapping(w) == job[w].step \in SwapSteps

Found_(w) == ~mishap => Consistent(job[w].before.config, job[w].before.wallet)
Opened(w) == job[w].doc # None => job[w].doc.producer \in {None, job[w].key}
WalletThere(w) ==
    \/ wallet = None /\ Kept(w).wallet = job[w].before.wallet
    \/ wallet = job[w].before.wallet /\ Kept(w).wallet = None
ConfigThere(w) ==
    \/ Kept(w).config = job[w].before.config
    \/ config = job[w].before.config /\ Kept(w).config = None

SwapPhase(w) ==
    LET j == job[w]
    IN  /\ j.step \in SwapSteps \cup {"asideWallet"} => Found_(w)
        /\ j.step \in {"asideWallet", "asideConfig", "installConfig", "installWallet"}
             => Opened(w)
        /\ j.step \in {"stage", "asideWallet"} => j.moved = {}
        /\ j.step = "asideWallet" => j.before = [wallet |-> wallet, config |-> config]
        /\ j.step = "asideConfig" =>
             /\ wallet = None /\ Kept(w).wallet = j.before.wallet
             /\ config = j.before.config /\ "config" \notin j.moved
        /\ j.step \in {"installConfig", "installWallet"} =>
             wallet = None /\ Kept(w) = j.before
        /\ j.step = "installConfig" => config = None
        /\ j.step = "installWallet" => config = j.doc
        /\ j.step = "backConfig" => WalletThere(w) /\ ConfigThere(w)
        /\ j.step = "backWallet" =>
             /\ WalletThere(w)
             /\ \/ j.before.config \in {None, config}
                \/ mishap /\ j.before.config = Kept(w).config
             /\ mishap \/ config = j.before.config
        /\ j.step = "undone" =>
             /\ \/ j.before.wallet \in {None, wallet}
                \/ mishap /\ j.before.wallet = Kept(w).wallet
             /\ \/ j.before.config \in {None, config}
                \/ mishap /\ j.before.config = Kept(w).config

(***************************************************************************)
(* Backups.  Those made since a key file was written hold its key, and     *)
(* none was made yet in a run that is going to write one.                  *)
(***************************************************************************)
Archived(keyFile) ==
    keyFile # None =>
        \A a \in archives : a.at >= keyFile.written => a.key = keyFile.key
ArchivePhase(w) ==
    /\ job[w].step \notin {"idle", "hash"} => \A a \in archives : a.at # run
    /\ Swapping(w) => Archived(Kept(w).wallet)

StoreInv ==
    /\ \A a \in archives : a.at <= run
    /\ Archived(wallet)

Phase(w) == WritePhase(w) /\ SwapPhase(w) /\ ArchivePhase(w)
RestInv == (~mishap /\ \A w \in Writers : ~Swapping(w)) => Consistent(config, wallet)

FilesInv ==
    FileTypes /\ JobTypes /\ LockInv /\ StoreInv /\ RestInv /\ \A w \in Writers : Phase(w)

-----------------------------------------------------------------------------
LEMMA NoneIsNone ==
    /\ None \notin Doc /\ None \notin KeyFile /\ None \notin Keys /\ None \notin Writers
    /\ Plain \in Texts
BY FilesAssumption DEF Doc, KeyFile

\* The second is one of those that a safety directory can be named by.
LEMMA SecIs ==
    ASSUME FileTypes
    PROVE  /\ sec \in Seconds /\ sec \in Nat /\ run \in Nat /\ safety[sec] \in Place
           /\ safety[sec].wallet \in MaybeKeyFile /\ safety[sec].config \in MaybeDoc
<1>1. MaxRuns \in Nat /\ run \in 0 .. MaxRuns /\ sec \in 0 .. run
  BY FilesAssumption DEF FileTypes
<1>2. sec \in Seconds /\ sec \in Nat /\ run \in Nat
  BY <1>1 DEF Seconds
<1> QED
  BY <1>2 DEF FileTypes, Place

LEMMA KeptIs ==
    ASSUME NEW w
    PROVE  /\ Kept(w).wallet = IF "wallet" \in job[w].moved THEN safety[sec].wallet ELSE None
           /\ Kept(w).config = IF "config" \in job[w].moved THEN safety[sec].config ELSE None
           /\ Kept(w) = [wallet |-> Kept(w).wallet, config |-> Kept(w).config]
BY DEF Kept

LEMMA PlainFileTypes == NoJob \in Job /\ NoJob.step = "idle" /\ Nothing \in Place
<1>1. Nothing \in Place
  BY DEF Nothing, Place, MaybeKeyFile, MaybeDoc
<1>2. 0 \in 0 .. MaxRuns
  BY FilesAssumption
<1> QED
  BY <1>1, <1>2 DEF NoJob, Job, Commands, ConfigCommands, Steps, MaybeDoc

LEMMA NothingMoved == NoJob.moved = {}
BY DEF NoJob

LEMMA LoadedType ==
    ASSUME FileTypes
    PROVE  /\ Loaded \in Doc
           /\ Consistent(config, wallet) <=>
                (Loaded.producer # None => KeyOf(wallet) = Loaded.producer)
<1>1. Loaded \in Doc
  BY NoneIsNone DEF FileTypes, Loaded, MaybeDoc, Doc
<1>2. config = None => Loaded.producer = None
  BY DEF Loaded
<1>3. config # None => Loaded = config
  BY DEF Loaded
<1> QED
  BY <1>1, <1>2, <1>3 DEF Consistent

LEMMA Acting ==
    ASSUME FilesInv, NEW w \in Writers, ~Doing(w, "idle")
    PROVE  /\ flock = w /\ job[w].run = run /\ run \in Runs /\ job[w] \in Job /\ Phase(w)
           /\ \A v \in Writers \ {w} : Doing(v, "idle")
BY DEF FilesInv, LockInv, JobTypes

\* Nothing is asked of a process that is not at work.
LEMMA IdlePhase ==
    ASSUME NEW w, job'[w].step = "idle"
    PROVE  Phase(w)'
BY DEF Phase, WritePhase, SwapPhase, ArchivePhase, Swapping, SwapSteps

\* A command that ends.
LEMMA EndInv ==
    ASSUME FilesInv, NEW w \in Writers, ~Doing(w, "idle"), Leaves(w),
           FileTypes', StoreInv', ~mishap' => Consistent(config, wallet)'
    PROVE  FilesInv'
<1>1. flock = w /\ \A v \in Writers \ {w} : Doing(v, "idle")
  BY Acting
<1>2. JobTypes'
  BY PlainFileTypes DEF Leaves, FilesInv, JobTypes
<1>3. \A v \in Writers : job'[v].step = "idle"
  BY <1>1, PlainFileTypes DEF Leaves, FilesInv, JobTypes, Doing
<1>4. LockInv'
  BY <1>3 DEF LockInv, Doing
<1>5. \A v \in Writers : Phase(v)'
  BY <1>3, IdlePhase
<1>6. RestInv'
  BY DEF RestInv
<1> QED
  BY <1>2, <1>4, <1>5, <1>6 DEF FilesInv

\* A command that goes on in the same run.
LEMMA GoInv ==
    ASSUME FilesInv, NEW w \in Writers, NEW new \in Job, ~Doing(w, "idle"),
           Goes(w, new), new.run = job[w].run, run' = run,
           FileTypes', StoreInv',
           (~mishap /\ ~Swapping(w))' => Consistent(config, wallet)',
           job'[w] = new => Phase(w)'
    PROVE  FilesInv'
<1>1. /\ flock = w /\ job[w].run = run /\ run \in Runs
      /\ \A v \in Writers \ {w} : Doing(v, "idle")
  BY Acting
<1>2. JobTypes' /\ job'[w] = new
  BY DEF Goes, FilesInv, JobTypes
<1>3. \A v \in Writers \ {w} : job'[v].step = "idle"
  BY <1>1 DEF Goes, FilesInv, JobTypes, Doing
<1>4. LockInv'
  BY <1>1, <1>2, <1>3 DEF LockInv, Doing, Goes
<1>5. \A v \in Writers : Phase(v)'
  BY <1>2, <1>3, IdlePhase
<1>6. RestInv'
  BY DEF RestInv
<1> QED
  BY <1>2, <1>4, <1>5, <1>6 DEF FilesInv

\* The files of a node at rest go together.
LEMMA Rested ==
    ASSUME FilesInv, NEW w \in Writers, ~Doing(w, "idle"), ~Swapping(w), ~mishap
    PROVE  Consistent(config, wallet)
<1>1. \A v \in Writers \ {w} : job[v].step = "idle"
  BY Acting DEF Doing
<1>2. \A v \in Writers : ~Swapping(v)
  BY <1>1 DEF Swapping, SwapSteps
<1> QED
  BY <1>2 DEF FilesInv, RestInv

LEMMA FilesStand ==
    ASSUME FilesInv, UNCHANGED <<config, wallet, safety, archives, run>>, sec' \in 0 .. run,
           shown' \subseteq Keys, mishap' \in BOOLEAN
    PROVE  FileTypes' /\ StoreInv' /\ (Consistent(config, wallet) <=> Consistent(config, wallet)')
<1>1. FileTypes'
  BY DEF FilesInv, FileTypes
<1>2. StoreInv'
  BY DEF FilesInv, StoreInv, Archived
<1> QED
  BY <1>1, <1>2 DEF Consistent, KeyOf

-----------------------------------------------------------------------------
(* Commands that end and leave the files as they are.                      *)

LEMMA StopsInv ==
    ASSUME FilesInv, NEW w \in Writers,
           \/ Refused(w) \/ Dies(w) \/ WriteFails(w) \/ BackupFails(w) \/ Undone(w)
           \/ TellPassword(w)
           \/ Doing(w, "inspect") /\ Leaves(w) /\ UNCHANGED <<files, shown, run, sec, mishap>>
    PROVE  FilesInv'
<1>1. /\ ~Doing(w, "idle") /\ Leaves(w)
      /\ UNCHANGED <<config, wallet, safety, archives, run, sec>>
  BY DEF Refused, Dies, WriteFails, BackupFails, Undone, TellPassword, Doing, files
<1>2. shown' \subseteq Keys
  <2>1. CASE TellPassword(w)
    <3>1. job[w].key \in Keys
      BY <1>1, <2>1, Acting DEF Phase, WritePhase, TellPassword, Doing
    <3> QED
      BY <2>1, <3>1 DEF TellPassword, FilesInv, FileTypes
  <2>2. CASE shown' = shown
    BY <2>2 DEF FilesInv, FileTypes
  <2> QED
    BY <2>1, <2>2 DEF Refused, Dies, WriteFails, BackupFails, Undone
<1>3. mishap' = TRUE \/ (mishap' = mishap /\ ~Swapping(w))
  BY DEF Refused, Dies, WriteFails, BackupFails, Undone, TellPassword, Doing, Swapping, SwapSteps
<1>4. mishap' \in BOOLEAN /\ sec' \in 0 .. run
  BY <1>1, <1>3 DEF FilesInv, FileTypes
<1>5. FileTypes' /\ StoreInv' /\ (Consistent(config, wallet) <=> Consistent(config, wallet)')
  BY <1>1, <1>2, <1>4, FilesStand
<1>6. ~mishap' => Consistent(config, wallet)'
  BY <1>1, <1>3, <1>5, Rested
<1> QED
  BY <1>1, <1>5, <1>6, EndInv

-----------------------------------------------------------------------------
(* config set, unset and edit; pillar setup.                               *)

LEMMA RunInv ==
    ASSUME FilesInv, NEW w \in Writers, Run(w)
    PROVE  FilesInv'
<1>1. PICK cmd \in Commands :
         job' = [job EXCEPT ![w] = [NoJob EXCEPT
                      !.cmd = cmd, !.step = FirstStep(cmd), !.run = run + 1]]
  BY DEF Run
<1> DEFINE new == [NoJob EXCEPT !.cmd = cmd, !.step = FirstStep(cmd), !.run = run + 1]
<1>2. /\ run < MaxRuns /\ flock = None /\ flock' = w /\ run' = run + 1 /\ run + 1 \in Runs
      /\ UNCHANGED <<config, wallet, safety, archives, shown, mishap>>
      /\ run \in Nat
  BY FilesAssumption DEF Run, Take, files, FilesInv, FileTypes, Runs
<1>3. sec' \in 0 .. run'
  <2>1. sec \in Nat /\ run \in Nat /\ sec <= run
    BY SecIs DEF FilesInv, FileTypes
  <2>2. sec' = sec \/ sec' = sec + 1
    BY DEF Run
  <2> QED
    BY <1>2, <2>1, <2>2
<1>4. /\ FirstStep(cmd) \in {"read", "inspect", "pack", "stage"}
      /\ FirstStep(cmd) = "read" => cmd \in ConfigCommands
      /\ FirstStep(cmd) = "inspect" => cmd = "setup"
  BY DEF FirstStep, Commands, ConfigCommands
<1>5. /\ new \in Job /\ new.step = FirstStep(cmd) /\ new.cmd = cmd /\ new.run = run + 1
      /\ new.moved = {}
  <2>1. run + 1 \in 0 .. MaxRuns /\ FirstStep(cmd) \in Steps
    BY <1>2, <1>4, FilesAssumption DEF Steps
  <2> QED
    BY <2>1, PlainFileTypes, NothingMoved DEF Job
<1> HIDE DEF new
<1>6. \A v \in Writers : job[v].step = "idle"
  BY <1>2, NoneIsNone DEF FilesInv, LockInv, Doing
<1>7. /\ JobTypes' /\ job'[w] = new
      /\ \A v \in Writers \ {w} : job'[v].step = "idle"
  BY <1>1, <1>2, <1>5, <1>6 DEF new, FilesInv, JobTypes
<1>8. LockInv'
  BY <1>2, <1>5, <1>7 DEF LockInv, Doing
<1>9. FileTypes'
  BY <1>2, <1>3, FilesAssumption DEF FilesInv, FileTypes, Runs
<1>10. StoreInv'
  <2>1. \A a \in archives' : a.at <= run'
    BY <1>2 DEF FilesInv, StoreInv, FileTypes, Archive
  <2> QED
    BY <1>2, <2>1 DEF FilesInv, StoreInv, Archived
<1>11. RestInv'
  <2>1. ~mishap => Consistent(config, wallet)
    BY <1>6 DEF FilesInv, RestInv, Swapping, SwapSteps
  <2> QED
    BY <1>2, <2>1 DEF RestInv, Consistent, KeyOf
<1>12. Phase(w)'
  <2>1. \A a \in archives' : a.at # run'
    BY <1>2 DEF FilesInv, StoreInv, FileTypes, Archive
  <2>2. job'[w].moved = {}
    BY <1>5, <1>7
  <2>3. job'[w].step \in {"read", "inspect", "pack", "stage"}
    BY <1>4, <1>5, <1>7
  <2>4. WritePhase(w)'
    BY <1>4, <1>5, <1>7, <2>3 DEF WritePhase
  <2>5. SwapPhase(w)'
    BY <2>2, <2>3 DEF SwapPhase, SwapSteps
  <2>6. ArchivePhase(w)'
    BY <2>1, <2>3 DEF ArchivePhase, Swapping, SwapSteps
  <2> QED
    BY <2>4, <2>5, <2>6 DEF Phase
<1>13. \A v \in Writers : Phase(v)'
  BY <1>7, <1>12, IdlePhase
<1> QED
  BY <1>7, <1>8, <1>9, <1>10, <1>11, <1>13 DEF FilesInv

RestoreSteps == SwapSteps \cup {"stage", "asideWallet", "undone"}

LEMMA NoRestore ==
    ASSUME NEW w, job'[w].step \notin RestoreSteps
    PROVE  SwapPhase(w)'
BY DEF SwapPhase, SwapSteps, RestoreSteps

\* A step that leaves the files as they are, of no restore.
LEMMA PlainGoInv ==
    ASSUME FilesInv, NEW w \in Writers, NEW new \in Job,
           job[w].step \notin RestoreSteps \cup {"idle", "hash"}, Goes(w, new),
           new.run = job[w].run, new.step \notin RestoreSteps,
           UNCHANGED <<config, wallet, safety, archives, shown, run, sec, mishap>>,
           job'[w] = new => WritePhase(w)'
    PROVE  FilesInv'
<1>1. FileTypes' /\ StoreInv' /\ (Consistent(config, wallet) <=> Consistent(config, wallet)')
  BY FilesStand DEF FilesInv, FileTypes
<1>2. ~Doing(w, "idle") /\ ~Swapping(w)
  BY DEF Doing, Swapping, RestoreSteps
<1>3. (~mishap /\ ~Swapping(w))' => Consistent(config, wallet)'
  BY <1>1, <1>2, Rested
<1>4. ASSUME job'[w] = new PROVE Phase(w)'
  <2>1. WritePhase(w)'
    BY <1>4
  <2>2. SwapPhase(w)'
    BY <1>4, NoRestore
  <2>3. \A a \in archives' : a.at # run'
    BY DEF FilesInv, Phase, ArchivePhase
  <2>4. ArchivePhase(w)'
    BY <1>4, <2>3 DEF ArchivePhase, Swapping, RestoreSteps
  <2> QED
    BY <2>1, <2>2, <2>4 DEF Phase
<1> QED
  BY <1>1, <1>2, <1>3, <1>4, GoInv

LEMMA ReadInv ==
    ASSUME FilesInv, NEW w \in Writers, Read(w)
    PROVE  FilesInv'
<1>1. PICK text \in Allowed(job[w].cmd) :
         Goes(w, [job[w] EXCEPT !.step = "keep", !.doc = [Loaded EXCEPT !.text = text]])
  BY DEF Read
<1> DEFINE doc == [Loaded EXCEPT !.text = text]
           new == [job[w] EXCEPT !.step = "keep", !.doc = doc]
<1>2. /\ job[w].step = "read" /\ job[w] \in Job /\ job[w].cmd \in ConfigCommands
      /\ UNCHANGED <<config, wallet, safety, archives, shown, run, sec, mishap>>
  BY Acting DEF Read, Doing, files, Phase, WritePhase
<1>3. doc \in Doc /\ doc.producer = Loaded.producer
  <2>1. text \in Texts
    BY FilesAssumption DEF Allowed
  <2>2. Loaded \in Doc
    BY LoadedType DEF FilesInv
  <2> QED
    BY <2>1, <2>2 DEF Doc
<1>4. /\ new \in Job /\ new.step = "keep" /\ new.run = job[w].run /\ new.doc = doc
      /\ new.cmd = job[w].cmd
  <2> HIDE DEF doc
  <2> QED
    BY <1>2, <1>3 DEF Job, Steps, MaybeDoc
<1>5. Goes(w, new)
  BY <1>1
<1> HIDE DEF new, doc
<1>6. Loaded' = Loaded
  BY <1>2 DEF Loaded
<1>7. ASSUME job'[w] = new PROVE WritePhase(w)'
  BY <1>2, <1>3, <1>4, <1>6, <1>7 DEF WritePhase
<1> QED
  BY <1>2, <1>4, <1>5, <1>7, PlainGoInv DEF RestoreSteps, SwapSteps

LEMMA KeepInv ==
    ASSUME FilesInv, NEW w \in Writers, Keep(w)
    PROVE  FilesInv'
<1> DEFINE new == [job[w] EXCEPT !.step = "rename"]
<1>1. /\ job[w].step = "keep" /\ job[w] \in Job /\ Phase(w)
      /\ UNCHANGED <<config, wallet, safety, archives, shown, run, sec, mishap>>
  BY Acting DEF Keep, Doing
<1>2. /\ new \in Job /\ new.step = "rename" /\ new.run = job[w].run
      /\ new.doc = job[w].doc /\ new.cmd = job[w].cmd /\ new.key = job[w].key
  BY <1>1 DEF Job, Steps
<1>3. Goes(w, new)
  BY DEF Keep, Next_
<1> HIDE DEF new
<1>4. Loaded' = Loaded /\ KeyOf(wallet') = KeyOf(wallet)
  BY <1>1 DEF Loaded
<1>5. ASSUME job'[w] = new PROVE WritePhase(w)'
  BY <1>1, <1>2, <1>4, <1>5 DEF Phase, WritePhase
<1> QED
  BY <1>1, <1>2, <1>3, <1>5, PlainGoInv DEF RestoreSteps, SwapSteps

\* A document that is written names the producer that was there, or the key
\* that was made for it.
LEMMA RenameInv ==
    ASSUME FilesInv, NEW w \in Writers, Rename(w)
    PROVE  FilesInv'
<1> DEFINE new == [job[w] EXCEPT !.step = "tell"]
<1>1. /\ job[w].step = "rename" /\ job[w] \in Job /\ Phase(w) /\ ~Doing(w, "idle")
      /\ config' = job[w].doc
      /\ UNCHANGED <<wallet, safety, archives, shown, run, sec, mishap>>
  BY Acting DEF Rename, Doing
<1>2. config' \in Doc
  BY <1>1 DEF Phase, WritePhase
<1>3. FileTypes'
  BY <1>1, <1>2 DEF FilesInv, FileTypes, MaybeDoc
<1>4. StoreInv'
  BY <1>1 DEF FilesInv, StoreInv, Archived
<1>5. ~mishap' => Consistent(config, wallet)'
  <2>1. CASE job[w].cmd = "setup" /\ job[w].doc.producer = KeyOf(wallet)
    BY <1>1, <2>1 DEF Consistent, KeyOf
  <2>2. CASE job[w].doc.producer = Loaded.producer
    <3>1. ~mishap => Consistent(config, wallet)
      BY <1>1, Rested DEF Swapping, SwapSteps
    <3>2. ~mishap => (Loaded.producer # None => KeyOf(wallet) = Loaded.producer)
      BY <3>1, LoadedType DEF FilesInv
    <3> QED
      BY <1>1, <2>2, <3>2 DEF Consistent, KeyOf
  <2> QED
    BY <1>1, <2>1, <2>2 DEF Phase, WritePhase
<1>6. CASE Leaves(w)
  BY <1>1, <1>3, <1>4, <1>5, <1>6, EndInv
<1>7. CASE job[w].cmd = "setup" /\ Goes(w, new)
  <2>1. new \in Job /\ new.step = "tell" /\ new.run = job[w].run
        /\ new.key = job[w].key /\ new.cmd = job[w].cmd
    BY <1>1 DEF Job, Steps
  <2> HIDE DEF new
  <2>2. job[w].key \in Keys
    BY <1>1, <1>7 DEF Phase, WritePhase, ConfigCommands
  <2>3. ASSUME job'[w] = new PROVE Phase(w)'
    <3>1. WritePhase(w)'
      BY <1>7, <2>1, <2>2, <2>3 DEF WritePhase
    <3>2. SwapPhase(w)'
      BY <2>1, <2>3, NoRestore DEF RestoreSteps, SwapSteps
    <3>3. ArchivePhase(w)'
      BY <1>1, <2>1, <2>3 DEF Phase, ArchivePhase, Swapping, SwapSteps
    <3> QED
      BY <3>1, <3>2, <3>3 DEF Phase
  <2> QED
    BY <1>1, <1>3, <1>4, <1>5, <1>7, <2>1, <2>3, GoInv
<1> QED
  BY <1>6, <1>7 DEF Rename, Next_

LEMMA InspectInv ==
    ASSUME FilesInv, NEW w \in Writers, Inspect(w)
    PROVE  FilesInv'
<1>1. /\ job[w].step = "inspect" /\ job[w] \in Job /\ job[w].cmd = "setup"
      /\ UNCHANGED <<config, wallet, safety, archives, shown, run, sec, mishap>>
  BY Acting DEF Inspect, Doing, files, Phase, WritePhase
<1>2. CASE Leaves(w)
  BY <1>2, StopsInv DEF Inspect
<1>3. CASE /\ KeyOf(wallet) \in Known
           /\ Goes(w, [job[w] EXCEPT !.step = "wire", !.key = wallet.key])
  <2> DEFINE new == [job[w] EXCEPT !.step = "wire", !.key = wallet.key]
  <2>1. wallet # None /\ KeyOf(wallet) = wallet.key /\ wallet.key \in Keys
    <3>1. None \notin Known
      BY NoneIsNone DEF Known, FilesInv, FileTypes
    <3>2. wallet # None
      BY <1>3, <3>1 DEF KeyOf
    <3> QED
      BY <3>2 DEF KeyOf, FilesInv, FileTypes, MaybeKeyFile, KeyFile
  <2>2. /\ new \in Job /\ new.step = "wire" /\ new.run = job[w].run
        /\ new.key = wallet.key /\ new.cmd = job[w].cmd
    BY <1>1, <2>1 DEF Job, Steps
  <2> HIDE DEF new
  <2>3. KeyOf(wallet)' = KeyOf(wallet)
    BY <1>1 DEF KeyOf
  <2>4. ASSUME job'[w] = new PROVE WritePhase(w)'
    BY <1>1, <2>1, <2>2, <2>3, <2>4 DEF WritePhase
  <2> QED
    BY <1>1, <1>3, <2>2, <2>4, PlainGoInv DEF new, RestoreSteps, SwapSteps
<1>4. CASE wallet = None /\ Next_(w, "create")
  <2> DEFINE new == [job[w] EXCEPT !.step = "create"]
  <2>1. /\ new \in Job /\ new.step = "create" /\ new.run = job[w].run
        /\ new.cmd = job[w].cmd
    BY <1>1 DEF Job, Steps
  <2>2. Goes(w, new)
    BY <1>4 DEF Next_
  <2> HIDE DEF new
  <2>3. ASSUME job'[w] = new PROVE WritePhase(w)'
    BY <1>1, <1>4, <2>1, <2>3 DEF WritePhase
  <2> QED
    BY <1>1, <2>1, <2>2, <2>3, PlainGoInv DEF RestoreSteps, SwapSteps
<1> QED
  BY <1>2, <1>3, <1>4 DEF Inspect

\* A key file that is written now is newer than every backup.
LEMMA NewKeyFile ==
    ASSUME FilesInv, NEW w \in Writers, job[w].step \notin {"idle", "hash"},
           NEW k \in Keys, wallet' = [key |-> k, written |-> job[w].run],
           UNCHANGED <<safety, archives, run>>
    PROVE  /\ wallet' \in KeyFile /\ wallet' # None /\ wallet'.key = k
           /\ KeyOf(wallet)' = k /\ StoreInv'
<1>1. job[w].run = run /\ run \in Runs /\ \A a \in archives : a.at # run
  BY Acting DEF Doing, Phase, ArchivePhase
<1>2. wallet' \in KeyFile /\ wallet'.key = k /\ wallet'.written = run
  BY <1>1, FilesAssumption DEF KeyFile, Runs
<1>3. wallet' # None
  BY <1>2, NoneIsNone
<1>4. \A a \in archives : a.at \in Nat /\ a.at <= run
  BY DEF FilesInv, FileTypes, Archive, StoreInv
<1>5. Archived(wallet)'
  BY <1>1, <1>2, <1>4 DEF Archived, Runs
<1> QED
  BY <1>2, <1>3, <1>5 DEF FilesInv, StoreInv, KeyOf

LEMMA CreateInv ==
    ASSUME FilesInv, NEW w \in Writers, Create(w) \/ CreateFails(w)
    PROVE  FilesInv'
<1>1. /\ job[w].step = "create" /\ job[w] \in Job /\ Phase(w) /\ ~Doing(w, "idle")
      /\ wallet = None /\ job[w].cmd = "setup"
      /\ UNCHANGED <<config, safety, archives, run, sec, mishap>>
  BY Acting DEF Create, CreateFails, Doing, Phase, WritePhase
<1>2. ASSUME ~mishap PROVE config = None \/ config.producer = None
  BY <1>1, <1>2, Rested, NoneIsNone DEF Swapping, SwapSteps, Consistent, KeyOf
<1>3. ~mishap' => Consistent(config, wallet)'
  BY <1>1, <1>2 DEF Consistent
<1>4. CASE UNCHANGED wallet /\ Leaves(w) /\ UNCHANGED shown
  BY <1>1, <1>3, <1>4, FilesStand, EndInv DEF FilesInv, FileTypes
<1>5. ASSUME NEW k \in Keys, wallet' = [key |-> k, written |-> job[w].run],
             shown' \in {shown, shown \cup {k}},
             \/ Leaves(w)
             \/ Goes(w, [job[w] EXCEPT !.step = "wire", !.key = k, !.made = TRUE])
      PROVE  FilesInv'
  <2> DEFINE new == [job[w] EXCEPT !.step = "wire", !.key = k, !.made = TRUE]
  <2>1. /\ wallet' \in KeyFile /\ wallet' # None /\ wallet'.key = k
        /\ KeyOf(wallet)' = k /\ StoreInv'
    BY <1>1, <1>5, NewKeyFile
  <2>2. FileTypes'
    BY <1>1, <1>5, <2>1 DEF FilesInv, FileTypes, MaybeKeyFile
  <2>3. CASE Leaves(w)
    BY <1>1, <1>3, <2>1, <2>2, <2>3, EndInv
  <2>4. CASE Goes(w, new)
    <3>1. /\ new \in Job /\ new.step = "wire" /\ new.run = job[w].run
          /\ new.key = k /\ new.cmd = job[w].cmd
      BY <1>1 DEF Job, Steps
    <3> HIDE DEF new
    <3>2. ASSUME job'[w] = new PROVE Phase(w)'
      <4>1. WritePhase(w)'
        BY <1>1, <2>1, <3>1, <3>2 DEF WritePhase
      <4>2. SwapPhase(w)'
        BY <3>1, <3>2, NoRestore DEF RestoreSteps, SwapSteps
      <4>3. ArchivePhase(w)'
        BY <1>1, <3>1, <3>2 DEF Phase, ArchivePhase, Swapping, SwapSteps
      <4> QED
        BY <4>1, <4>2, <4>3 DEF Phase
    <3> QED
      BY <1>1, <1>3, <2>1, <2>2, <2>4, <3>1, <3>2, GoInv
  <2> QED
    BY <1>5, <2>3, <2>4
<1> QED
  BY <1>4, <1>5 DEF Create, CreateFails, NewKey

LEMMA WireInv ==
    ASSUME FilesInv, NEW w \in Writers, Wire(w)
    PROVE  FilesInv'
<1> DEFINE doc == [Loaded EXCEPT !.producer = job[w].key]
           new == [job[w] EXCEPT !.step = "keep", !.doc = doc]
<1>1. /\ job[w].step = "wire" /\ job[w] \in Job /\ job[w].cmd = "setup"
      /\ wallet # None /\ job[w].key = KeyOf(wallet)
      /\ UNCHANGED <<config, wallet, safety, archives, shown, run, sec, mishap>>
  BY Acting DEF Wire, Doing, files, Phase, WritePhase
<1>2. job[w].key \in Keys
  BY <1>1 DEF KeyOf, FilesInv, FileTypes, MaybeKeyFile, KeyFile
<1>3. doc \in Doc /\ doc.producer = job[w].key
  <2>1. Loaded \in Doc
    BY LoadedType DEF FilesInv
  <2> QED
    BY <1>2, <2>1 DEF Doc
<1>4. /\ new \in Job /\ new.step = "keep" /\ new.run = job[w].run /\ new.doc = doc
      /\ new.cmd = job[w].cmd /\ new.key = job[w].key
  <2> HIDE DEF doc
  <2> QED
    BY <1>1, <1>3 DEF Job, Steps, MaybeDoc
<1>5. Goes(w, new)
  BY DEF Wire
<1> HIDE DEF new, doc
<1>6. KeyOf(wallet)' = KeyOf(wallet)
  BY <1>1 DEF KeyOf
<1>7. ASSUME job'[w] = new PROVE WritePhase(w)'
  BY <1>1, <1>2, <1>3, <1>4, <1>6, <1>7 DEF WritePhase
<1> QED
  BY <1>1, <1>4, <1>5, <1>7, PlainGoInv DEF RestoreSteps, SwapSteps

-----------------------------------------------------------------------------
(* backup wallet.                                                          *)

LEMMA PackInv ==
    ASSUME FilesInv, NEW w \in Writers, Pack(w)
    PROVE  FilesInv'
<1> DEFINE new == [job[w] EXCEPT !.step = "publish", !.key = KeyOf(wallet), !.doc = config]
<1>1. /\ job[w].step = "pack" /\ job[w] \in Job
      /\ UNCHANGED <<config, wallet, safety, archives, shown, run, sec, mishap>>
  BY Acting DEF Pack, Doing, files
<1>2. KeyOf(wallet) \in Keys \cup {None} /\ config \in MaybeDoc
  BY DEF KeyOf, FilesInv, FileTypes, MaybeKeyFile, KeyFile
<1>3. /\ new \in Job /\ new.step = "publish" /\ new.run = job[w].run
      /\ new.key = KeyOf(wallet)
  BY <1>1, <1>2 DEF Job, Steps
<1>4. Goes(w, new)
  BY DEF Pack
<1> HIDE DEF new
<1>5. KeyOf(wallet)' = KeyOf(wallet)
  BY <1>1 DEF KeyOf
<1>6. ASSUME job'[w] = new PROVE WritePhase(w)'
  BY <1>3, <1>5, <1>6 DEF WritePhase
<1> QED
  BY <1>1, <1>3, <1>4, <1>6, PlainGoInv DEF RestoreSteps, SwapSteps

\* The archive of this run, as long as the run goes on.
LEMMA ArchiveAdded ==
    ASSUME FilesInv, NEW w \in Writers, job[w].step \in {"publish", "hash"},
           archives' \subseteq Archive, UNCHANGED <<wallet, safety, run>>,
           \A a \in archives' : \/ (\E b \in archives : a.at = b.at /\ a.key = b.key)
                               \/ (a.at = job[w].run /\ a.key = job[w].key)
    PROVE  StoreInv'
<1>1. job[w].run = run /\ run \in Nat /\ job[w].key = KeyOf(wallet)
  BY Acting, FilesAssumption DEF Doing, Phase, WritePhase, Runs
<1>2. \A b \in archives' : b.at <= run
  BY <1>1 DEF FilesInv, StoreInv
<1>3. Archived(wallet)'
  BY <1>1 DEF FilesInv, StoreInv, Archived, KeyOf
<1> QED
  BY <1>2, <1>3 DEF StoreInv

Sums == {"none", "right", "wrong"}

\* What a backup publishes, in place of an archive of the same name or not.
LEMMA PublishAdds ==
    ASSUME FilesInv, NEW w \in Writers, Publish(w)
    PROVE  \E name \in Names, sum \in Sums :
             archives' = (archives \ Named(name)) \cup {PackedArchive(w, name, sum)}
<1>1. PICK name \in Names :
        LET summed == {a \in Named(name) : a.sum # "none"}
            same == {a \in summed : a.key = job[w].key /\ a.doc = job[w].doc}
        IN  \E sum \in IF summed = {} THEN {"none"} ELSE {"wrong"} \cup {a.sum : a \in same} :
              archives' = (archives \ Named(name)) \cup {PackedArchive(w, name, sum)}
  BY Zenon DEF Publish
<1>2. \A a \in Named(name) : a.sum \in Sums
  BY DEF Named, FilesInv, FileTypes, Archive, Sums
<1> QED
  BY <1>1, <1>2 DEF Sums

LEMMA PackedIs ==
    ASSUME FilesInv, NEW w \in Writers, ~Doing(w, "idle"), NEW name \in Names, NEW sum \in Sums
    PROVE  /\ PackedArchive(w, name, sum) \in Archive
           /\ PackedArchive(w, name, sum).at = job[w].run
           /\ PackedArchive(w, name, sum).key = job[w].key
           /\ PackedArchive(w, name, sum).doc = job[w].doc
           /\ PackedArchive(w, name, sum).sec = sec
<1>1. job[w] \in Job /\ job[w].run \in Nat /\ sec \in Nat
  BY Acting, SecIs, FilesAssumption DEF Runs, FilesInv
<1> QED
  BY <1>1 DEF PackedArchive, Archive, Job, Sums

\* The hash changes nothing else in an archive.
LEMMA HashedIs ==
    ASSUME FilesInv, NEW w \in Writers, Hash(w)
    PROVE  /\ \A a \in archives' : /\ a \in Archive
                                  /\ \E b \in archives : a.at = b.at /\ a.key = b.key /\ a.doc = b.doc
                                                        /\ a.sec = b.sec /\ a.name = b.name
           /\ \A b \in archives : \E a \in archives' : a.key = b.key /\ a.doc = b.doc
<1>1. archives' = {IF a.at = job[w].run THEN [a EXCEPT !.sum = "right"] ELSE a : a \in archives}
  BY DEF Hash
<1>2. ASSUME NEW b \in archives, NEW a, a = IF b.at = job[w].run THEN [b EXCEPT !.sum = "right"] ELSE b
      PROVE  /\ a \in Archive /\ a.at = b.at /\ a.key = b.key /\ a.doc = b.doc
             /\ a.sec = b.sec /\ a.name = b.name
  <2>1. b \in Archive
    BY DEF FilesInv, FileTypes
  <2> QED
    BY <1>2, <2>1 DEF Archive
<1> DEFINE Hashed(b) == IF b.at = job[w].run THEN [b EXCEPT !.sum = "right"] ELSE b
<1>3. /\ \A a \in archives' : \E b \in archives : a = Hashed(b)
      /\ \A b \in archives : Hashed(b) \in archives'
  BY <1>1
<1>4. \A b \in archives :
        /\ Hashed(b) \in Archive /\ Hashed(b).at = b.at /\ Hashed(b).key = b.key
        /\ Hashed(b).doc = b.doc /\ Hashed(b).sec = b.sec /\ Hashed(b).name = b.name
  BY <1>2
<1> HIDE DEF Hashed
<1> QED
  BY <1>3, <1>4

LEMMA BackupInv ==
    ASSUME FilesInv, NEW w \in Writers, Publish(w) \/ Hash(w)
    PROVE  FilesInv'
<1> DEFINE new == [job[w] EXCEPT !.step = "hash"]
<1>1. /\ job[w].step \in {"publish", "hash"} /\ job[w] \in Job /\ Phase(w) /\ ~Doing(w, "idle")
      /\ job[w].run \in Nat
      /\ UNCHANGED <<config, wallet, safety, shown, run, sec, mishap>>
  BY Acting, FilesAssumption DEF Publish, Hash, Doing, Runs
<1>5. archives' \subseteq Archive /\ StoreInv'
  <2>1. CASE Publish(w)
    <3>1. PICK name \in Names, sum \in Sums :
            archives' = (archives \ Named(name)) \cup {PackedArchive(w, name, sum)}
      BY <2>1, PublishAdds
    <3>2. \A a \in archives' : a \in archives \/ a = PackedArchive(w, name, sum)
      BY <3>1
    <3>3. /\ archives' \subseteq Archive
          /\ \A a \in archives' : \/ (\E b \in archives : a.at = b.at /\ a.key = b.key)
                                  \/ (a.at = job[w].run /\ a.key = job[w].key)
      BY <1>1, <3>2, PackedIs DEF FilesInv, FileTypes
    <3> QED
      BY <1>1, <3>3, ArchiveAdded
  <2>2. CASE Hash(w)
    <3>1. /\ archives' \subseteq Archive
          /\ \A a \in archives' : \E b \in archives : a.at = b.at /\ a.key = b.key
      BY <2>2, HashedIs
    <3> QED
      BY <1>1, <3>1, ArchiveAdded
  <2> QED
    BY <2>1, <2>2
<1>6. FileTypes'
  BY <1>1, <1>5 DEF FilesInv, FileTypes
<1>7. ~mishap' => Consistent(config, wallet)'
  <2>1. ~mishap => Consistent(config, wallet)
    BY <1>1, Rested DEF Swapping, SwapSteps
  <2> QED
    BY <1>1, <2>1 DEF Consistent, KeyOf
<1>8. CASE Leaves(w)
  BY <1>1, <1>5, <1>6, <1>7, <1>8, EndInv
<1>9. CASE Goes(w, new)
  <2>1. new \in Job /\ new.step = "hash" /\ new.run = job[w].run /\ new.key = job[w].key
    BY <1>1 DEF Job, Steps
  <2> HIDE DEF new
  <2>2. ASSUME job'[w] = new PROVE Phase(w)'
    <3>1. WritePhase(w)'
      BY <1>1, <2>1, <2>2 DEF Phase, WritePhase, KeyOf
    <3>2. SwapPhase(w)'
      BY <2>1, <2>2, NoRestore DEF RestoreSteps, SwapSteps
    <3>3. ArchivePhase(w)'
      BY <2>1, <2>2 DEF ArchivePhase, Swapping, SwapSteps
    <3> QED
      BY <3>1, <3>2, <3>3 DEF Phase
  <2> QED
    BY <1>1, <1>5, <1>6, <1>7, <1>9, <2>1, <2>2, GoInv
<1> QED
  BY <1>8, <1>9 DEF Publish, Hash, Next_

-----------------------------------------------------------------------------
(* restore wallet.                                                         *)

LEMMA StageInv ==
    ASSUME FilesInv, NEW w \in Writers, Stage(w)
    PROVE  FilesInv'
<1> DEFINE found == [wallet |-> wallet, config |-> config]
<1>1. PICK a \in archives :
         /\ Opens(a)
         /\ Goes(w, [job[w] EXCEPT !.step = "asideWallet", !.key = a.key, !.doc = a.doc,
                                   !.before = found])
  BY DEF Stage
<1> DEFINE new == [job[w] EXCEPT !.step = "asideWallet", !.key = a.key, !.doc = a.doc,
                                 !.before = found]
<1>2. /\ job[w].step = "stage" /\ job[w] \in Job /\ Phase(w) /\ ~Doing(w, "idle")
      /\ job[w].run \in Runs
      /\ UNCHANGED <<config, wallet, safety, archives, shown, run, sec, mishap>>
  BY Acting DEF Stage, Doing, files
<1>3. found \in Place /\ found.wallet = wallet /\ found.config = config
  BY DEF FilesInv, FileTypes, Place
<1>4. a \in Archive
  BY DEF FilesInv, FileTypes
<1>5. /\ new \in Job /\ new.step = "asideWallet" /\ new.run = job[w].run
      /\ new.key = a.key /\ new.doc = a.doc /\ new.before = found
      /\ new.moved = job[w].moved
  <2> HIDE DEF found
  <2> QED
    BY <1>2, <1>3, <1>4 DEF Job, Steps, Archive
<1>6. FileTypes' /\ StoreInv' /\ (Consistent(config, wallet) <=> Consistent(config, wallet)')
  BY <1>2, FilesStand DEF FilesInv, FileTypes
<1>7. ~mishap => Consistent(config, wallet)
  BY <1>2, Rested DEF Swapping, SwapSteps
<1> HIDE DEF new
<1>8. ASSUME job'[w] = new PROVE Phase(w)'
  <2>1. WritePhase(w)'
    BY <1>5, <1>8 DEF WritePhase
  <2>2. ArchivePhase(w)'
    BY <1>2, <1>5, <1>8 DEF Phase, ArchivePhase, Swapping, SwapSteps
  <2>3. Found_(w)'
    BY <1>2, <1>3, <1>5, <1>7, <1>8 DEF Found_, Consistent, KeyOf
  <2>4. Opened(w)'
    BY <1>1, <1>5, <1>8 DEF Opened, Opens
  <2>5. job'[w].moved = {}
    BY <1>2, <1>5, <1>8 DEF Phase, SwapPhase
  <2>6. SwapPhase(w)'
    BY <1>2, <1>5, <1>8, <2>3, <2>4, <2>5 DEF SwapPhase, SwapSteps
  <2> QED
    BY <2>1, <2>2, <2>6 DEF Phase
<1> QED
  BY <1>1, <1>2, <1>5, <1>6, <1>7, <1>8, GoInv DEF new

\* The job of a process that takes the step s of a swap, with m moved so far,
\* and what is then kept of the files it found.
JobAt(w, s, m) ==
    /\ job'[w].step = s /\ job'[w].run = job[w].run /\ job'[w].doc = job[w].doc
    /\ job'[w].key = job[w].key /\ job'[w].before = job[w].before /\ job'[w].moved = m

LEMMA KeptThen ==
    ASSUME NEW w, NEW s, NEW m, JobAt(w, s, m), sec' = sec
    PROVE  /\ (Kept(w).wallet)' = IF "wallet" \in m THEN safety'[sec].wallet ELSE None
           /\ (Kept(w).config)' = IF "config" \in m THEN safety'[sec].config ELSE None
           /\ Kept(w)' = [wallet |-> (Kept(w).wallet)', config |-> (Kept(w).config)']
BY DEF Kept, JobAt

\* A step that only goes on has moved what was moved before.
LEMMA NextMoves ==
    ASSUME FilesInv, NEW w \in Writers, NEW s, Next_(w, s)
    PROVE  /\ job[w].moved \in SUBSET {"wallet", "config"}
           /\ Goes(w, [job[w] EXCEPT !.step = s, !.moved = job[w].moved])
<1>1. job[w] \in Job
  BY DEF FilesInv, JobTypes
<1>2. [job[w] EXCEPT !.step = s] = [job[w] EXCEPT !.step = s, !.moved = job[w].moved]
  BY <1>1 DEF Job
<1> QED
  BY <1>1, <1>2 DEF Job, Next_

\* A swap goes on.
LEMMA SwapGoInv ==
    ASSUME FilesInv, NEW w \in Writers, job[w].step \in SwapSteps \cup {"asideWallet"},
           NEW s \in SwapSteps \cup {"undone"}, NEW m \in SUBSET {"wallet", "config"},
           Goes(w, [job[w] EXCEPT !.step = s, !.moved = m]),
           FileTypes', UNCHANGED <<archives, run>>,
           Archived(wallet)',
           JobAt(w, s, m) => SwapPhase(w)' /\ (s \in SwapSteps => Archived(Kept(w).wallet)'),
           (s = "undone" /\ ~mishap') => Consistent(config, wallet)'
    PROVE  FilesInv'
<1> DEFINE new == [job[w] EXCEPT !.step = s, !.moved = m]
<1>1. /\ job[w] \in Job /\ Phase(w) /\ ~Doing(w, "idle") /\ job[w].run = run /\ run \in Runs
  BY Acting DEF Doing, SwapSteps
<1>2. /\ new \in Job /\ new.step = s /\ new.run = job[w].run /\ new.doc = job[w].doc
      /\ new.key = job[w].key /\ new.before = job[w].before /\ new.moved = m
  BY <1>1 DEF Job, Steps, SwapSteps
<1>3. Goes(w, new)
  OBVIOUS
<1>4. StoreInv'
  <2>1. \A a \in archives' : a.at <= run'
    BY DEF FilesInv, StoreInv
  <2> QED
    BY <2>1 DEF StoreInv
<1> HIDE DEF new
<1>5. ASSUME job'[w] = new PROVE Phase(w)'
  <2>1. JobAt(w, s, m)
    BY <1>2, <1>5 DEF JobAt
  <2>2. WritePhase(w)'
    BY <1>2, <1>5 DEF WritePhase, SwapSteps
  <2>3. \A a \in archives' : a.at # run'
    BY <1>1 DEF Phase, ArchivePhase, SwapSteps
  <2>4. ArchivePhase(w)'
    BY <1>2, <1>5, <2>1, <2>3 DEF ArchivePhase, Swapping
  <2> QED
    BY <2>1, <2>2, <2>4 DEF Phase
<1>6. (~mishap /\ ~Swapping(w))' => Consistent(config, wallet)'
  <2>1. job'[w] = new
    BY <1>3 DEF Goes, FilesInv, JobTypes
  <2> QED
    BY <1>2, <2>1 DEF Swapping
<1> QED
  BY <1>1, <1>2, <1>3, <1>4, <1>5, <1>6, GoInv

\* One of the two places in the safety directory of this second gets a file.
LEMMA SafetyWallet ==
    ASSUME FilesInv, NEW k \in MaybeKeyFile, safety' = [safety EXCEPT ![sec].wallet = k]
    PROVE  /\ safety' \in [Seconds -> Place]
           /\ safety'[sec].wallet = k /\ safety'[sec].config = safety[sec].config
           /\ \A s \in Seconds \ {sec} : safety'[s] = safety[s]
<1> DEFINE new == [safety[sec] EXCEPT !.wallet = k]
<1>1. sec \in Seconds /\ safety[sec] \in Place /\ safety \in [Seconds -> Place]
  BY SecIs DEF FilesInv, FileTypes
<1>2. new \in Place /\ new.wallet = k /\ new.config = safety[sec].config
  BY <1>1 DEF Place
<1>3. safety' = [safety EXCEPT ![sec] = new]
  OBVIOUS
<1> HIDE DEF new
<1> QED
  BY <1>1, <1>2, <1>3

LEMMA SafetyConfig ==
    ASSUME FilesInv, NEW d \in MaybeDoc, safety' = [safety EXCEPT ![sec].config = d]
    PROVE  /\ safety' \in [Seconds -> Place]
           /\ safety'[sec].config = d /\ safety'[sec].wallet = safety[sec].wallet
           /\ \A s \in Seconds \ {sec} : safety'[s] = safety[s]
<1> DEFINE new == [safety[sec] EXCEPT !.config = d]
<1>1. sec \in Seconds /\ safety[sec] \in Place /\ safety \in [Seconds -> Place]
  BY SecIs DEF FilesInv, FileTypes
<1>2. new \in Place /\ new.config = d /\ new.wallet = safety[sec].wallet
  BY <1>1 DEF Place
<1>3. safety' = [safety EXCEPT ![sec] = new]
  OBVIOUS
<1> HIDE DEF new
<1> QED
  BY <1>1, <1>2, <1>3

LEMMA AsideInv ==
    ASSUME FilesInv, NEW w \in Writers, Aside(w)
    PROVE  FilesInv'
<1>1. /\ job[w].step \in {"asideWallet", "asideConfig"} /\ ~Doing(w, "idle")
      /\ Phase(w) /\ job[w] \in Job
      /\ UNCHANGED <<archives, shown, run, sec, mishap>>
  BY Acting DEF Aside, Doing
<1>2. wallet \in MaybeKeyFile /\ config \in MaybeDoc /\ Archived(wallet)
  BY DEF FilesInv, FileTypes, StoreInv
<1>3. CASE Doing(w, "asideWallet")
  <2>1. /\ job[w].before = [wallet |-> wallet, config |-> config] /\ Opened(w) /\ Found_(w)
        /\ job[w].moved = {}
    BY <1>1, <1>3 DEF Phase, SwapPhase, Doing
  <2>2. PICK m \in SUBSET {"wallet", "config"} :
          /\ wallet' = None /\ config' = config
          /\ Goes(w, [job[w] EXCEPT !.step = "asideConfig", !.moved = m])
          /\ \/ wallet = None /\ safety' = safety /\ m = {}
             \/ safety' = [safety EXCEPT ![sec].wallet = wallet] /\ m = {"wallet"}
    <3>1. CASE wallet = None /\ Next_(w, "asideConfig") /\ UNCHANGED <<wallet, config, safety>>
      BY <2>1, <3>1, NextMoves
    <3>2. CASE /\ wallet' = None /\ safety' = [safety EXCEPT ![sec].wallet = wallet]
               /\ Goes(w, [job[w] EXCEPT !.step = "asideConfig", !.moved = {"wallet"}])
               /\ UNCHANGED config
      BY <3>2
    <3> QED
      BY <1>3, <3>1, <3>2 DEF Aside, Doing
  <2>3. /\ safety' \in [Seconds -> Place]
        /\ (IF "wallet" \in m THEN safety'[sec].wallet ELSE None) = wallet
    BY <1>2, <2>2, SafetyWallet DEF FilesInv, FileTypes
  <2>4. FileTypes'
    BY <1>1, <2>2, <2>3 DEF FilesInv, FileTypes, MaybeKeyFile
  <2>5. Archived(wallet)'
    BY <2>2 DEF Archived
  <2>6. ASSUME JobAt(w, "asideConfig", m)
        PROVE  SwapPhase(w)' /\ Archived(Kept(w).wallet)'
    <3>1. Found_(w)' /\ Opened(w)'
      BY <1>1, <2>1, <2>6 DEF Found_, Opened, JobAt, Consistent, KeyOf
    <3>2. (Kept(w).wallet)' = wallet
      BY <1>1, <2>3, <2>6, KeptThen
    <3>3. /\ (Kept(w).wallet)' = job'[w].before.wallet /\ config' = job'[w].before.config
          /\ "config" \notin job'[w].moved
      BY <2>1, <2>2, <2>6, <3>2 DEF JobAt
    <3>4. Archived(Kept(w).wallet)'
      BY <1>1, <1>2, <3>2 DEF Archived
    <3> QED
      BY <2>2, <2>6, <3>1, <3>3, <3>4 DEF SwapPhase, SwapSteps, JobAt
  <2> QED
    BY <1>1, <2>2, <2>4, <2>5, <2>6, SwapGoInv DEF SwapSteps
<1>4. CASE Doing(w, "asideConfig")
  <2>1. /\ wallet = None /\ Kept(w).wallet = job[w].before.wallet
        /\ config = job[w].before.config /\ "config" \notin job[w].moved
        /\ Opened(w) /\ Found_(w) /\ Archived(Kept(w).wallet)
    BY <1>1, <1>4 DEF Phase, SwapPhase, ArchivePhase, Swapping, SwapSteps, Doing
  <2>2. PICK m \in SUBSET {"wallet", "config"} :
          /\ config' = None /\ wallet' = wallet
          /\ Goes(w, [job[w] EXCEPT !.step = "installConfig", !.moved = m])
          /\ \/ config = None /\ safety' = safety /\ m = job[w].moved
             \/ safety' = [safety EXCEPT ![sec].config = config] /\ m = job[w].moved \cup {"config"}
    <3>1. CASE config = None /\ Next_(w, "installConfig") /\ UNCHANGED <<wallet, config, safety>>
      BY <3>1, NextMoves
    <3>2. CASE /\ config' = None /\ safety' = [safety EXCEPT ![sec].config = config]
               /\ Goes(w, [job[w] EXCEPT !.step = "installConfig",
                                         !.moved = job[w].moved \cup {"config"}])
               /\ UNCHANGED wallet
      <4>1. job[w].moved \cup {"config"} \in SUBSET {"wallet", "config"}
        BY <1>1 DEF Job
      <4> QED
        BY <3>2, <4>1
    <3> QED
      BY <1>4, <3>1, <3>2 DEF Aside, Doing
  <2>3. /\ safety' \in [Seconds -> Place] /\ safety'[sec].wallet = safety[sec].wallet
        /\ (IF "config" \in m THEN safety'[sec].config ELSE None) = config
        /\ "wallet" \in m <=> "wallet" \in job[w].moved
    BY <1>2, <2>1, <2>2, SafetyConfig DEF FilesInv, FileTypes
  <2>4. FileTypes'
    BY <1>1, <2>2, <2>3 DEF FilesInv, FileTypes, MaybeDoc
  <2>5. Archived(wallet)'
    BY <2>1, <2>2 DEF Archived
  <2>6. job[w].before \in Place
    BY <1>1 DEF Job
  <2>7. ASSUME JobAt(w, "installConfig", m)
        PROVE  SwapPhase(w)' /\ Archived(Kept(w).wallet)'
    <3>1. Found_(w)' /\ Opened(w)'
      BY <1>1, <2>1, <2>7 DEF Found_, Opened, JobAt, Consistent, KeyOf
    <3>2. (Kept(w).wallet)' = Kept(w).wallet /\ (Kept(w).config)' = config
      BY <1>1, <2>3, <2>7, KeptThen, KeptIs
    <3>3. Kept(w)' = job'[w].before
      <4>1. Kept(w)' = [wallet |-> job[w].before.wallet, config |-> job[w].before.config]
        BY <1>1, <2>1, <2>7, <3>2, KeptThen
      <4> QED
        BY <2>6, <2>7, <4>1 DEF JobAt, Place
    <3>4. Archived(Kept(w).wallet)'
      BY <1>1, <2>1, <3>2 DEF Archived
    <3> QED
      BY <2>1, <2>2, <2>7, <3>1, <3>3, <3>4 DEF SwapPhase, SwapSteps, JobAt
  <2>8. JobAt(w, "installConfig", m) => SwapPhase(w)' /\ Archived(Kept(w).wallet)'
    BY <2>7
  <2>9. /\ job[w].step \in SwapSteps \cup {"asideWallet"} /\ UNCHANGED <<archives, run>>
        /\ "installConfig" \in SwapSteps \cup {"undone"} /\ "installConfig" # "undone"
        /\ Goes(w, [job[w] EXCEPT !.step = "installConfig", !.moved = m])
    BY <1>1, <2>2 DEF SwapSteps
  <2> QED
    BY <2>4, <2>5, <2>8, <2>9, SwapGoInv
<1> QED
  BY <1>3, <1>4 DEF Aside

LEMMA InstallInv ==
    ASSUME FilesInv, NEW w \in Writers, Install(w)
    PROVE  FilesInv'
<1>1. /\ job[w].step \in {"installConfig", "installWallet"} /\ ~Doing(w, "idle")
      /\ Phase(w) /\ job[w].run = run /\ run \in Runs /\ job[w] \in Job
      /\ UNCHANGED <<safety, archives, shown, run, sec, mishap>>
  BY Acting DEF Install, Doing
<1>2. wallet = None /\ Opened(w) /\ Found_(w) /\ Kept(w) = job[w].before
  BY <1>1 DEF Phase, SwapPhase, SwapSteps
<1>3. CASE Doing(w, "installConfig")
  <2>1. /\ config = None /\ config' = job[w].doc /\ wallet' = wallet
        /\ Next_(w, "installWallet")
    BY <1>1, <1>3 DEF Install, Phase, SwapPhase, Doing
  <2>2. FileTypes'
    BY <1>1, <2>1 DEF FilesInv, FileTypes, Job
  <2>3. Archived(wallet)' /\ Archived(Kept(w).wallet)
    BY <1>1, <2>1 DEF FilesInv, StoreInv, Archived, Phase, ArchivePhase, Swapping, SwapSteps
  <2>4. ASSUME JobAt(w, "installWallet", job[w].moved)
        PROVE  SwapPhase(w)' /\ Archived(Kept(w).wallet)'
    <3>1. Kept(w)' = Kept(w)
      BY <1>1, <2>4 DEF Kept, JobAt
    <3>2. Found_(w)' /\ Opened(w)' /\ Archived(Kept(w).wallet)'
      BY <1>1, <1>2, <2>3, <2>4, <3>1 DEF Found_, Opened, JobAt, Consistent, KeyOf, Archived
    <3> QED
      BY <1>1, <1>2, <2>1, <2>4, <3>1, <3>2 DEF SwapPhase, SwapSteps, JobAt
  <2> QED
    BY <1>1, <2>1, <2>2, <2>3, <2>4, SwapGoInv, NextMoves DEF SwapSteps
<1>4. CASE Doing(w, "installWallet")
  <2>1. /\ config = job[w].doc /\ config' = config /\ Leaves(w)
        /\ wallet' = IF job[w].key = None THEN wallet
                     ELSE [key |-> job[w].key, written |-> job[w].run]
    BY <1>1, <1>4 DEF Install, Phase, SwapPhase, Doing, InstalledAt
  <2>2. CASE job[w].key = None
    <3>1. FileTypes' /\ StoreInv'
      BY <1>1, <2>1, <2>2, FilesStand DEF FilesInv, FileTypes
    <3>2. Consistent(config, wallet)'
      BY <1>2, <2>1, <2>2 DEF Opened, Consistent
    <3> QED
      BY <1>1, <2>1, <3>1, <3>2, EndInv
  <2>3. CASE job[w].key # None
    <3>1. job[w].key \in Keys
      BY <1>1, <2>3 DEF Job
    <3>2. /\ wallet' \in KeyFile /\ KeyOf(wallet)' = job[w].key /\ StoreInv'
      BY <1>1, <2>1, <2>3, <3>1, NewKeyFile
    <3>3. FileTypes'
      BY <1>1, <2>1, <3>2 DEF FilesInv, FileTypes, MaybeKeyFile
    <3>4. Consistent(config, wallet)'
      BY <1>2, <2>1, <3>2 DEF Opened, Consistent
    <3> QED
      BY <1>1, <2>1, <3>2, <3>3, <3>4, EndInv
  <2> QED
    BY <2>2, <2>3
<1> QED
  BY <1>3, <1>4 DEF Install

LEMMA SwapGoesWrongInv ==
    ASSUME FilesInv, NEW w \in Writers, SwapGoesWrong(w)
    PROVE  FilesInv'
<1>1. /\ job[w].step \in {"asideWallet", "asideConfig", "installConfig", "installWallet"}
      /\ ~Doing(w, "idle") /\ Phase(w)
      /\ UNCHANGED <<config, wallet, safety, archives, shown, run, sec, mishap>>
      /\ Next_(w, "backConfig")
  BY Acting DEF SwapGoesWrong, Doing, files
<1>2. FileTypes'
  BY <1>1, FilesStand DEF FilesInv, FileTypes
<1>3. /\ job[w].moved = {} => Kept(w).wallet = None /\ Kept(w).config = None
      /\ "config" \notin job[w].moved => Kept(w).config = None
  BY KeptIs
<1>4. WalletThere(w) /\ ConfigThere(w) /\ Found_(w)
  BY <1>1, <1>3 DEF Phase, SwapPhase, SwapSteps, WalletThere, ConfigThere
<1>5. Archived(wallet)' /\ Archived(Kept(w).wallet)
  BY <1>1, <1>3 DEF FilesInv, StoreInv, Archived, Phase, ArchivePhase, SwapPhase, Swapping, SwapSteps
<1>6. ASSUME JobAt(w, "backConfig", job[w].moved)
      PROVE  SwapPhase(w)' /\ Archived(Kept(w).wallet)'
  <2>1. Kept(w)' = Kept(w)
    BY <1>1, <1>6 DEF Kept, JobAt
  <2>2. Found_(w)' /\ WalletThere(w)' /\ ConfigThere(w)' /\ Archived(Kept(w).wallet)'
    BY <1>1, <1>4, <1>5, <1>6, <2>1 DEF Found_, WalletThere, ConfigThere, JobAt, Consistent, KeyOf,
       Archived
  <2> QED
    BY <1>6, <2>2 DEF SwapPhase, SwapSteps, JobAt
<1>7. /\ job[w].moved \in SUBSET {"wallet", "config"}
      /\ Goes(w, [job[w] EXCEPT !.step = "backConfig", !.moved = job[w].moved])
  BY <1>1, NextMoves
<1>8. /\ job[w].step \in SwapSteps \cup {"asideWallet"} /\ UNCHANGED <<archives, run>>
      /\ "backConfig" \in SwapSteps \cup {"undone"} /\ "backConfig" # "undone"
  BY <1>1 DEF SwapSteps
<1>9. JobAt(w, "backConfig", job[w].moved) => SwapPhase(w)' /\ Archived(Kept(w).wallet)'
  BY <1>6
<1> QED
  BY <1>2, <1>5, <1>7, <1>8, <1>9, SwapGoInv

\* The second half of the roll-back: whatever it does, the files found are in
\* place or kept.
LEMMA BackWalletInv ==
    ASSUME FilesInv, NEW w \in Writers, Doing(w, "backWallet"), PutBack(w) \/ PutBackFails(w)
    PROVE  FilesInv'
<1> DEFINE m == job[w].moved
<1>1. /\ job[w].step = "backWallet" /\ ~Doing(w, "idle") /\ Phase(w)
      /\ UNCHANGED <<config, archives, shown, run, sec>> /\ Next_(w, "undone")
  BY Acting DEF PutBack, PutBackFails, Doing
<1>2. /\ WalletThere(w) /\ Found_(w) /\ Archived(Kept(w).wallet)
      /\ \/ job[w].before.config \in {None, config}
         \/ mishap /\ job[w].before.config = Kept(w).config
      /\ mishap \/ config = job[w].before.config
  BY <1>1 DEF Phase, SwapPhase, ArchivePhase, Swapping, SwapSteps
<1>3. /\ Kept(w).wallet = IF "wallet" \in m THEN safety[sec].wallet ELSE None
      /\ Kept(w).config = IF "config" \in m THEN safety[sec].config ELSE None
  BY KeptIs
<1>4. /\ Kept(w).wallet \in MaybeKeyFile /\ None \in MaybeKeyFile
      /\ safety \in [Seconds -> Place] /\ wallet \in MaybeKeyFile /\ Archived(wallet)
  BY <1>3, SecIs DEF FilesInv, FileTypes, MaybeKeyFile, StoreInv
<1>5. CASE PutBack(w)
  <2>1. /\ wallet' = (IF Kept(w).wallet = None THEN wallet ELSE Kept(w).wallet)
        /\ \/ safety' = safety /\ Kept(w).wallet = None
           \/ safety' = [safety EXCEPT ![sec].wallet = None]
        /\ mishap' = mishap
    BY <1>1, <1>5 DEF PutBack, Doing
  <2>2. safety' \in [Seconds -> Place] /\ safety'[sec].config = safety[sec].config
    BY <1>4, <2>1, SafetyWallet
  <2>3. FileTypes'
    BY <1>1, <1>4, <2>1, <2>2 DEF FilesInv, FileTypes
  <2>4. Archived(wallet)'
    BY <1>1, <1>2, <1>4, <2>1 DEF Archived
  <2>5. wallet' = job[w].before.wallet
    BY <1>2, <2>1 DEF WalletThere
  <2>6. ~mishap' => Consistent(config, wallet)'
    BY <1>1, <1>2, <2>1, <2>5 DEF Found_, Consistent, KeyOf
  <2>7. ASSUME JobAt(w, "undone", m) PROVE SwapPhase(w)'
    <3>1. (Kept(w).config)' = Kept(w).config
      BY <1>1, <1>3, <2>2, <2>7, KeptThen
    <3> QED
      BY <1>1, <1>2, <2>1, <2>5, <2>7, <3>1 DEF SwapPhase, SwapSteps, JobAt
  <2> QED
    BY <1>1, <2>3, <2>4, <2>6, <2>7, SwapGoInv, NextMoves DEF SwapSteps
<1>6. CASE PutBackFails(w)
  <2>1. wallet' = None /\ Kept(w).wallet # None /\ mishap' = TRUE /\ safety' = safety
    BY <1>1, <1>6 DEF PutBackFails, Doing
  <2>2. FileTypes'
    BY <1>1, <2>1 DEF FilesInv, FileTypes, MaybeKeyFile
  <2>3. Archived(wallet)'
    BY <2>1 DEF Archived
  <2>4. ASSUME JobAt(w, "undone", m) PROVE SwapPhase(w)'
    <3>1. Kept(w)' = Kept(w)
      BY <1>1, <2>1, <2>4 DEF Kept, JobAt
    <3>2. Kept(w).wallet = job[w].before.wallet
      BY <1>2, <2>1 DEF WalletThere
    <3> QED
      BY <1>1, <1>2, <2>1, <2>4, <3>1, <3>2 DEF SwapPhase, SwapSteps, JobAt
  <2> QED
    BY <1>1, <2>1, <2>2, <2>3, <2>4, SwapGoInv, NextMoves DEF SwapSteps
<1> QED
  BY <1>5, <1>6

LEMMA BackConfigInv ==
    ASSUME FilesInv, NEW w \in Writers, Doing(w, "backConfig"), PutBack(w) \/ PutBackFails(w)
    PROVE  FilesInv'
<1> DEFINE m == job[w].moved
<1>1. /\ job[w].step = "backConfig" /\ ~Doing(w, "idle") /\ Phase(w)
      /\ UNCHANGED <<wallet, archives, shown, run, sec>> /\ Next_(w, "backWallet")
  BY Acting DEF PutBack, PutBackFails, Doing
<1>2. WalletThere(w) /\ ConfigThere(w) /\ Found_(w) /\ Archived(Kept(w).wallet)
  BY <1>1 DEF Phase, SwapPhase, ArchivePhase, Swapping, SwapSteps
<1>3. /\ Kept(w).wallet = IF "wallet" \in m THEN safety[sec].wallet ELSE None
      /\ Kept(w).config = IF "config" \in m THEN safety[sec].config ELSE None
  BY KeptIs
<1>4. /\ Kept(w).config \in MaybeDoc /\ None \in MaybeDoc /\ mishap \in BOOLEAN
      /\ safety \in [Seconds -> Place] /\ config \in MaybeDoc
  BY <1>3, SecIs DEF FilesInv, FileTypes, MaybeDoc
<1>5. Archived(wallet)'
  BY <1>1 DEF FilesInv, StoreInv, Archived
<1>8. /\ m \in SUBSET {"wallet", "config"}
      /\ Goes(w, [job[w] EXCEPT !.step = "backWallet", !.moved = m])
  BY <1>1, NextMoves
<1>9. /\ job[w].step \in SwapSteps \cup {"asideWallet"} /\ UNCHANGED <<archives, run>>
      /\ "backWallet" \in SwapSteps \cup {"undone"} /\ "backWallet" # "undone"
  BY <1>1 DEF SwapSteps
<1>6. CASE PutBack(w)
  <2> DEFINE old == Kept(w).config
  <2>1. /\ config' = (IF old = None THEN config ELSE old)
        /\ (safety' = safety /\ old = None) \/ safety' = [safety EXCEPT ![sec].config = None]
        /\ mishap' = (mishap \/ (old = None /\ config # job[w].before.config))
    BY <1>1, <1>6 DEF PutBack, Doing
  <2>2. safety' \in [Seconds -> Place] /\ safety'[sec].wallet = safety[sec].wallet
    BY <1>4, <2>1, SafetyConfig
  <2>3. mishap' \in BOOLEAN /\ (mishap => mishap')
    BY <1>4, <2>1
  <2>4. FileTypes'
    BY <1>1, <1>4, <2>1, <2>2, <2>3 DEF FilesInv, FileTypes
  <2>5. /\ job[w].before.config \in {None, config'}
        /\ mishap' \/ config' = job[w].before.config
    BY <1>2, <2>1 DEF ConfigThere
  <2>6. ASSUME JobAt(w, "backWallet", m)
        PROVE  SwapPhase(w)' /\ Archived(Kept(w).wallet)'
    <3>1. (Kept(w).wallet)' = Kept(w).wallet
      BY <1>1, <1>3, <2>2, <2>6, KeptThen
    <3>2. WalletThere(w)' /\ Archived(Kept(w).wallet)'
      BY <1>1, <1>2, <2>6, <3>1 DEF WalletThere, JobAt, Archived
    <3>3. Found_(w)'
      BY <1>2, <2>3, <2>6 DEF Found_, JobAt, Consistent, KeyOf
    <3> QED
      BY <2>5, <2>6, <3>2, <3>3 DEF SwapPhase, SwapSteps, JobAt
  <2>7. JobAt(w, "backWallet", m) => SwapPhase(w)' /\ Archived(Kept(w).wallet)'
    BY <2>6
  <2> QED
    BY <1>5, <1>8, <1>9, <2>4, <2>7, SwapGoInv
<1>7. CASE PutBackFails(w)
  <2>1. config' = None /\ Kept(w).config # None /\ mishap' = TRUE /\ safety' = safety
    BY <1>1, <1>7 DEF PutBackFails, Doing
  <2>2. FileTypes'
    BY <1>1, <2>1 DEF FilesInv, FileTypes, MaybeDoc
  <2>3. ASSUME JobAt(w, "backWallet", m)
        PROVE  SwapPhase(w)' /\ Archived(Kept(w).wallet)'
    <3>1. Kept(w)' = Kept(w) /\ Kept(w).config = job[w].before.config
      BY <1>1, <1>2, <2>1, <2>3 DEF Kept, JobAt, ConfigThere
    <3>2. WalletThere(w)' /\ Found_(w)' /\ Archived(Kept(w).wallet)'
      BY <1>1, <1>2, <2>1, <2>3, <3>1 DEF WalletThere, Found_, JobAt, Archived
    <3> QED
      BY <2>1, <2>3, <3>1, <3>2 DEF SwapPhase, SwapSteps, JobAt
  <2>4. JobAt(w, "backWallet", m) => SwapPhase(w)' /\ Archived(Kept(w).wallet)'
    BY <2>3
  <2> QED
    BY <1>5, <1>8, <1>9, <2>2, <2>4, SwapGoInv
<1> QED
  BY <1>6, <1>7

-----------------------------------------------------------------------------
(* The whole.                                                              *)

LEMMA FilesInitInv == FilesInit => FilesInv
<1> SUFFICES ASSUME FilesInit PROVE FilesInv
  OBVIOUS
<1>1. /\ wallet = None /\ shown = {} /\ flock = None /\ run = 0 /\ sec = 0 /\ mishap = FALSE
      /\ safety = [s \in Seconds |-> Nothing] /\ job = [w \in Writers |-> NoJob]
      /\ config \in {None, [producer |-> None, text |-> Plain]}
  BY DEF FilesInit
<1>2. \A a \in archives : a \in Archive /\ a.at = 0
  <2>1. ASSUME NEW k \in Keys, NEW a \in Foreign(k) PROVE a \in Archive /\ a.at = 0
    <3>1. PICK key \in {k, None}, sum \in {"none", "right"} :
            a = [at |-> 0, sec |-> 0, name |-> "brought", key |-> key,
                 doc |-> [producer |-> k, text |-> Plain], sum |-> sum]
      BY DEF Foreign
    <3> QED
      BY <3>1, NoneIsNone DEF Archive, MaybeDoc, Doc
  <2> QED
    BY <2>1 DEF FilesInit
<1>3. config \in MaybeDoc
  BY <1>1, NoneIsNone DEF MaybeDoc, Doc
<1>4. FileTypes
  <2>1. safety \in [Seconds -> Place] /\ archives \subseteq Archive
    BY <1>1, <1>2, PlainFileTypes
  <2>2. wallet \in MaybeKeyFile /\ shown \subseteq Keys
    BY <1>1 DEF MaybeKeyFile
  <2>3. 0 \in 0 .. MaxRuns /\ 0 \in 0 .. 0
    BY FilesAssumption
  <2>4. run \in 0 .. MaxRuns /\ sec \in 0 .. run
    BY <1>1, <2>3, Zenon
  <2>5. mishap \in BOOLEAN
    BY <1>1
  <2> QED
    BY <1>3, <2>1, <2>2, <2>4, <2>5 DEF FileTypes
<1>5. \A w \in Writers : job[w].step = "idle"
  BY <1>1, PlainFileTypes
<1>6. JobTypes /\ LockInv
  BY <1>1, <1>5, PlainFileTypes DEF JobTypes, LockInv, Doing
<1>7. StoreInv
  BY <1>1, <1>2 DEF StoreInv, Archived
<1>8. RestInv
  BY <1>1 DEF RestInv, Consistent
<1>9. \A w \in Writers : Phase(w)
  BY <1>5 DEF Phase, WritePhase, SwapPhase, ArchivePhase, Swapping, SwapSteps
<1> QED
  BY <1>4, <1>6, <1>7, <1>8, <1>9 DEF FilesInv

LEMMA FilesNextInv == FilesInv /\ [FilesNext]_filesVars => FilesInv'
<1> SUFFICES ASSUME FilesInv, [FilesNext]_filesVars PROVE FilesInv'
  OBVIOUS
<1>1. CASE UNCHANGED filesVars
  <2>1. UNCHANGED <<config, wallet, safety, archives, shown, flock, job, run, sec, mishap>>
    BY <1>1 DEF filesVars, files
  <2>2. FileTypes' /\ StoreInv'
    BY <2>1, FilesStand DEF FilesInv, FileTypes
  <2>3. JobTypes' /\ LockInv' /\ RestInv'
    BY <2>1 DEF FilesInv, JobTypes, LockInv, Doing, RestInv, Swapping, Consistent, KeyOf
  <2>4. ASSUME NEW w \in Writers PROVE Phase(w)'
    <3>1. Loaded' = Loaded /\ KeyOf(wallet)' = KeyOf(wallet) /\ Kept(w)' = Kept(w)
      BY <2>1 DEF Loaded, KeyOf, Kept
    <3>2. Phase(w)
      BY DEF FilesInv
    <3>3. WritePhase(w)'
      BY <2>1, <3>1, <3>2 DEF Phase, WritePhase
    <3>4. Found_(w)' = Found_(w) /\ Opened(w)' = Opened(w)
      BY <2>1 DEF Found_, Opened, Consistent, KeyOf
    <3>5. WalletThere(w)' = WalletThere(w) /\ ConfigThere(w)' = ConfigThere(w)
      BY <2>1, <3>1 DEF WalletThere, ConfigThere
    <3>6. SwapPhase(w)'
      BY <2>1, <3>1, <3>2, <3>4, <3>5 DEF Phase, SwapPhase
    <3>7. ArchivePhase(w)'
      BY <2>1, <3>1, <3>2 DEF Phase, ArchivePhase, Swapping, Archived
    <3> QED
      BY <3>3, <3>6, <3>7 DEF Phase
  <2> QED
    BY <2>2, <2>3, <2>4 DEF FilesInv
<1>2. ASSUME NEW w \in Writers,
             \/ Run(w) \/ Refused(w) \/ Dies(w)
             \/ Read(w) \/ Keep(w) \/ Rename(w) \/ WriteFails(w)
             \/ Inspect(w) \/ Create(w) \/ CreateFails(w) \/ Wire(w)
             \/ TellPassword(w)
             \/ Pack(w) \/ Publish(w) \/ Hash(w) \/ BackupFails(w)
             \/ Stage(w) \/ Aside(w) \/ Install(w) \/ SwapGoesWrong(w)
             \/ PutBack(w) \/ PutBackFails(w) \/ Undone(w)
      PROVE  FilesInv'
  <2>1. CASE Run(w) \/ Read(w) \/ Keep(w) \/ Rename(w) \/ Inspect(w) \/ Create(w)
             \/ CreateFails(w) \/ Wire(w)
    BY <2>1, RunInv, ReadInv, KeepInv, RenameInv, InspectInv, CreateInv, WireInv
  <2>2. CASE Refused(w) \/ Dies(w) \/ WriteFails(w) \/ BackupFails(w) \/ Undone(w)
             \/ TellPassword(w)
    BY <2>2, StopsInv
  <2>3. CASE Pack(w) \/ Publish(w) \/ Hash(w) \/ Stage(w) \/ Aside(w) \/ Install(w)
             \/ SwapGoesWrong(w)
    BY <2>3, PackInv, BackupInv, StageInv, AsideInv, InstallInv, SwapGoesWrongInv
  <2>4. CASE PutBack(w) \/ PutBackFails(w)
    <3>1. Doing(w, "backConfig") \/ Doing(w, "backWallet")
      BY <2>4 DEF PutBack, PutBackFails
    <3> QED
      BY <2>4, <3>1, BackConfigInv, BackWalletInv
  <2> QED
    BY <1>2, <2>1, <2>2, <2>3, <2>4
<1> QED
  BY <1>1, <1>2 DEF FilesNext

\* The inductive invariant of the files that let a node produce: one process
\* writes at a time, and at each of its steps the files, the job and the
\* safety directory make up a node that can be told (SaveUnchecked, Setup,
\* Backup and Restore under the operation lock).
THEOREM Files == FilesSpec => []FilesInv
<1>1. FilesInv /\ [FilesNext]_filesVars => FilesInv'
  BY FilesNextInv
<1> QED
  BY <1>1, FilesInitInv, PTL DEF FilesSpec

\* Between commands the producer that config.json names is the key in the
\* wallet, unless a process was killed or a roll-back was partial: Setup writes
\* the key before the config, and Restore refuses a pair that does not fit.
THEOREM ConfigsOpen == FilesSpec => []ConfigOpens
<1>1. FilesInv => ConfigOpens
  <2> SUFFICES ASSUME FilesInv, flock = None, ~mishap, Loaded.producer # None
               PROVE  KeyOf(wallet) = Loaded.producer
    BY DEF ConfigOpens
  <2>1. \A w \in Writers : job[w].step = "idle"
    BY NoneIsNone DEF FilesInv, LockInv, Doing
  <2>2. Consistent(config, wallet)
    BY <2>1 DEF FilesInv, RestInv, Swapping, SwapSteps
  <2> QED
    BY <2>2, LoadedType DEF FilesInv
<1> QED
  BY <1>1, Files, PTL

\* A silent wallet_backup_missing means that a listed backup holds the key of
\* the wallet, although Status.Missing compares nothing but two times: a
\* restored key is as new as the restore, not as its archive.
THEOREM SilencesMeanBackups == FilesSpec => []SilenceMeansBackedUp
<1>1. FilesInv => SilenceMeansBackedUp
  BY DEF FilesInv, StoreInv, Archived, SilenceMeansBackedUp, Missing, Listed
<1> QED
  BY <1>1, Files, PTL

\* A restore that failed has left each file that it found in its place or, if
\* putting it back failed too, in the safety directory (Restore's rollback).
THEOREM RestoresPutBack == FilesSpec => []FilesPutBack
<1>1. FilesInv => FilesPutBack
  BY DEF FilesInv, Phase, SwapPhase, FilesPutBack, Doing
<1> QED
  BY <1>1, Files, PTL

\* A config command writes the producer that is in the file when it writes,
\* although it read the document some time before: no other process can have
\* set up or restored one in between (the lock of cmd/root.go).
THEOREM ProducersAreReserved == FilesSpec => ProducerReserved
<1>1. FilesInv /\ [FilesNext]_filesVars =>
        [\A w \in Writers :
            (job[w].cmd \in ConfigCommands /\ Rename(w)) =>
                Loaded'.producer = Loaded.producer]_filesVars
  <2> SUFFICES ASSUME FilesInv, NEW w \in Writers, job[w].cmd \in ConfigCommands, Rename(w)
               PROVE  Loaded'.producer = Loaded.producer
    OBVIOUS
  <2>1. /\ job[w].doc \in Doc /\ config' = job[w].doc
        /\ job[w].doc.producer = Loaded.producer
    BY DEF FilesInv, Phase, WritePhase, Rename, Doing, ConfigCommands
  <2>2. Loaded' = job[w].doc
    BY <2>1, NoneIsNone DEF Loaded
  <2> QED
    BY <2>1, <2>2
<1> QED
  BY <1>1, Files, PTL DEF FilesSpec, ProducerReserved

-----------------------------------------------------------------------------
(***************************************************************************)
(* Types.  A copy gets a number only while there are fewer of them than    *)
(* commands were run, so there is always one left.                         *)
(***************************************************************************)
BeforeRename == {"read", "inspect", "create", "wire", "keep"}
CopiesInv ==
    /\ copies \subseteq Copy
    /\ \A c \in copies : c.n < run
    /\ \A w \in Writers : job[w].step \in BeforeRename => \A c \in copies : c.n + 1 < run

LEMMA Least ==
    ASSUME NEW S \in SUBSET Nat, S # {}
    PROVE  \E n \in S : \A m \in S : n <= m
<1>1. PICK R : R = {p \in Nat \X Nat : p[1] < p[2]}
  OBVIOUS
<1>2. IsWellFoundedOn(R, Nat)
  BY <1>1, NatLessThanWellFounded DEF OpToRel
<1>3. PICK n \in S : \A m \in S : <<m, n>> \notin R
  BY <1>2, WFMin
<1>4. ASSUME NEW m \in S PROVE n <= m
  <2>1. m \in Nat /\ n \in Nat /\ ~(m < n)
    BY <1>1, <1>3
  <2> QED
    BY <2>1
<1> QED
  BY <1>4

\* backupName finds a number no copy of the second has, and no number is
\* ever larger than the writes before it.
LEMMA FreeNumber ==
    ASSUME copies \subseteq Copy, run \in Runs, NEW cmd, cmd # "setup",
           \A c \in copies : c.n + 1 < run
    PROVE  /\ CopyNumber(cmd) \in Nat /\ CopyNumber(cmd) < run
           /\ \A c \in copies : ~(c.sec = sec /\ c.n = CopyNumber(cmd))
<1> DEFINE Taken(n) == \E c \in copies : c.sec = sec /\ c.n = n
           free == {n \in 0 .. MaxRuns : ~Taken(n)}
<1>1. MaxRuns \in Nat /\ run \in 1 .. MaxRuns
  BY FilesAssumption DEF Runs
<1>2. run - 1 \in free
  BY <1>1
<1>3. PICK m \in free : \A n \in free : m <= n
  <2>1. free \in SUBSET Nat
    BY <1>1
  <2> HIDE DEF free
  <2> QED
    BY <1>2, <2>1, Least
<1>4. \A n \in 0 .. m - 1 : Taken(n)
  BY <1>1, <1>3
<1>5. \E n \in 0 .. MaxRuns : ~Taken(n) /\ \A k \in 0 .. n - 1 : Taken(k)
  BY <1>3, <1>4
<1>6. CopyNumber(cmd) = CHOOSE n \in 0 .. MaxRuns : ~Taken(n) /\ \A k \in 0 .. n - 1 : Taken(k)
  BY DEF CopyNumber
<1> HIDE DEF Taken
<1>7. /\ CopyNumber(cmd) \in 0 .. MaxRuns /\ ~Taken(CopyNumber(cmd))
      /\ \A k \in 0 .. CopyNumber(cmd) - 1 : Taken(k)
  BY <1>5, <1>6
<1>8. PICK n \in 0 .. MaxRuns : n = CopyNumber(cmd)
  BY <1>7
<1>9. n < run
  <2>1. ASSUME n >= run PROVE FALSE
    <3>1. run - 1 \in 0 .. n - 1
      BY <1>1, <2>1
    <3> QED
      BY <1>2, <1>7, <1>8, <3>1
  <2> QED
    BY <1>1, <2>1
<1> QED
  BY <1>1, <1>7, <1>8, <1>9 DEF Taken

\* A process goes on, and the copies stay.
StaysBefore(w) ==
    /\ UNCHANGED <<copies, run>>
    /\ \E new : /\ job' = [job EXCEPT ![w] = new]
                /\ new.step \in BeforeRename => job[w].step \in BeforeRename

LEMMA CopiesStay ==
    ASSUME FilesInv, CopiesInv, NEW w \in Writers, StaysBefore(w)
    PROVE  CopiesInv'
<1>1. PICK new : /\ job' = [job EXCEPT ![w] = new]
                 /\ new.step \in BeforeRename => job[w].step \in BeforeRename
  BY DEF StaysBefore
<1>2. job'[w] = new /\ \A v \in Writers \ {w} : job'[v] = job[v]
  BY <1>1 DEF FilesInv, JobTypes
<1>3. UNCHANGED <<copies, run>>
  BY DEF StaysBefore
<1> QED
  BY <1>1, <1>2, <1>3 DEF CopiesInv

LEMMA JobIs ==
    ASSUME FilesInv, NEW w \in Writers
    PROVE  job[w] \in Job
BY DEF FilesInv, JobTypes

LEMMA NextStays ==
    ASSUME FilesInv, NEW w \in Writers, NEW s, s \notin BeforeRename, Next_(w, s),
           UNCHANGED <<copies, run>>
    PROVE  StaysBefore(w)
<1>1. [job[w] EXCEPT !.step = s].step = s
  BY JobIs DEF Job
<1> QED
  BY <1>1 DEF Next_, Goes, StaysBefore

LEMMA LeavesStays ==
    ASSUME NEW w, Leaves(w), UNCHANGED <<copies, run>>
    PROVE  StaysBefore(w)
<1>1. NoJob.step \notin BeforeRename
  BY DEF NoJob, BeforeRename
<1> QED
  BY <1>1 DEF Leaves, StaysBefore

LEMMA MostStay ==
    ASSUME FilesInv, NEW w \in Writers,
             \/ Refused(w) \/ Dies(w)
             \/ Read(w) \/ Rename(w) \/ WriteFails(w)
             \/ Inspect(w) \/ Create(w) \/ CreateFails(w) \/ Wire(w)
             \/ TellPassword(w)
             \/ Pack(w) \/ Publish(w) \/ Hash(w) \/ BackupFails(w)
             \/ Stage(w) \/ Aside(w) \/ Install(w) \/ SwapGoesWrong(w)
             \/ PutBack(w) \/ PutBackFails(w) \/ Undone(w)
    PROVE  StaysBefore(w)
<1>1. CASE Refused(w) \/ Dies(w) \/ WriteFails(w) \/ CreateFails(w) \/ TellPassword(w)
           \/ Hash(w) \/ BackupFails(w) \/ Undone(w)
  BY <1>1, LeavesStays
     DEF Refused, Dies, WriteFails, CreateFails, TellPassword, Hash, BackupFails, Undone, files
<1>2. CASE Read(w) \/ Inspect(w) \/ Create(w) \/ Wire(w)
  <2>1. UNCHANGED <<copies, run>> /\ job[w].step \in BeforeRename
    BY <1>2 DEF Read, Inspect, Create, Wire, Doing, files, BeforeRename
  <2>2. \E new : job' = [job EXCEPT ![w] = new]
    BY <1>2 DEF Read, Inspect, Create, Wire, Goes, Next_, Leaves
  <2> QED
    BY <2>1, <2>2 DEF StaysBefore
<1>3. CASE Pack(w)
  <2>1. [job[w] EXCEPT !.step = "publish", !.key = KeyOf(wallet), !.doc = config].step = "publish"
    BY JobIs DEF Job
  <2> QED
    BY <1>3, <2>1 DEF Pack, Goes, StaysBefore, BeforeRename, files
<1>4. CASE Stage(w)
  <2>1. PICK a : Goes(w, [job[w] EXCEPT
                !.step = "asideWallet", !.key = a.key, !.doc = a.doc,
                !.before = [wallet |-> wallet, config |-> config]])
    BY <1>4 DEF Stage
  <2>2. PICK new : new = [job[w] EXCEPT
                !.step = "asideWallet", !.key = a.key, !.doc = a.doc,
                !.before = [wallet |-> wallet, config |-> config]]
    OBVIOUS
  <2>3. new.step = "asideWallet" /\ job' = [job EXCEPT ![w] = new]
    BY <2>1, <2>2, JobIs DEF Job, Goes
  <2> QED
    BY <1>4, <2>3 DEF Stage, StaysBefore, BeforeRename, files
<1>5. CASE Rename(w)
  BY <1>5, NextStays, LeavesStays DEF Rename, BeforeRename
<1>6. CASE Publish(w) \/ SwapGoesWrong(w)
  BY <1>6, NextStays DEF Publish, SwapGoesWrong, BeforeRename, files
<1>7. CASE Aside(w)
  <2>1. ASSUME NEW s \in {"asideConfig", "installConfig"}, NEW m
        PROVE  [job[w] EXCEPT !.step = s, !.moved = m].step = s
    BY JobIs DEF Job
  <2>2. \/ Next_(w, "asideConfig") \/ Next_(w, "installConfig")
        \/ \E s \in {"asideConfig", "installConfig"} :
             \E m : Goes(w, [job[w] EXCEPT !.step = s, !.moved = m])
    BY <1>7 DEF Aside
  <2>3. UNCHANGED <<copies, run>>
    BY <1>7 DEF Aside
  <2>4. CASE Next_(w, "asideConfig") \/ Next_(w, "installConfig")
    BY <2>3, <2>4, NextStays DEF BeforeRename
  <2>5. CASE \E s \in {"asideConfig", "installConfig"} :
               \E m : Goes(w, [job[w] EXCEPT !.step = s, !.moved = m])
    <3>1. PICK s \in {"asideConfig", "installConfig"} :
            \E m : Goes(w, [job[w] EXCEPT !.step = s, !.moved = m])
      BY <2>5
    <3>2. PICK m : Goes(w, [job[w] EXCEPT !.step = s, !.moved = m])
      BY <3>1
    <3>3. PICK new : new = [job[w] EXCEPT !.step = s, !.moved = m]
      OBVIOUS
    <3>4. job' = [job EXCEPT ![w] = new] /\ new.step = s
      BY <2>1, <3>2, <3>3 DEF Goes
    <3> QED
      BY <2>3, <3>4 DEF StaysBefore, BeforeRename
  <2> QED
    BY <2>2, <2>4, <2>5
<1>8. CASE Install(w)
  BY <1>8, NextStays, LeavesStays DEF Install, BeforeRename
<1>9. CASE PutBack(w) \/ PutBackFails(w)
  BY <1>9, NextStays DEF PutBack, PutBackFails, BeforeRename
<1> QED
  BY <1>1, <1>2, <1>3, <1>4, <1>5, <1>6, <1>7, <1>8, <1>9

LEMMA RunCopies ==
    ASSUME FilesInv, CopiesInv, NEW w \in Writers, Run(w)
    PROVE  CopiesInv'
<1>1. run' = run + 1 /\ copies' = copies /\ run \in Nat
  BY FilesAssumption DEF Run, files, FilesInv, FileTypes
<1>2. \A c \in copies : c.n \in Nat /\ c.n < run
  BY DEF CopiesInv, Copy
<1>3. ASSUME NEW c \in copies PROVE c.n < run' /\ c.n + 1 < run'
  <2>1. c.n \in Nat /\ c.n < run
    BY <1>2
  <2> QED
    BY <1>1, <2>1
<1> QED
  BY <1>1, <1>3 DEF CopiesInv

LEMMA KeepCopies ==
    ASSUME FilesInv, CopiesInv, NEW w \in Writers, Keep(w)
    PROVE  CopiesInv'
<1> DEFINE n == CopyNumber(job[w].cmd)
           copy == [sec |-> sec, n |-> n, doc |-> config]
<1>1. /\ job[w].step = "keep" /\ ~Doing(w, "idle") /\ run \in Runs /\ UNCHANGED run
      /\ config \in MaybeDoc /\ sec \in Nat
  BY Acting DEF Keep, Doing, FilesInv, FileTypes
<1>2. copies \subseteq Copy /\ \A c \in copies : c.n + 1 < run /\ c.n < run
  BY <1>1 DEF CopiesInv, BeforeRename
<1>3. n \in Nat /\ n < run
  <2>1. run \in Nat /\ 0 < run
    BY <1>1, FilesAssumption DEF Runs
  <2>2. CASE job[w].cmd = "setup"
    BY <2>1, <2>2 DEF CopyNumber
  <2>3. CASE job[w].cmd # "setup"
    BY <1>1, <1>2, <2>3, FreeNumber
  <2> QED
    BY <2>2, <2>3
<1>4. \A v \in Writers : job'[v].step \notin BeforeRename
  <2>1. \A v \in Writers \ {w} : job[v].step = "idle"
    BY <1>1, Acting DEF Doing
  <2>2. job' = [job EXCEPT ![w] = [job[w] EXCEPT !.step = "rename"]]
    BY DEF Keep, Next_, Goes
  <2>3. [job[w] EXCEPT !.step = "rename"].step = "rename"
    BY JobIs DEF Job
  <2>4. job'[w].step = "rename" /\ \A v \in Writers \ {w} : job'[v] = job[v]
    BY <2>2, <2>3 DEF FilesInv, JobTypes
  <2> QED
    BY <2>1, <2>4 DEF BeforeRename
<1>5. copies' \subseteq copies \cup {copy} /\ (config = None => copies' = copies)
  BY DEF Keep
<1> HIDE DEF n
<1>6. config # None => copy \in Copy
  BY <1>1, <1>3 DEF Copy, MaybeDoc
<1>7. copy.n = n
  OBVIOUS
<1> HIDE DEF copy
<1>8. copies' \subseteq Copy /\ \A c \in copies' : c.n < run
  BY <1>2, <1>3, <1>5, <1>6, <1>7
<1> QED
  BY <1>1, <1>4, <1>8 DEF CopiesInv

LEMMA CopiesHold == FilesSpec => []CopiesInv
<1>1. FilesInit => CopiesInv
  <2> SUFFICES ASSUME FilesInit PROVE CopiesInv
    OBVIOUS
  <2>1. copies = {} /\ \A w \in Writers : job[w].step = "idle"
    BY PlainFileTypes DEF FilesInit
  <2> QED
    BY <2>1 DEF CopiesInv, BeforeRename
<1>2. FilesInv /\ CopiesInv /\ [FilesNext]_filesVars => CopiesInv'
  <2> SUFFICES ASSUME FilesInv, CopiesInv, [FilesNext]_filesVars PROVE CopiesInv'
    OBVIOUS
  <2>1. CASE UNCHANGED filesVars
    BY <2>1 DEF filesVars, files, CopiesInv
  <2>2. ASSUME NEW w \in Writers,
             \/ Run(w) \/ Refused(w) \/ Dies(w)
             \/ Read(w) \/ Keep(w) \/ Rename(w) \/ WriteFails(w)
             \/ Inspect(w) \/ Create(w) \/ CreateFails(w) \/ Wire(w)
             \/ TellPassword(w)
             \/ Pack(w) \/ Publish(w) \/ Hash(w) \/ BackupFails(w)
             \/ Stage(w) \/ Aside(w) \/ Install(w) \/ SwapGoesWrong(w)
             \/ PutBack(w) \/ PutBackFails(w) \/ Undone(w)
        PROVE  CopiesInv'
    <3>1. CASE Run(w)
      BY <3>1, RunCopies
    <3>2. CASE Keep(w)
      BY <3>2, KeepCopies
    <3>3. CASE ~Run(w) /\ ~Keep(w)
      BY <2>2, <3>3, MostStay, CopiesStay
    <3> QED
      BY <3>1, <3>2, <3>3
  <2> QED
    BY <2>1, <2>2 DEF FilesNext
<1> QED
  BY <1>1, <1>2, Files, PTL DEF FilesSpec

\* Every file, archive and job is one the program can make, however many
\* commands find a name taken (backupName).
THEOREM FilesTypes == FilesSpec => []FilesTypeOK
<1>1. FilesInv /\ CopiesInv => FilesTypeOK
  BY DEF FilesInv, FileTypes, JobTypes, CopiesInv, FilesTypeOK
<1> QED
  BY <1>1, Files, CopiesHold, PTL

-----------------------------------------------------------------------------
(***************************************************************************)
(* Nothing destroyed.  What a step is about to overwrite is kept already:  *)
(* the config.json of a write in its copy, under a name that was free; the *)
(* files of a restore in its safety directory, and what it installed in    *)
(* the archive it came from; the key of an archive of this very second in  *)
(* the wallet or in the safety directory of that second.                   *)
(***************************************************************************)
BackupAndRestore == {"pack", "publish", "stage", "asideWallet"} \cup SwapSteps

KeptPhase(w) ==
    LET j == job[w]
    IN  /\ j.step \in BackupAndRestore => j.cmd \notin ConfigCommands
        /\ j.step = "rename" => config = None \/ \E c \in copies : c.doc = config
        /\ j.step \in SwapSteps \cup {"asideWallet"} =>
             \E a \in archives : a.doc = j.doc /\ a.key = j.key
        /\ j.step = "backConfig" => Kept(w).config = None \/ config \in {None, j.doc}

KeysOfSecond == {KeyOf(wallet), KeyOf(safety[sec].wallet)}
SecondInv ==
    \A a \in archives :
        /\ a.sec <= sec
        /\ (a.sec = sec /\ a.name \in Names /\ a.key # None) => a.key \in KeysOfSecond

KeptInv == SecondInv /\ \A w \in Writers : KeptPhase(w)

(* A document, or a key, that is somewhere.                                *)
HasDoc(d) ==
    \/ d = config
    \/ \E c \in copies : c.doc = d
    \/ \E a \in archives : a.doc = d
    \/ \E s \in Seconds : safety[s].config = d
HasKey(k) ==
    \/ k = KeyOf(wallet)
    \/ \E a \in archives : a.key = k
    \/ \E s \in Seconds : KeyOf(safety[s].wallet) = k

Given(d) == d \in NamedBySecond /\ \E w \in Writers : job[w].cmd \notin ConfigCommands

DocsKept == \A d : d # None /\ HasDoc(d) => HasDoc(d)' \/ Given(d)
KeysKept == \A k : k # None /\ HasKey(k) => HasKey(k)'

KeptStep ==
    /\ KeptKeys \subseteq KeptKeys'
    /\ KeptDocs \subseteq KeptDocs' \cup NamedBySecond
    /\ (\A w \in Writers : job[w].cmd \in ConfigCommands) => KeptDocs \subseteq KeptDocs'

LEMMA KeptStepIs ==
    ASSUME DocsKept, KeysKept
    PROVE  KeptStep
<1>1. \A d : d \in KeptDocs <=> d # None /\ HasDoc(d)
  BY DEF KeptDocs, HasDoc
<1>2. \A d : d \in KeptDocs' <=> d # None /\ HasDoc(d)'
  BY DEF KeptDocs, HasDoc
<1>3. \A k : k \in KeptKeys <=> k # None /\ HasKey(k)
  BY DEF KeptKeys, HasKey
<1>4. \A k : k \in KeptKeys' <=> k # None /\ HasKey(k)'
  BY DEF KeptKeys, HasKey
<1>5. KeptKeys \subseteq KeptKeys'
  BY <1>3, <1>4 DEF KeysKept
<1>6. \A d \in KeptDocs : d \in KeptDocs' \/ Given(d)
  BY <1>1, <1>2 DEF DocsKept
<1> QED
  BY <1>5, <1>6 DEF KeptStep, Given

LEMMA FilesUntouched ==
    ASSUME UNCHANGED files
    PROVE  KeptStep
<1>1. UNCHANGED <<config, wallet, copies, safety, archives>>
  BY DEF files
<1> QED
  BY <1>1, KeptStepIs DEF DocsKept, KeysKept, HasDoc, HasKey, KeyOf

\* Within a second, the wallet and its safety directory lose no key.
LEMMA SecondStays ==
    ASSUME KeptInv, UNCHANGED <<archives, sec>>,
           wallet \in {None, wallet', safety'[sec].wallet},
           safety[sec].wallet \in {None, wallet', safety'[sec].wallet}
    PROVE  SecondInv'
<1>1. \A k \in KeysOfSecond : k = None \/ k \in KeysOfSecond'
  BY DEF KeysOfSecond, KeyOf
<1> QED
  BY <1>1 DEF KeptInv, SecondInv

\* A step of a process at work: nothing is asked of the others.
LEMMA KeptGoes ==
    ASSUME FilesInv, KeptInv, NEW w \in Writers, ~Doing(w, "idle"),
           NEW new, Goes(w, new), SecondInv', job'[w] = new => KeptPhase(w)'
    PROVE  KeptInv'
<1>1. job'[w] = new /\ \A v \in Writers \ {w} : job'[v].step = "idle"
  BY Acting DEF Goes, FilesInv, JobTypes, Doing
<1>2. ASSUME NEW v \in Writers PROVE KeptPhase(v)'
  <2>1. CASE v = w
    BY <1>1, <2>1
  <2>2. CASE v # w
    BY <1>1, <2>2 DEF KeptPhase, SwapSteps, BackupAndRestore
  <2> QED
    BY <2>1, <2>2
<1> QED
  BY <1>2 DEF KeptInv

\* A step after which nothing more is asked.
LEMMA KeptPlainly ==
    ASSUME FilesInv, KeptInv, NEW w \in Writers, ~Doing(w, "idle"), NEW new,
           job' = [job EXCEPT ![w] = new], SecondInv',
           new.step \notin BackupAndRestore \cup {"rename"}
    PROVE  KeptInv'
<1>1. job'[w] = new /\ \A v \in Writers \ {w} : job'[v].step = "idle"
  BY Acting DEF FilesInv, JobTypes, Doing
<1>2. \A v \in Writers : job'[v].step \notin BackupAndRestore \cup {"rename"}
  BY <1>1 DEF SwapSteps, BackupAndRestore
<1>3. \A v \in Writers : KeptPhase(v)'
  BY <1>2 DEF KeptPhase, SwapSteps, BackupAndRestore
<1> QED
  BY <1>3 DEF KeptInv

\* A command that ends.
LEMMA KeptEnds ==
    ASSUME FilesInv, KeptInv, NEW w \in Writers, ~Doing(w, "idle"), Leaves(w), SecondInv'
    PROVE  KeptInv'
<1>1. NoJob.step \notin BackupAndRestore \cup {"rename"} /\ job' = [job EXCEPT ![w] = NoJob]
  BY PlainFileTypes DEF Leaves, SwapSteps, BackupAndRestore
<1> QED
  BY <1>1, KeptPlainly

\* A command begins, in a new second or in that of the last one.
LEMMA RunKept ==
    ASSUME FilesInv, KeptInv, NEW w \in Writers, Run(w)
    PROVE  KeptInv' /\ KeptStep
<1>1. PICK cmd \in Commands :
        job' = [job EXCEPT ![w] = [NoJob EXCEPT
                      !.cmd = cmd, !.step = FirstStep(cmd), !.run = run + 1]]
  BY Zenon DEF Run
<1> DEFINE new == [NoJob EXCEPT !.cmd = cmd, !.step = FirstStep(cmd), !.run = run + 1]
<1>2. /\ flock = None /\ UNCHANGED <<config, wallet, copies, safety, archives>>
      /\ sec' = sec \/ sec' = sec + 1
  BY DEF Run, Take, files
<1>3. new.cmd = cmd /\ new.step = FirstStep(cmd)
  BY DEF NoJob
<1> HIDE DEF new
<1>4. /\ FirstStep(cmd) \in {"read", "inspect", "pack", "stage"}
      /\ FirstStep(cmd) \in {"pack", "stage"} => cmd \notin ConfigCommands
  BY DEF FirstStep, Commands, ConfigCommands
<1>5. SecondInv'
  <2>1. sec \in Nat /\ \A a \in archives : a.sec \in Nat
    BY SecIs DEF FilesInv, FileTypes, Archive
  <2>2. CASE sec' = sec
    BY <1>2, <2>2, SecondStays
  <2>3. CASE sec' = sec + 1
    BY <1>2, <2>1, <2>3 DEF KeptInv, SecondInv
  <2> QED
    BY <1>2, <2>2, <2>3
<1>6. \A v \in Writers : v # w => job'[v].step = "idle"
  BY <1>1, <1>2, NoneIsNone DEF FilesInv, LockInv, JobTypes, Doing
<1>7. job'[w] = new
  BY <1>1 DEF FilesInv, JobTypes, new
<1>8. ASSUME NEW v \in Writers PROVE KeptPhase(v)'
  <2>1. CASE v = w
    BY <1>3, <1>4, <1>7, <2>1 DEF KeptPhase, SwapSteps, BackupAndRestore
  <2>2. CASE v # w
    BY <1>6, <2>2 DEF KeptPhase, SwapSteps, BackupAndRestore
  <2> QED
    BY <2>1, <2>2
<1>9. UNCHANGED files
  BY <1>2 DEF files
<1> QED
  BY <1>5, <1>8, <1>9, FilesUntouched DEF KeptInv

LEMMA EndsKept ==
    ASSUME FilesInv, KeptInv, NEW w \in Writers,
           \/ Refused(w) \/ Dies(w) \/ WriteFails(w) \/ BackupFails(w) \/ Undone(w)
           \/ TellPassword(w)
    PROVE  KeptInv' /\ KeptStep
<1>1. ~Doing(w, "idle") /\ Leaves(w) /\ UNCHANGED <<files, run, sec>>
  BY DEF Refused, Dies, WriteFails, BackupFails, Undone, TellPassword, Doing
<1>2. SecondInv'
  BY <1>1, SecondStays DEF files
<1> QED
  BY <1>1, <1>2, KeptEnds, FilesUntouched

LEMMA ReadsKept ==
    ASSUME FilesInv, KeptInv, NEW w \in Writers,
           Read(w) \/ Inspect(w) \/ Wire(w) \/ Pack(w) \/ Stage(w) \/ SwapGoesWrong(w)
    PROVE  KeptInv' /\ KeptStep
<1>0. /\ UNCHANGED <<files, run, sec>>
      /\ Read(w) => Doing(w, "read")
      /\ Inspect(w) => Doing(w, "inspect")
      /\ Wire(w) => Doing(w, "wire")
      /\ Pack(w) => Doing(w, "pack")
      /\ Stage(w) => Doing(w, "stage")
      /\ SwapGoesWrong(w) => job[w].step \in {"asideWallet", "asideConfig", "installConfig",
                                              "installWallet"}
  <2>1. SwapGoesWrong(w) => job[w].step \in {"asideWallet", "asideConfig", "installConfig",
                                             "installWallet"}
    BY DEF SwapGoesWrong, Doing
  <2> QED
    BY <2>1, Zenon DEF Read, Inspect, Wire, Pack, Stage, SwapGoesWrong
<1>1. ~Doing(w, "idle") /\ job[w] \in Job /\ KeptPhase(w) /\ Phase(w)
  <2>1. ~Doing(w, "idle")
    BY <1>0 DEF Doing
  <2> QED
    BY <1>0, <2>1, Acting DEF KeptInv
<1>2. UNCHANGED <<config, wallet, copies, safety, archives, sec>>
  BY <1>0 DEF files
<1>3. SecondInv' /\ KeptStep
  BY <1>0, <1>2, SecondStays, FilesUntouched
<1>4. CASE Leaves(w)
  BY <1>1, <1>3, <1>4, KeptEnds
<1>5. CASE (Read(w) \/ Inspect(w) \/ Wire(w)) /\ ~Leaves(w)
  <2>1. PICK new : Goes(w, new) /\ new.step \in {"keep", "wire", "create"}
    <3>1. ASSUME Read(w) \/ Wire(w)
          PROVE  \E doc : Goes(w, [job[w] EXCEPT !.step = "keep", !.doc = doc])
      <4>1. CASE Wire(w)
        BY <4>1, Zenon DEF Wire
      <4>2. CASE Read(w)
        BY <4>2, Zenon DEF Read
      <4> QED
        BY <3>1, <4>1, <4>2
    <3>2. ASSUME NEW doc PROVE [job[w] EXCEPT !.step = "keep", !.doc = doc].step = "keep"
      BY <1>1 DEF Job
    <3>3. ASSUME Inspect(w)
          PROVE  \/ Goes(w, [job[w] EXCEPT !.step = "wire", !.key = wallet.key])
                 \/ Goes(w, [job[w] EXCEPT !.step = "create"])
      BY <1>5, <3>3 DEF Inspect, Next_
    <3>4. /\ [job[w] EXCEPT !.step = "wire", !.key = wallet.key].step = "wire"
          /\ [job[w] EXCEPT !.step = "create"].step = "create"
      BY <1>1 DEF Job
    <3>5. CASE Read(w) \/ Wire(w)
      BY <3>1, <3>2, <3>5
    <3>6. CASE Inspect(w)
      BY <3>3, <3>4, <3>6
    <3> QED
      BY <1>5, <3>5, <3>6
  <2>2. job' = [job EXCEPT ![w] = new] /\ new.step \notin BackupAndRestore \cup {"rename"}
    BY <2>1 DEF Goes, BackupAndRestore, SwapSteps
  <2> QED
    BY <1>1, <1>3, <2>2, KeptPlainly
<1>6. CASE Pack(w)
  <2>1. PICK new : Goes(w, new) /\ new.step = "publish" /\ new.cmd = job[w].cmd
    <3> DEFINE packed == [job[w] EXCEPT !.step = "publish", !.key = KeyOf(wallet), !.doc = config]
    <3>1. packed.step = "publish" /\ packed.cmd = job[w].cmd
      BY <1>1 DEF Job
    <3>2. Goes(w, packed)
      BY <1>6 DEF Pack
    <3> QED
      BY <3>1, <3>2
  <2>2. job[w].cmd \notin ConfigCommands
    BY <1>0, <1>1, <1>6 DEF KeptPhase, BackupAndRestore, Doing
  <2>3. ASSUME job'[w] = new PROVE KeptPhase(w)'
    BY <2>1, <2>2, <2>3 DEF KeptPhase, SwapSteps
  <2> QED
    BY <1>1, <1>3, <2>1, <2>3, KeptGoes
<1>7. CASE Stage(w)
  <2>1. PICK a \in archives :
          Goes(w, [job[w] EXCEPT !.step = "asideWallet", !.key = a.key, !.doc = a.doc,
                                 !.before = [wallet |-> wallet, config |-> config]])
    BY <1>7, Zenon DEF Stage
  <2> DEFINE new == [job[w] EXCEPT !.step = "asideWallet", !.key = a.key, !.doc = a.doc,
                                   !.before = [wallet |-> wallet, config |-> config]]
  <2>2. new.step = "asideWallet" /\ new.key = a.key /\ new.doc = a.doc /\ new.cmd = job[w].cmd
    BY <1>1 DEF Job
  <2>3. Goes(w, new)
    BY <2>1
  <2> HIDE DEF new
  <2>4. job[w].cmd \notin ConfigCommands
    BY <1>0, <1>1, <1>7 DEF KeptPhase, BackupAndRestore, Doing
  <2>5. ASSUME job'[w] = new PROVE KeptPhase(w)'
    BY <1>2, <2>2, <2>4, <2>5 DEF KeptPhase, SwapSteps
  <2> QED
    BY <1>1, <1>3, <2>3, <2>5, KeptGoes
<1>8. CASE SwapGoesWrong(w)
  <2> DEFINE new == [job[w] EXCEPT !.step = "backConfig"]
  <2>1. /\ job[w].step \in {"asideWallet", "asideConfig", "installConfig", "installWallet"}
        /\ Goes(w, new)
    BY <1>0, <1>8 DEF SwapGoesWrong, Next_
  <2>2. /\ new.step = "backConfig" /\ new.key = job[w].key /\ new.doc = job[w].doc
        /\ new.cmd = job[w].cmd /\ new.moved = job[w].moved
    BY <1>1 DEF Job
  <2> HIDE DEF new
  <2>3. Kept(w).config = None \/ config \in {None, job[w].doc}
    <3>1. "config" \notin job[w].moved => Kept(w).config = None
      BY KeptIs
    <3> QED
      BY <1>1, <2>1, <3>1 DEF Phase, SwapPhase, SwapSteps
  <2>4. /\ \E a \in archives : a.doc = job[w].doc /\ a.key = job[w].key
        /\ job[w].cmd \notin ConfigCommands
    BY <1>1, <2>1 DEF KeptPhase, SwapSteps, BackupAndRestore
  <2>5. ASSUME job'[w] = new PROVE KeptPhase(w)'
    <3>1. Kept(w)' = Kept(w)
      BY <1>2, <2>2, <2>5 DEF Kept
    <3> QED
      BY <1>2, <2>2, <2>3, <2>4, <2>5, <3>1 DEF KeptPhase, SwapSteps
  <2> QED
    BY <1>1, <1>3, <2>1, <2>5, KeptGoes
<1> QED
  BY <1>3, <1>4, <1>5, <1>6, <1>7, <1>8

\* The copy of a config command takes the place of no other; that of pillar
\* setup may take that of another one of this second.
LEMMA KeepKept ==
    ASSUME FilesInv, CopiesInv, KeptInv, NEW w \in Writers, Keep(w)
    PROVE  KeptInv' /\ KeptStep
<1> DEFINE new == [job[w] EXCEPT !.step = "rename"]
           n == CopyNumber(job[w].cmd)
           copy == [sec |-> sec, n |-> n, doc |-> config]
<1>1. /\ job[w].step = "keep" /\ ~Doing(w, "idle") /\ job[w] \in Job /\ run \in Runs
      /\ UNCHANGED <<config, wallet, safety, archives, sec>>
  BY Acting DEF Keep, Doing
<1>2. Goes(w, new) /\ new.step = "rename"
  BY <1>1 DEF Keep, Next_, Job
<1> HIDE DEF new
<1>3. /\ copies' = IF config = None THEN copies
                   ELSE {c \in copies : ~(c.sec = sec /\ c.n = n)} \cup {copy}
      /\ copy.doc = config
  BY DEF Keep
<1>5. job[w].cmd # "setup" => \A c \in copies : ~(c.sec = sec /\ c.n = n)
  <2>1. copies \subseteq Copy /\ \A c \in copies : c.n + 1 < run
    BY <1>1 DEF CopiesInv, BeforeRename
  <2> QED
    BY <1>1, <2>1, FreeNumber
<1>6. job[w].cmd = "setup" => n = 0 /\ job[w].cmd \notin ConfigCommands
  BY DEF CopyNumber, ConfigCommands
<1> HIDE DEF n, copy
<1>7. config = None \/ \E c \in copies' : c.doc = config
  BY <1>3
<1>8. ASSUME job'[w] = new PROVE KeptPhase(w)'
  BY <1>1, <1>2, <1>7, <1>8 DEF KeptPhase, SwapSteps, BackupAndRestore
<1>9. SecondInv'
  BY <1>1, SecondStays
<1>10. DocsKept
  <2>1. ASSUME NEW c \in copies PROVE (\E e \in copies' : e.doc = c.doc) \/ Given(c.doc)
    <3>1. CASE ~(c.sec = sec /\ c.n = n)
      BY <1>3, <3>1
    <3>2. CASE c.sec = sec /\ c.n = n
      <4>1. job[w].cmd = "setup"
        BY <1>5, <3>2
      <4>2. c.doc \in NamedBySecond
        BY <1>6, <3>2, <4>1 DEF NamedBySecond
      <4> QED
        BY <1>6, <4>1, <4>2 DEF Given
    <3> QED
      BY <3>1, <3>2
  <2> QED
    BY <1>1, <2>1 DEF DocsKept, HasDoc
<1>11. KeysKept
  BY <1>1 DEF KeysKept, HasKey, KeyOf
<1> QED
  BY <1>1, <1>2, <1>8, <1>9, <1>10, <1>11, KeptGoes, KeptStepIs

\* What a write overwrites is in its copy; a key is made where none was.
LEMMA WritesKept ==
    ASSUME FilesInv, KeptInv, NEW w \in Writers, Rename(w) \/ Create(w) \/ CreateFails(w)
    PROVE  KeptInv' /\ KeptStep
<1>1. /\ job[w].step \in {"rename", "create"} /\ UNCHANGED <<copies, safety, archives, sec>>
      /\ Rename(w) => job[w].step = "rename" /\ UNCHANGED wallet
      /\ Create(w) \/ CreateFails(w) => job[w].step = "create" /\ UNCHANGED config
  BY Zenon DEF Rename, Create, CreateFails, Doing
<1>2. /\ ~Doing(w, "idle") /\ job[w] \in Job /\ KeptPhase(w) /\ Phase(w)
  BY <1>1, Acting DEF Doing, KeptInv
<1>3. Create(w) \/ CreateFails(w) => wallet = None
  BY <1>1, <1>2 DEF Phase, WritePhase
<1>4. SecondInv'
  BY <1>1, <1>3, SecondStays
<1>5. KeptInv'
  <2>1. CASE Leaves(w)
    BY <1>2, <1>4, <2>1, KeptEnds
  <2>2. CASE ~Leaves(w)
    <3>1. PICK new : Goes(w, new) /\ new.step \in {"tell", "wire"}
      <4>1. ASSUME NEW k
            PROVE  /\ [job[w] EXCEPT !.step = "tell"].step = "tell"
                   /\ [job[w] EXCEPT !.step = "wire", !.key = k, !.made = TRUE].step = "wire"
        BY <1>2 DEF Job
      <4>2. CASE Rename(w)
        BY <2>2, <4>1, <4>2 DEF Rename, Next_
      <4>3. CASE Create(w)
        <5>1. PICK k : Goes(w, [job[w] EXCEPT !.step = "wire", !.key = k, !.made = TRUE])
          BY <4>3, Zenon DEF Create
        <5> QED
          BY <4>1, <5>1
      <4>4. CASE CreateFails(w)
        BY <2>2, <4>4 DEF CreateFails
      <4> QED
        BY <4>2, <4>3, <4>4
    <3>2. job' = [job EXCEPT ![w] = new] /\ new.step \notin BackupAndRestore \cup {"rename"}
      BY <3>1 DEF Goes, BackupAndRestore, SwapSteps
    <3> QED
      BY <1>2, <1>4, <3>2, KeptPlainly
  <2> QED
    BY <2>1, <2>2
<1>6. DocsKept
  <2>1. CASE Rename(w)
    <3>1. config = None \/ \E c \in copies : c.doc = config
      BY <1>1, <1>2, <2>1 DEF KeptPhase
    <3> QED
      BY <1>1, <2>1, <3>1 DEF DocsKept, HasDoc
  <2>2. CASE Create(w) \/ CreateFails(w)
    BY <1>1, <2>2 DEF DocsKept, HasDoc
  <2> QED
    BY <2>1, <2>2
<1>7. KeysKept
  <2>1. wallet = None \/ wallet' = wallet
    BY <1>1, <1>3
  <2> QED
    BY <1>1, <2>1 DEF KeysKept, HasKey, KeyOf
<1> QED
  BY <1>5, <1>6, <1>7, KeptStepIs

\* An archive that a backup replaces is of this very second, and its key is
\* still there.
LEMMA PublishKept ==
    ASSUME FilesInv, KeptInv, NEW w \in Writers, Publish(w)
    PROVE  KeptInv' /\ KeptStep
<1>1. /\ job[w].step = "publish" /\ ~Doing(w, "idle") /\ job[w] \in Job /\ Phase(w)
      /\ KeptPhase(w) /\ UNCHANGED <<config, wallet, copies, safety, sec>> /\ Next_(w, "hash")
  BY Acting DEF Publish, Doing, KeptInv
<1>2. PICK name \in Names, sum \in Sums :
        archives' = (archives \ Named(name)) \cup {PackedArchive(w, name, sum)}
  BY PublishAdds
<1>3. PICK packed : packed = PackedArchive(w, name, sum)
  OBVIOUS
<1>4. packed.sec = sec /\ packed.key = KeyOf(wallet)
  BY <1>1, <1>3, PackedIs DEF Phase, WritePhase
<1>5. sec <= sec
  BY SecIs DEF FilesInv
<1>6. SecondInv'
  <2>1. KeysOfSecond' = KeysOfSecond
    BY <1>1 DEF KeysOfSecond, KeyOf
  <2>2. ASSUME NEW a \in archives' PROVE a \in archives \/ a = packed
    BY <1>2, <1>3
  <2> QED
    BY <1>1, <1>4, <1>5, <2>1, <2>2 DEF KeptInv, SecondInv, KeysOfSecond
<1>7. KeptInv'
  <2>1. [job[w] EXCEPT !.step = "hash"].step = "hash"
    BY <1>1 DEF Job
  <2>2. \E new : /\ job' = [job EXCEPT ![w] = new]
                 /\ new.step \notin BackupAndRestore \cup {"rename"}
    BY <1>1, <2>1 DEF Next_, Goes, BackupAndRestore, SwapSteps
  <2> QED
    BY <1>1, <1>6, <2>2, KeptPlainly
<1>8. DocsKept
  <2>1. job[w].cmd \notin ConfigCommands
    BY <1>1 DEF KeptPhase, BackupAndRestore
  <2>2. ASSUME NEW a \in archives PROVE (\E b \in archives' : b.doc = a.doc) \/ Given(a.doc)
    <3>1. CASE a \notin Named(name)
      BY <1>2, <3>1
    <3>2. CASE a \in Named(name)
      <4>1. a.doc \in NamedBySecond
        BY <3>2 DEF NamedBySecond
      <4> QED
        BY <2>1, <4>1 DEF Given
    <3> QED
      BY <3>1, <3>2
  <2> QED
    BY <1>1, <2>2 DEF DocsKept, HasDoc
<1>9. KeysKept
  <2>1. sec \in Seconds
    BY SecIs DEF FilesInv
  <2>2. ASSUME NEW a \in archives, a.key # None
        PROVE  (\E b \in archives' : b.key = a.key) \/ a.key \in KeysOfSecond
    BY <1>2, <2>2 DEF Named, KeptInv, SecondInv
  <2> QED
    BY <1>1, <2>1, <2>2 DEF KeysKept, HasKey, KeysOfSecond, KeyOf
<1> QED
  BY <1>7, <1>8, <1>9, KeptStepIs

LEMMA HashKept ==
    ASSUME FilesInv, KeptInv, NEW w \in Writers, Hash(w)
    PROVE  KeptInv' /\ KeptStep
<1>1. ~Doing(w, "idle") /\ Leaves(w) /\ UNCHANGED <<config, wallet, copies, safety, sec>>
  BY DEF Hash, Doing
<1>2. /\ \A a \in archives' :
           \E b \in archives : a.key = b.key /\ a.sec = b.sec /\ a.name = b.name
      /\ \A b \in archives : \E a \in archives' : a.key = b.key /\ a.doc = b.doc
  BY HashedIs
<1>3. KeysOfSecond' = KeysOfSecond
  BY <1>1 DEF KeysOfSecond, KeyOf
<1>4. SecondInv'
  BY <1>1, <1>2, <1>3 DEF KeptInv, SecondInv
<1>5. DocsKept
  BY <1>1, <1>2 DEF DocsKept, HasDoc
<1>6. KeysKept
  BY <1>1, <1>2 DEF KeysKept, HasKey, KeyOf
<1> QED
  BY <1>1, <1>4, <1>5, <1>6, KeptEnds, KeptStepIs

\* A swap that goes on, other than into its roll-back.
LEMMA SwapGoesOn ==
    ASSUME FilesInv, KeptInv, NEW w \in Writers, SecondInv', UNCHANGED archives,
           job[w].step \in SwapSteps \cup {"asideWallet"},
           NEW s \in (SwapSteps \cup {"undone"}) \ {"backConfig"}, NEW m,
           Goes(w, [job[w] EXCEPT !.step = s, !.moved = m])
    PROVE  KeptInv'
<1> DEFINE new == [job[w] EXCEPT !.step = s, !.moved = m]
<1>1. ~Doing(w, "idle") /\ job[w] \in Job /\ KeptPhase(w)
  BY Acting DEF Doing, SwapSteps, KeptInv
<1>2. new.step = s /\ new.doc = job[w].doc /\ new.key = job[w].key /\ new.cmd = job[w].cmd
  BY <1>1 DEF Job
<1>3. Goes(w, new)
  OBVIOUS
<1> HIDE DEF new
<1>4. /\ \E a \in archives : a.doc = job[w].doc /\ a.key = job[w].key
      /\ job[w].cmd \notin ConfigCommands
  BY <1>1 DEF KeptPhase, BackupAndRestore
<1>5. ASSUME job'[w] = new PROVE KeptPhase(w)'
  BY <1>2, <1>4, <1>5 DEF KeptPhase, SwapSteps, BackupAndRestore
<1> QED
  BY <1>1, <1>3, <1>5, KeptGoes

\* What a file and the safety directory of this second held, they hold
\* together, but for a config.json put there earlier in this second.
LEMMA MovedKept ==
    ASSUME FilesInv, KeptInv, NEW w \in Writers, ~Doing(w, "idle"), job[w].cmd \notin ConfigCommands,
           UNCHANGED <<copies, archives, sec>>,
           \A s \in Seconds \ {sec} : safety'[s] = safety[s],
           config \in {None, config', safety'[sec].config}
             \/ \E a \in archives : a.doc = config,
           wallet \in {None, wallet', safety'[sec].wallet},
           safety[sec].wallet \in {None, wallet', safety'[sec].wallet}
    PROVE  KeptStep /\ SecondInv'
<1>1. sec \in Seconds
  BY SecIs DEF FilesInv
<1>2. DocsKept
  <2> SUFFICES ASSUME NEW d, d # None, HasDoc(d) PROVE HasDoc(d)' \/ Given(d)
    BY DEF DocsKept
  <2>1. CASE d = config
    BY <1>1, <2>1 DEF HasDoc
  <2>2. CASE (\E c \in copies : c.doc = d) \/ \E a \in archives : a.doc = d
    BY <2>2 DEF HasDoc
  <2>3. CASE \E s \in Seconds : safety[s].config = d
    <3>1. PICK s \in Seconds : safety[s].config = d
      BY <2>3
    <3>2. CASE s = sec
      BY <3>1, <3>2 DEF Given, NamedBySecond
    <3>3. CASE s # sec
      BY <3>1, <3>3 DEF HasDoc
    <3> QED
      BY <3>2, <3>3
  <2> QED
    BY <2>1, <2>2, <2>3 DEF HasDoc
<1>3. KeysKept
  <2> SUFFICES ASSUME NEW k, k # None, HasKey(k) PROVE HasKey(k)'
    BY DEF KeysKept
  <2>1. CASE k = KeyOf(wallet)
    <3>1. wallet # None
      BY <2>1 DEF KeyOf
    <3> QED
      BY <1>1, <2>1, <3>1 DEF HasKey, KeyOf
  <2>2. CASE \E a \in archives : a.key = k
    BY <2>2 DEF HasKey
  <2>3. CASE \E s \in Seconds : KeyOf(safety[s].wallet) = k
    <3>1. PICK s \in Seconds : KeyOf(safety[s].wallet) = k
      BY <2>3
    <3>2. safety[s].wallet # None
      BY <3>1 DEF KeyOf
    <3>3. safety[s].wallet \in {wallet', safety'[s].wallet}
      BY <3>2
    <3> QED
      BY <3>1, <3>3 DEF HasKey, KeyOf
  <2> QED
    BY <2>1, <2>2, <2>3 DEF HasKey
<1> QED
  BY <1>2, <1>3, KeptStepIs, SecondStays

\* The swap of a restore: a file is moved to where none is, or over the
\* config.json of an earlier restore of this second; what the roll-back
\* overwrites came from the archive.
LEMMA SwapsKept ==
    ASSUME FilesInv, KeptInv, NEW w \in Writers,
           Aside(w) \/ Install(w) \/ PutBack(w) \/ PutBackFails(w)
    PROVE  KeptInv' /\ KeptStep
<1>1. job[w].step \in SwapSteps \cup {"asideWallet"} /\ UNCHANGED <<copies, archives, sec>>
  BY DEF Aside, Install, PutBack, PutBackFails, Doing, SwapSteps
<1>2. /\ ~Doing(w, "idle") /\ job[w] \in Job /\ KeptPhase(w) /\ Phase(w)
      /\ job[w].cmd \notin ConfigCommands
      /\ wallet \in MaybeKeyFile /\ config \in MaybeDoc /\ safety \in [Seconds -> Place]
      /\ sec \in Seconds /\ None \in MaybeKeyFile /\ None \in MaybeDoc
  <2>1. ~Doing(w, "idle") /\ KeptPhase(w)
    BY <1>1 DEF Doing, KeptInv, SwapSteps
  <2> QED
    BY <1>1, <2>1, Acting, SecIs
       DEF FilesInv, FileTypes, KeptPhase, BackupAndRestore, MaybeKeyFile, MaybeDoc
<1>3. ASSUME SecondInv' PROVE KeptInv'
  <2>1. CASE Leaves(w)
    BY <1>2, <1>3, <2>1, KeptEnds
  <2>2. CASE \E s \in (SwapSteps \cup {"undone"}) \ {"backConfig"} :
               \E m : Goes(w, [job[w] EXCEPT !.step = s, !.moved = m])
    BY <1>1, <1>3, <2>2, SwapGoesOn
  <2>3. CASE \E s \in (SwapSteps \cup {"undone"}) \ {"backConfig"} : Next_(w, s)
    BY <2>2, <2>3, NextMoves
  <2>4. \/ Leaves(w)
        \/ \E s \in (SwapSteps \cup {"undone"}) \ {"backConfig"} : Next_(w, s)
        \/ \E s \in (SwapSteps \cup {"undone"}) \ {"backConfig"} :
             \E m : Goes(w, [job[w] EXCEPT !.step = s, !.moved = m])
    <3>1. {"asideConfig", "installConfig", "installWallet", "backWallet", "undone"}
            \subseteq (SwapSteps \cup {"undone"}) \ {"backConfig"}
      BY DEF SwapSteps
    <3>2. CASE Aside(w)
      BY <3>1, <3>2 DEF Aside
    <3>3. CASE Install(w) \/ PutBack(w) \/ PutBackFails(w)
      BY <3>1, <3>3 DEF Install, PutBack, PutBackFails
    <3> QED
      BY <3>2, <3>3
  <2> QED
    BY <2>1, <2>2, <2>3, <2>4
<1>4. SUFFICES SecondInv' /\ KeptStep
  BY <1>3
<1>5. CASE Aside(w)
  <2>1. CASE UNCHANGED <<wallet, config, safety>>
    BY <1>1, <1>2, <2>1, MovedKept
  <2>2. CASE /\ wallet' = None /\ safety' = [safety EXCEPT ![sec].wallet = wallet]
             /\ config' = config /\ safety[sec].wallet = None
    <3>1. /\ safety'[sec].wallet = wallet /\ \A s \in Seconds \ {sec} : safety'[s] = safety[s]
      BY <1>2, <2>2, SafetyWallet
    <3> QED
      BY <1>1, <1>2, <2>2, <3>1, MovedKept
  <2>3. CASE /\ config' = None /\ safety' = [safety EXCEPT ![sec].config = config]
             /\ wallet' = wallet
    <3>1. /\ safety'[sec].config = config /\ safety'[sec].wallet = safety[sec].wallet
          /\ \A s \in Seconds \ {sec} : safety'[s] = safety[s]
      BY <1>2, <2>3, SafetyConfig
    <3> QED
      BY <1>1, <1>2, <2>3, <3>1, MovedKept
  <2> QED
    BY <1>5, <2>1, <2>2, <2>3 DEF Aside, InTheWay
<1>6. CASE Install(w)
  <2>1. /\ job[w].step \in {"installConfig", "installWallet"} /\ safety' = safety
        /\ job[w].step = "installConfig" => wallet' = wallet
        /\ job[w].step = "installWallet" => config' = config
    BY <1>6 DEF Install, Doing
  <2>2. wallet = None /\ (job[w].step = "installConfig" => config = None)
    BY <1>2, <2>1 DEF Phase, SwapPhase
  <2> QED
    BY <1>1, <1>2, <2>1, <2>2, MovedKept
<1>7. CASE Doing(w, "backConfig") /\ (PutBack(w) \/ PutBackFails(w))
  <2>1. /\ Kept(w).config = None \/ config \in {None, job[w].doc}
        /\ \E a \in archives : a.doc = job[w].doc
    BY <1>2, <1>7 DEF KeptPhase, SwapSteps, Doing
  <2>2. /\ wallet' = wallet
        /\ \/ Kept(w).config = None /\ config' = config /\ safety' = safety
           \/ Kept(w).config # None /\ safety' = [safety EXCEPT ![sec].config = None]
           \/ Kept(w).config # None /\ safety' = safety
    BY <1>7 DEF PutBack, PutBackFails, Doing
  <2>3. /\ safety'[sec].wallet = safety[sec].wallet
        /\ \A s \in Seconds \ {sec} : safety'[s] = safety[s]
    BY <1>2, <2>2, SafetyConfig
  <2>4. \/ config \in {None, config', safety'[sec].config}
        \/ \E a \in archives : a.doc = config
    BY <2>1, <2>2
  <2> QED
    BY <1>1, <1>2, <2>2, <2>3, <2>4, MovedKept
<1>8. CASE Doing(w, "backWallet") /\ (PutBack(w) \/ PutBackFails(w))
  <2>1. Kept(w).wallet = None \/ (wallet = None /\ Kept(w).wallet = safety[sec].wallet)
    <3>1. WalletThere(w)
      BY <1>2, <1>8 DEF Phase, SwapPhase, Doing
    <3> QED
      BY <3>1, KeptIs DEF WalletThere
  <2>2. /\ config' = config
        /\ \/ Kept(w).wallet = None /\ wallet' = wallet /\ safety' = safety
           \/ /\ Kept(w).wallet # None /\ wallet' = Kept(w).wallet
              /\ safety' = [safety EXCEPT ![sec].wallet = None]
           \/ Kept(w).wallet # None /\ wallet' = None /\ safety' = safety
    BY <1>8 DEF PutBack, PutBackFails, Doing
  <2>3. /\ \A s \in Seconds \ {sec} : safety'[s] = safety[s]
        /\ safety'[sec].config = safety[sec].config
    BY <1>2, <2>2, SafetyWallet
  <2>4. /\ wallet \in {None, wallet', safety'[sec].wallet}
        /\ safety[sec].wallet \in {None, wallet', safety'[sec].wallet}
    BY <2>1, <2>2
  <2> QED
    BY <1>1, <1>2, <2>2, <2>3, <2>4, MovedKept
<1> QED
  BY <1>5, <1>6, <1>7, <1>8 DEF PutBack, PutBackFails

LEMMA KeptNextInv ==
    ASSUME FilesInv, CopiesInv, KeptInv, [FilesNext]_filesVars
    PROVE  KeptInv' /\ [KeptStep]_files
<1>1. CASE UNCHANGED filesVars
  <2>1. UNCHANGED files /\ UNCHANGED <<copies, config, wallet, safety, archives, job, run, sec>>
    BY <1>1 DEF filesVars, files
  <2>2. ASSUME NEW w \in Writers PROVE KeptPhase(w)'
    <3>1. KeptPhase(w) /\ Kept(w)' = Kept(w)
      BY <2>1 DEF KeptInv, Kept
    <3> QED
      BY <2>1, <3>1 DEF KeptPhase
  <2>3. SecondInv'
    BY <2>1, SecondStays
  <2> QED
    BY <2>1, <2>2, <2>3 DEF KeptInv
<1>2. ASSUME NEW w \in Writers,
             \/ Run(w) \/ Refused(w) \/ Dies(w)
             \/ Read(w) \/ Keep(w) \/ Rename(w) \/ WriteFails(w)
             \/ Inspect(w) \/ Create(w) \/ CreateFails(w) \/ Wire(w)
             \/ TellPassword(w)
             \/ Pack(w) \/ Publish(w) \/ Hash(w) \/ BackupFails(w)
             \/ Stage(w) \/ Aside(w) \/ Install(w) \/ SwapGoesWrong(w)
             \/ PutBack(w) \/ PutBackFails(w) \/ Undone(w)
      PROVE  KeptInv' /\ KeptStep
  <2>1. CASE Run(w) \/ Refused(w) \/ Dies(w) \/ WriteFails(w) \/ BackupFails(w) \/ Undone(w)
             \/ TellPassword(w)
    BY <2>1, RunKept, EndsKept
  <2>2. CASE Read(w) \/ Inspect(w) \/ Wire(w) \/ Pack(w) \/ Stage(w) \/ SwapGoesWrong(w)
    BY <2>2, ReadsKept
  <2>3. CASE Keep(w) \/ Rename(w) \/ Create(w) \/ CreateFails(w) \/ Publish(w) \/ Hash(w)
    BY <2>3, KeepKept, WritesKept, PublishKept, HashKept
  <2>4. CASE Aside(w) \/ Install(w) \/ PutBack(w) \/ PutBackFails(w)
    BY <2>4, SwapsKept
  <2> QED
    BY <1>2, <2>1, <2>2, <2>3, <2>4
<1> QED
  BY <1>1, <1>2 DEF FilesNext

\* No command destroys the last copy of a key, and a config command no
\* config.json either, whatever fails half-way and whenever the process is
\* killed.  What pillar setup, a backup or a restore can destroy is a
\* config.json that was put aside in the second it begins in, under the name
\* it gives itself: backup names without a number, safety directories and
\* archives are named by the second (SaveUnchecked, WriteConfig, Restore).
THEOREM NothingIsDestroyed == FilesSpec => NothingDestroyed
<1>1. FilesInit => KeptInv
  <2> SUFFICES ASSUME FilesInit PROVE KeptInv
    OBVIOUS
  <2>1. sec = 0 /\ \A w \in Writers : job[w].step = "idle"
    BY PlainFileTypes DEF FilesInit
  <2>2. \A a \in archives : a.sec = 0 /\ a.name = "brought"
    BY DEF FilesInit, Foreign
  <2>3. "brought" \notin Names
    BY FilesAssumption
  <2>4. SecondInv
    BY <2>1, <2>2, <2>3 DEF SecondInv
  <2> QED
    BY <2>1, <2>4 DEF KeptInv, KeptPhase, SwapSteps, BackupAndRestore
<1>2. FilesInv /\ CopiesInv /\ KeptInv /\ [FilesNext]_filesVars => KeptInv' /\ [KeptStep]_files
  BY KeptNextInv
<1>3. FilesSpec => [][KeptStep]_files
  BY <1>1, <1>2, Files, CopiesHold, PTL DEF FilesSpec
<1> QED
  BY <1>3, PTL DEF NothingDestroyed, KeptStep
=============================================================================
