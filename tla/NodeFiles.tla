------------------------------ MODULE NodeFiles ------------------------------
(***************************************************************************)
(* What lets a node produce: the key file wallet/producer and config.json, *)
(* which names the key and holds its password.  Written by `config set`,   *)
(* `unset` and `edit` (internal/nodeconfig), `pillar setup`                *)
(* (internal/producer) and `restore wallet` (internal/walletbackup), each  *)
(* a process of its own under the lock.  A step is one file operation,     *)
(* which can fail or be the last before the process is killed.             *)
(***************************************************************************)
EXTENDS Naturals

CONSTANTS
    Writers,     \* nomctl processes
    Keys,        \* producer keys; the password of a key is known by the key
    Texts,       \* what config.json can say beside its Producer section
    Valid,       \* those that Validate accepts
    Clean,       \* those in which every key is one znnd reads
    Plain,       \* an empty document
    None,        \* no file, no key
    Names,       \* the archive names a backup gives in one second
    MaxRuns,     \* bound on the commands ever run
    FileFaults   \* what may go wrong in this run

FileFaultNames == {"sameSecond", "writeFails", "createFails", "hashFails",
                   "asideFails", "installFails", "putBackFails", "restartFails",
                   "killed"}

ASSUME FilesAssumption ==
    /\ Plain \in Clean
    /\ Clean \subseteq Valid
    /\ Valid \subseteq Texts
    /\ Names \subseteq {"plain", "age", "elsewhere"}
    /\ MaxRuns \in Nat
    /\ None \notin Keys \cup Writers
    /\ None \notin [producer : Keys \cup {None}, text : Texts]
    /\ None \notin [key : Keys, written : Nat]
    /\ FileFaults \subseteq FileFaultNames

VARIABLES
    config,      \* config.json
    wallet,      \* wallet/producer, and when it was written
    copies,      \* the config.json.bak files
    safety,      \* [Seconds -> what wallet-safety.<second> holds]
    archives,    \* the wallet backups
    shown,       \* keys whose password the user was given, or gave
    flock,       \* the process that holds the lock
    job,         \* [Writers -> what the process is doing]
    run,         \* commands run so far; also the clock of file times
    sec,         \* the second in which the last command began; names are made of it
    mishap       \* history: a process was killed, or a roll-back was partial

files == <<config, wallet, copies, safety, archives>>
filesVars == <<files, shown, flock, job, run, sec, mishap>>

Doc == [producer : Keys \cup {None}, text : Texts]
KeyFile == [key : Keys, written : Nat]
MaybeDoc == Doc \cup {None}
MaybeKeyFile == KeyFile \cup {None}
Place == [wallet : MaybeKeyFile, config : MaybeDoc]
\* The name of an archive is made of its second, its suffix and its directory;
\* "sum" tells whether the .sha256 file beside it fits.
Archive == [at : Nat, sec : Nat, name : Names \cup {"brought"}, key : Keys \cup {None},
            doc : MaybeDoc, sum : {"none", "right", "wrong"}]
Copy == [sec : Nat, n : Nat, doc : Doc]
Runs == 1 .. MaxRuns
Seconds == 0 .. MaxRuns

ConfigCommands == {"set", "force", "unset", "edit"}
Commands == ConfigCommands \cup {"setup", "backup", "restore"}
Steps == {"idle", "read", "keep", "rename", "inspect", "create", "wire", "tell",
          "pack", "publish", "hash", "stage", "asideWallet", "asideConfig",
          "installConfig", "installWallet", "backConfig", "backWallet", "undone"}

\* "doc" and "key" are what the process is about to write, "before" what a
\* restore found, "moved" which of it the restore has moved aside.
Job == [cmd : Commands, step : Steps, run : 0 .. MaxRuns, doc : MaybeDoc,
        key : Keys \cup {None}, made : BOOLEAN, before : Place,
        moved : SUBSET {"wallet", "config"}]
Nothing == [wallet |-> None, config |-> None]
NoJob == [cmd |-> "set", step |-> "idle", run |-> 0, doc |-> None, key |-> None,
          made |-> FALSE, before |-> Nothing, moved |-> {}]

FilesTypeOK ==
    /\ config \in MaybeDoc
    /\ wallet \in MaybeKeyFile
    /\ copies \subseteq Copy
    /\ safety \in [Seconds -> Place]
    /\ archives \subseteq Archive
    /\ shown \subseteq Keys
    /\ flock \in Writers \cup {None}
    /\ job \in [Writers -> Job]
    /\ run \in 0 .. MaxRuns
    /\ sec \in 0 .. run
    /\ mishap \in BOOLEAN

\* A backup brought from another machine, whole or of a damaged node.
Foreign(k) ==
    {[at |-> 0, sec |-> 0, name |-> "brought", key |-> key,
      doc |-> [producer |-> k, text |-> Plain], sum |-> sum] :
        key \in {k, None}, sum \in {"none", "right"}}

\* A node before any producer was set up, with or without a config.json.
FilesInit ==
    /\ config \in {None, [producer |-> None, text |-> Plain]}
    /\ wallet = None
    /\ copies = {}
    /\ safety = [s \in Seconds |-> Nothing]
    /\ \/ archives = {}
       \/ \E k \in Keys : \E a \in Foreign(k) : archives = {a}
    /\ shown = {}
    /\ flock = None
    /\ job = [w \in Writers |-> NoJob]
    /\ run = 0
    /\ sec = 0
    /\ mishap = FALSE

-----------------------------------------------------------------------------
Might(fault) == fault \in FileFaults
Doing(w, step) == job[w].step = step
Goes(w, state) == job' = [job EXCEPT ![w] = state] /\ UNCHANGED flock
Next_(w, step) == Goes(w, [job[w] EXCEPT !.step = step])
Leaves(w) ==
    /\ job' = [job EXCEPT ![w] = NoJob]
    /\ flock' = IF flock = w THEN None ELSE flock

\* Mutant: the lock is not exclusive.
TakeShared(w) == flock' = w
Take(w) == flock = None /\ flock' = w

FirstStep(cmd) ==
    CASE cmd \in ConfigCommands -> "read"
      [] cmd = "setup" -> "inspect"
      [] cmd = "backup" -> "pack"
      [] cmd = "restore" -> "stage"

\* A command may begin in the second in which the one before it began.
Run(w) ==
    /\ Doing(w, "idle")
    /\ run < MaxRuns
    /\ Take(w)
    /\ run' = run + 1
    /\ sec' \in IF run > 0 /\ Might("sameSecond") THEN {sec, sec + 1} ELSE {sec + 1}
    /\ \E cmd \in Commands :
         job' = [job EXCEPT ![w] = [NoJob EXCEPT
                   !.cmd = cmd, !.step = FirstStep(cmd), !.run = run + 1]]
    /\ UNCHANGED <<files, shown, mishap>>

-----------------------------------------------------------------------------
(* config set, unset and edit.                                             *)

Loaded == IF config = None THEN [producer |-> None, text |-> Plain] ELSE config

\* What the command may leave: only --force skips the validation, only an
\* edit is refused for a key znnd does not know.
Allowed(cmd) ==
    CASE cmd = "force" -> Texts
      [] cmd = "edit" -> Clean
      [] OTHER -> Valid

Read(w) ==
    /\ Doing(w, "read")
    /\ job[w].cmd = "unset" => config # None
    /\ \E text \in Allowed(job[w].cmd) \ {Loaded.text} :
         Goes(w, [job[w] EXCEPT !.step = "keep",
                                !.doc = [Loaded EXCEPT !.text = text]])
    /\ UNCHANGED <<files, shown, run, sec, mishap>>

\* Mutant: the name of a copy is taken without a look whether it is free.
CopyNumberBlind(cmd) == 0
\* backupName's first free number; WriteConfig of pillar setup has only the
\* second.
CopyNumber(cmd) ==
    IF cmd = "setup" THEN 0
    ELSE CHOOSE n \in 0 .. MaxRuns :
            /\ ~\E c \in copies : c.sec = sec /\ c.n = n
            /\ \A m \in 0 .. n - 1 : \E c \in copies : c.sec = sec /\ c.n = m

\* The previous file is copied; a file of that name is overwritten.
Keep(w) ==
    /\ Doing(w, "keep")
    /\ LET n == CopyNumber(job[w].cmd)
       IN  copies' = IF config = None THEN copies
                     ELSE {c \in copies : ~(c.sec = sec /\ c.n = n)}
                          \cup {[sec |-> sec, n |-> n, doc |-> config]}
    /\ Next_(w, "rename")
    /\ UNCHANGED <<config, wallet, safety, archives, shown, run, sec, mishap>>

Rename(w) ==
    /\ Doing(w, "rename")
    /\ config' = job[w].doc
    /\ IF job[w].cmd = "setup" THEN Next_(w, "tell") ELSE Leaves(w)
    /\ UNCHANGED <<wallet, copies, safety, archives, shown, run, sec, mishap>>

WriteFails(w) ==
    /\ Might("writeFails")
    /\ Doing(w, "keep") \/ Doing(w, "rename")
    /\ Leaves(w)
    /\ UNCHANGED <<files, shown, run, sec, mishap>>

-----------------------------------------------------------------------------
(* pillar setup.                                                           *)

KeptDocs == ({config} \cup {c.doc : c \in copies} \cup {a.doc : a \in archives}
             \cup {safety[s].config : s \in Seconds}) \ {None}
\* Mutant: the file itself for the key in it.
KeyOfFile(keyFile) == keyFile
KeyOf(keyFile) == IF keyFile = None THEN None ELSE keyFile.key
KeptKeys == ({KeyOf(wallet)} \cup {a.key : a \in archives}
             \cup {KeyOf(safety[s].wallet) : s \in Seconds}) \ {None}

\* Keys whose password is still to be found somewhere.
Known == shown \cup ({d.producer : d \in KeptDocs} \ {None})

\* A configured producer is kept unless the user says otherwise; a key file
\* is configured when its password is known; else a key is made.
Inspect(w) ==
    /\ Doing(w, "inspect")
    /\ \/ Loaded.producer # None /\ wallet # None /\ Leaves(w)
       \/ /\ KeyOf(wallet) \in Known
          /\ Goes(w, [job[w] EXCEPT !.step = "wire", !.key = wallet.key])
       \/ wallet = None /\ Next_(w, "create")
    /\ UNCHANGED <<files, shown, run, sec, mishap>>

NewKey(k) == k \in Keys \ (KeptKeys \cup Known)

\* With --password the user knows the password beforehand.
Create(w) ==
    /\ Doing(w, "create")
    /\ \E k \in Keys :
         /\ NewKey(k)
         /\ wallet' = [key |-> k, written |-> job[w].run]
         /\ shown' \in {shown, shown \cup {k}}
         /\ Goes(w, [job[w] EXCEPT !.step = "wire", !.key = k, !.made = TRUE])
    /\ UNCHANGED <<config, copies, safety, archives, run, sec, mishap>>

\* The key cannot be written, or not be read back once it is.
CreateFails(w) ==
    /\ Might("createFails")
    /\ Doing(w, "create")
    /\ \/ UNCHANGED wallet
       \/ \E k \in Keys : NewKey(k) /\ wallet' = [key |-> k, written |-> job[w].run]
    /\ Leaves(w)
    /\ UNCHANGED <<config, copies, safety, archives, shown, run, sec, mishap>>

\* WriteConfig reads the document it changes.
Wire(w) ==
    /\ Doing(w, "wire")
    /\ Goes(w, [job[w] EXCEPT !.step = "keep",
                              !.doc = [Loaded EXCEPT !.producer = job[w].key]])
    /\ UNCHANGED <<files, shown, run, sec, mishap>>

\* A new key's password is printed, unless the node does not restart.
TellPassword(w) ==
    /\ Doing(w, "tell")
    /\ \/ shown' = IF job[w].made THEN shown \cup {job[w].key} ELSE shown
       \/ Might("restartFails") /\ UNCHANGED shown
    /\ Leaves(w)
    /\ UNCHANGED <<files, run, sec, mishap>>

-----------------------------------------------------------------------------
(* backup wallet.                                                          *)

Pack(w) ==
    /\ Doing(w, "pack")
    /\ wallet # None \/ config # None
    /\ Goes(w, [job[w] EXCEPT !.step = "publish", !.key = KeyOf(wallet),
                              !.doc = config])
    /\ UNCHANGED <<files, shown, run, sec, mishap>>

Named(name) == {a \in archives : a.sec = sec /\ a.name = name}

PackedArchive(w, name, sum) ==
    [at |-> job[w].run, sec |-> sec, name |-> name, key |-> job[w].key,
     doc |-> job[w].doc, sum |-> sum]

\* An archive of that name is replaced; the .sha256 file of the replaced one
\* stays, and fits the new one only if their contents are the same.
Publish(w) ==
    /\ Doing(w, "publish")
    /\ \E name \in Names :
         LET summed == {a \in Named(name) : a.sum # "none"}
             same == {a \in summed : a.key = job[w].key /\ a.doc = job[w].doc}
         IN  \E sum \in IF summed = {} THEN {"none"} ELSE {"wrong"} \cup {a.sum : a \in same} :
               archives' = (archives \ Named(name)) \cup {PackedArchive(w, name, sum)}
    /\ Next_(w, "hash")
    /\ UNCHANGED <<config, wallet, copies, safety, shown, run, sec, mishap>>

Hash(w) ==
    /\ Doing(w, "hash")
    /\ archives' = {IF a.at = job[w].run THEN [a EXCEPT !.sum = "right"] ELSE a : a \in archives}
    /\ Leaves(w)
    /\ UNCHANGED <<config, wallet, copies, safety, shown, run, sec, mishap>>

\* Only an archive in the backup directory, with a hash beside it, is listed.
Listed(a) == a.name # "elsewhere" /\ a.sum # "none"

BackupFails(w) ==
    /\ Might("hashFails")
    /\ Doing(w, "publish") \/ Doing(w, "hash")
    /\ Leaves(w)
    /\ UNCHANGED <<files, shown, run, sec, mishap>>

-----------------------------------------------------------------------------
(* restore wallet.                                                         *)

\* Mutant: the archived key is not compared with the archived config.
OpensAny(archive) == TRUE
\* The hash beside it is its own, and a config that names a producer comes
\* with the key it names.
Opens(archive) ==
    /\ archive.sum # "wrong"
    /\ archive.doc # None => archive.doc.producer \in {None, archive.key}

Stage(w) ==
    /\ Doing(w, "stage")
    /\ \E a \in archives :
         /\ Opens(a)
         /\ Goes(w, [job[w] EXCEPT
                !.step = "asideWallet", !.key = a.key, !.doc = a.doc,
                !.before = [wallet |-> wallet, config |-> config]])
    /\ UNCHANGED <<files, shown, run, sec, mishap>>

\* Mutant: the key files are moved one by one, over those that are there.
InTheWayNever == FALSE
\* The safety directory may be that of an earlier restore of this second; its
\* config.json is replaced, but a directory is not renamed over another.
InTheWay == wallet # None /\ safety[sec].wallet # None

Aside(w) ==
    /\ \/ /\ Doing(w, "asideWallet")
          /\ wallet = None /\ Next_(w, "asideConfig")
          /\ UNCHANGED <<wallet, config, safety>>
       \/ /\ Doing(w, "asideWallet")
          /\ wallet # None /\ ~InTheWay
          /\ wallet' = None
          /\ safety' = [safety EXCEPT ![sec].wallet = wallet]
          /\ Goes(w, [job[w] EXCEPT !.step = "asideConfig", !.moved = {"wallet"}])
          /\ UNCHANGED config
       \/ /\ Doing(w, "asideConfig")
          /\ config = None /\ Next_(w, "installConfig")
          /\ UNCHANGED <<wallet, config, safety>>
       \/ /\ Doing(w, "asideConfig")
          /\ config # None
          /\ config' = None
          /\ safety' = [safety EXCEPT ![sec].config = config]
          /\ Goes(w, [job[w] EXCEPT !.step = "installConfig",
                                    !.moved = job[w].moved \cup {"config"}])
          /\ UNCHANGED wallet
    /\ UNCHANGED <<copies, archives, shown, run, sec, mishap>>

\* Mutant: an installed key keeps the time it has in the archive.
InstalledAtOnce(w) == 0
\* The files are written to the staging directory by this run.
InstalledAt(w) == job[w].run

Install(w) ==
    /\ \/ /\ Doing(w, "installConfig")
          /\ config' = IF job[w].doc = None THEN config ELSE job[w].doc
          /\ Next_(w, "installWallet")
          /\ UNCHANGED wallet
       \/ /\ Doing(w, "installWallet")
          /\ wallet' = IF job[w].key = None THEN wallet
                       ELSE [key |-> job[w].key, written |-> InstalledAt(w)]
          /\ Leaves(w)
          /\ UNCHANGED config
    /\ UNCHANGED <<copies, safety, archives, shown, run, sec, mishap>>

SwapGoesWrong(w) ==
    /\ \/ Doing(w, "asideWallet") /\ InTheWay
       \/ Might("asideFails") /\ job[w].step \in {"asideWallet", "asideConfig"}
       \/ Might("installFails")
          /\ job[w].step \in {"installConfig", "installWallet"}
    /\ Next_(w, "backConfig")
    /\ UNCHANGED <<files, shown, run, sec, mishap>>

\* What this restore has in the safety directory.
Kept(w) ==
    [wallet |-> IF "wallet" \in job[w].moved THEN safety[sec].wallet ELSE None,
     config |-> IF "config" \in job[w].moved THEN safety[sec].config ELSE None]

\* Mutant: only the wallet is put back.
PutBackWalletOnly(w) ==
    /\ Doing(w, "backConfig") \/ Doing(w, "backWallet")
    /\ IF Kept(w).wallet = None THEN UNCHANGED <<wallet, safety>>
       ELSE wallet' = Kept(w).wallet /\ safety' = [safety EXCEPT ![sec].wallet = None]
    /\ Next_(w, "undone")
    /\ UNCHANGED <<config, copies, archives, shown, run, sec, mishap>>

\* Only what this restore moved aside is put back, over whatever was
\* installed there.  A file that was installed where none had been stays.
PutBack(w) ==
    /\ \/ /\ Doing(w, "backConfig")
          /\ IF Kept(w).config = None THEN UNCHANGED <<config, safety>>
             ELSE config' = Kept(w).config /\ safety' = [safety EXCEPT ![sec].config = None]
          /\ Next_(w, "backWallet")
          /\ mishap' = (mishap \/ (Kept(w).config = None
                                   /\ config # job[w].before.config))
          /\ UNCHANGED wallet
       \/ /\ Doing(w, "backWallet")
          /\ IF Kept(w).wallet = None THEN UNCHANGED <<wallet, safety>>
             ELSE wallet' = Kept(w).wallet /\ safety' = [safety EXCEPT ![sec].wallet = None]
          /\ Next_(w, "undone")
          /\ UNCHANGED <<config, mishap>>
    /\ UNCHANGED <<copies, archives, shown, run, sec>>

\* What was installed is removed, and the kept file stays where it is.
PutBackFails(w) ==
    /\ Might("putBackFails")
    /\ \/ /\ Doing(w, "backConfig")
          /\ Kept(w).config # None
          /\ config' = None
          /\ Next_(w, "backWallet")
          /\ UNCHANGED wallet
       \/ /\ Doing(w, "backWallet")
          /\ Kept(w).wallet # None
          /\ wallet' = None
          /\ Next_(w, "undone")
          /\ UNCHANGED config
    /\ mishap' = TRUE
    /\ UNCHANGED <<copies, safety, archives, shown, run, sec>>

Undone(w) ==
    /\ Doing(w, "undone")
    /\ Leaves(w)
    /\ UNCHANGED <<files, shown, run, sec, mishap>>

-----------------------------------------------------------------------------
\* Nothing to do, a value or an archive refused, a password not known, an
\* edit given up: the command ends before it writes.
Refused(w) ==
    /\ job[w].step \in {"read", "inspect", "pack", "stage"}
    /\ Leaves(w)
    /\ UNCHANGED <<files, shown, run, sec, mishap>>

\* The kernel drops the lock of a process that dies.
Dies(w) ==
    /\ Might("killed")
    /\ ~Doing(w, "idle")
    /\ Leaves(w)
    /\ mishap' = TRUE
    /\ UNCHANGED <<files, shown, run, sec>>

FilesNext ==
    \E w \in Writers :
        \/ Run(w) \/ Refused(w) \/ Dies(w)
        \/ Read(w) \/ Keep(w) \/ Rename(w) \/ WriteFails(w)
        \/ Inspect(w) \/ Create(w) \/ CreateFails(w) \/ Wire(w)
        \/ TellPassword(w)
        \/ Pack(w) \/ Publish(w) \/ Hash(w) \/ BackupFails(w)
        \/ Stage(w) \/ Aside(w) \/ Install(w) \/ SwapGoesWrong(w)
        \/ PutBack(w) \/ PutBackFails(w) \/ Undone(w)

FilesSpec == FilesInit /\ [][FilesNext]_filesVars

-----------------------------------------------------------------------------
(* Properties.                                                             *)

\* The documents under names that two commands of this second can both give:
\* pillar setup's copy, a restore's safety directory and a backup's archive.
NamedBySecond ==
    {c.doc : c \in {c \in copies : c.sec = sec /\ c.n = 0}} \cup {safety[sec].config}
    \cup {a.doc : a \in UNION {Named(name) : name \in Names}}

\* No command destroys the last copy of a key, nor of a config.json, whatever
\* fails half-way or dies: what a write, a restore or its roll-back replaces
\* is kept somewhere (SaveUnchecked, backupName, Restore).  Only a setup, a
\* backup or a restore can lose a document, and only one that was put aside in
\* the very second in which it begins, when it gives the same name again.
NothingDestroyed ==
    [][/\ KeptKeys \subseteq KeptKeys'
       /\ KeptDocs \subseteq KeptDocs' \cup NamedBySecond
       /\ (\A w \in Writers : job[w].cmd \in ConfigCommands) => KeptDocs \subseteq KeptDocs']_files

\* "so no backup overwrites another", which backupName says of the config
\* commands, of every command: no config.json is lost at all.
EveryCopyKept == [][KeptDocs \subseteq KeptDocs']_files

\* Between commands, the producer that config.json names is the key in the
\* wallet, whatever was set up, restored, edited or refused in between: the
\* node can open it when it starts (Setup, Restore).
ConfigOpens ==
    (flock = None /\ ~mishap /\ Loaded.producer # None) =>
        KeyOf(wallet) = Loaded.producer

\* wallet_backup_missing is silent for a producer whose key file is newer
\* than every listed backup never: when it is silent, some listed backup
\* holds the key of the wallet (Status.Missing compares two times only).
Missing ==
    /\ Loaded.producer # None
    /\ ~\E a \in archives : Listed(a) /\ (wallet = None \/ a.at >= wallet.written)
SilenceMeansBackedUp ==
    (Loaded.producer # None /\ wallet # None /\ ~Missing) =>
        \E a \in archives : Listed(a) /\ a.key = wallet.key

\* A config command never changes which producer the node has, although it
\* writes the whole document some time after it read it.
ProducerReserved ==
    [][\A w \in Writers :
          (job[w].cmd \in ConfigCommands /\ Rename(w)) =>
              Loaded'.producer = Loaded.producer]_filesVars

\* "A failure after the move puts the previous files back": each file that a
\* failed restore found is in its place again or, if that fails too, in the
\* safety directory.
FilesPutBack ==
    \A w \in Writers : Doing(w, "undone") =>
        LET before == job[w].before
            kept == Kept(w)
        IN  /\ \/ before.wallet \in {None, wallet}
               \/ mishap /\ before.wallet = kept.wallet
            /\ \/ before.config \in {None, config}
               \/ mishap /\ before.config = kept.config

\* "the previous files put back": after a failed restore the node has the
\* files it had, and no others.
UndoneExactly ==
    \A w \in Writers : Doing(w, "undone") =>
        job[w].before = [wallet |-> wallet, config |-> config]

\* "a new key file is created with a generated 16-character password (or
\* --password), printed once": when setup is over, the password of the key in
\* the wallet was printed or is in a config.json.
PasswordKept ==
    (flock = None /\ ~mishap /\ wallet # None) => wallet.key \in Known
=============================================================================
