---------------------------- MODULE SelfUpgrade ----------------------------
(***************************************************************************)
(* `nomctl upgrade` and `upgrade --rollback` (cmd/upgrade.go,              *)
(* internal/update): how the binary replaces itself and what becomes of    *)
(* the copy kept for a rollback and of the alerts daemon.  No lock is      *)
(* taken.  A step is one file operation; the process may die after each.   *)
(***************************************************************************)
EXTENDS Naturals

CONSTANTS
    Upgraders,     \* processes running `nomctl upgrade`
    Releases,      \* release numbers
    Inodes,
    MaxUpgrades,   \* bound on the commands ever run
    UpFaultSets    \* what may go wrong: each behaviour meets one of the sets

Torn == 0          \* an empty or partly written file
NoFile == "none"

UpFaultNames == {"fetchFails", "linkFails", "copyFails", "restartFails", "killed"}

ASSUME UpgradeAssumption ==
    /\ Releases \subseteq Nat \ {Torn}
    /\ MaxUpgrades \in Nat
    /\ NoFile \notin Inodes
    /\ UpFaultSets \subseteq SUBSET UpFaultNames

VARIABLES
    entry,      \* directory entries: the binary, .previous, .staged
    content,    \* [Inodes -> what the file holds]
    up,         \* [Upgraders -> what the process is doing]
    unit,       \* the release whose layout the daemon's unit files have
    daemon,     \* the file the alerts daemon was started from
    upgrades,   \* commands run so far
    upFaults    \* what may go wrong in this behaviour

upVars == <<entry, content, up, unit, daemon, upgrades, upFaults>>

Entries == {"target", "previous", "staged"}
MaybeInode == Inodes \cup {NoFile}
UpSteps == {"idle", "fetch", "forget", "link", "keepOpen", "keepCopy", "open",
            "copy", "rename", "converge", "restart"}
\* "text" is the file the process runs from, "from" and "to" those it copies.
Upgrader == [step : UpSteps, cmd : {"upgrade", "rollback"}, tag : Releases \cup {Torn},
             text : MaybeInode, from : MaybeInode, to : MaybeInode]
IdleUpgrader == [step |-> "idle", cmd |-> "upgrade", tag |-> Torn, text |-> NoFile,
                 from |-> NoFile, to |-> NoFile]

UpgradeTypeOK ==
    /\ entry \in [Entries -> MaybeInode]
    /\ entry["target"] # NoFile
    /\ content \in [Inodes -> Releases \cup {Torn}]
    /\ up \in [Upgraders -> Upgrader]
    /\ unit \in Releases \cup {Torn}
    /\ daemon \in MaybeInode
    /\ upgrades \in 0 .. MaxUpgrades
    /\ upFaults \in UpFaultSets

\* Installed by install.sh; the alerts daemon is set up and runs, is set up
\* and stopped, or is not there.
UpgradeInit ==
    \E i \in Inodes, v \in Releases :
        /\ i = CHOOSE j \in Inodes : TRUE
        /\ entry = [n \in Entries |-> IF n = "target" THEN i ELSE NoFile]
        /\ content = [j \in Inodes |-> IF j = i THEN v ELSE Torn]
        /\ up = [u \in Upgraders |-> IdleUpgrader]
        /\ unit \in {v, Torn}
        /\ daemon \in IF unit = Torn THEN {NoFile} ELSE {i, NoFile}
        /\ upgrades = 0
        /\ upFaults \in UpFaultSets

-----------------------------------------------------------------------------
At(u, step) == up[u].step = step
Proceeds(u, state) == up' = [up EXCEPT ![u] = state]
Goes_(u, step) == Proceeds(u, [up[u] EXCEPT !.step = step])
Ends(u) == Proceeds(u, IdleUpgrader)

InUse == {entry[n] : n \in Entries} \cup {daemon}
         \cup UNION {{up[u].text, up[u].from, up[u].to} : u \in Upgraders}
Free == Inodes \ InUse
\* A file that is being run cannot be opened for writing (ETXTBSY).
Busy == {daemon} \cup {up[u].text : u \in Upgraders}

\* Any tag can be asked for with --version; a rollback takes none.
StartUpgrade(u) ==
    /\ At(u, "idle")
    /\ upgrades < MaxUpgrades
    /\ content[entry["target"]] # Torn
    /\ upgrades' = upgrades + 1
    /\ \E tag \in Releases, rollback \in BOOLEAN :
         IF rollback
         THEN /\ entry["previous"] # NoFile
              /\ Proceeds(u, [IdleUpgrader EXCEPT !.step = "open", !.cmd = "rollback",
                                                  !.text = entry["target"]])
         ELSE Proceeds(u, [IdleUpgrader EXCEPT !.step = "fetch", !.tag = tag,
                                               !.text = entry["target"]])
    /\ UNCHANGED <<entry, content, unit, daemon, upFaults>>

\* The archive is checked against checksums.txt: what is extracted, into a
\* directory of its own, is the release.
Fetch(u) ==
    /\ At(u, "fetch")
    /\ \/ Goes_(u, "forget")
       \/ "fetchFails" \in upFaults /\ Ends(u)
    /\ UNCHANGED <<entry, content, unit, daemon, upgrades, upFaults>>

\* Mutant: a copy that is there already is taken for the one to keep.
KeepPrevious(u) ==
    /\ At(u, "forget")
    /\ Goes_(u, IF entry["previous"] = NoFile THEN "link" ELSE "open")
    /\ UNCHANGED <<entry, content, unit, daemon, upgrades, upFaults>>
ForgetPrevious(u) ==
    /\ At(u, "forget")
    /\ entry' = [entry EXCEPT !["previous"] = NoFile]
    /\ Goes_(u, "link")
    /\ UNCHANGED <<content, unit, daemon, upgrades, upFaults>>

\* Mutant: the old binary is moved, not linked.
MovePrevious(u) ==
    /\ At(u, "link")
    /\ entry' = [entry EXCEPT !["previous"] = entry["target"], !["target"] = NoFile]
    /\ Goes_(u, "open")
    /\ UNCHANGED <<content, unit, daemon, upgrades, upFaults>>
LinkPrevious(u) ==
    /\ At(u, "link")
    /\ \/ /\ entry["previous"] = NoFile
          /\ entry' = [entry EXCEPT !["previous"] = entry["target"]]
          /\ Goes_(u, "open")
       \/ /\ entry["previous"] # NoFile \/ "linkFails" \in upFaults
          /\ Goes_(u, "keepOpen")
          /\ UNCHANGED entry
    /\ UNCHANGED <<content, unit, daemon, upgrades, upFaults>>

\* copyFile: the destination is created, or truncated when it is there.
\* There is a free inode: Inodes bounds the files, not the disk.
OpenFor(u, name, from, step) ==
    \/ /\ entry[name] = NoFile
       /\ Free # {}
       /\ LET i == CHOOSE j \in Free : TRUE
          IN  /\ entry' = [entry EXCEPT ![name] = i]
              /\ content' = [content EXCEPT ![i] = Torn]
              /\ Proceeds(u, [up[u] EXCEPT !.step = step, !.from = from, !.to = i])
    \/ /\ entry[name] \in Inodes \ Busy
       /\ content' = [content EXCEPT ![entry[name]] = Torn]
       /\ Proceeds(u, [up[u] EXCEPT !.step = step, !.from = from, !.to = entry[name]])
       /\ UNCHANGED entry
    \/ /\ entry[name] \in Busy \ {NoFile}
       /\ Ends(u)
       /\ UNCHANGED <<entry, content>>

Open(u) ==
    /\ \/ /\ At(u, "keepOpen")
          /\ OpenFor(u, "previous", entry["target"], "keepCopy")
       \/ /\ At(u, "open")
          /\ OpenFor(u, "staged",
                     IF up[u].cmd = "upgrade" THEN NoFile ELSE entry["previous"], "copy")
    /\ UNCHANGED <<unit, daemon, upgrades, upFaults>>

Source(u) == IF up[u].from = NoFile THEN up[u].tag ELSE content[up[u].from]
CopyAll(u) ==
    /\ \/ At(u, "keepCopy") /\ Goes_(u, "open")
       \/ At(u, "copy") /\ Goes_(u, "rename")
    /\ content' = [content EXCEPT ![up[u].to] = Source(u)]
    /\ UNCHANGED <<entry, unit, daemon, upgrades, upFaults>>

\* Mutant: the error of the copy is not looked at.
CopyBreaksUnseen(u) ==
    /\ "copyFails" \in upFaults
    /\ \/ At(u, "keepCopy") /\ Goes_(u, "open")
       \/ At(u, "copy") /\ Goes_(u, "rename")
    /\ UNCHANGED <<entry, content, unit, daemon, upgrades, upFaults>>
\* What was written so far stays where it is.
CopyBreaks(u) ==
    /\ "copyFails" \in upFaults
    /\ At(u, "keepCopy") \/ At(u, "copy")
    /\ Ends(u)
    /\ UNCHANGED <<entry, content, unit, daemon, upgrades, upFaults>>

\* Another upgrade may have renamed the staged file.
InstallStaged(u) ==
    /\ At(u, "rename")
    /\ IF entry["staged"] = NoFile
       THEN Ends(u) /\ UNCHANGED entry
       ELSE /\ entry' = [entry EXCEPT !["target"] = entry["staged"],
                                      !["staged"] = NoFile]
            /\ Goes_(u, "converge")
    /\ UNCHANGED <<content, unit, daemon, upgrades, upFaults>>

\* Converge writes the unit files of the process that runs it.
Layout(u) == content[up[u].text]

\* With the unit installed; a daemon that runs is restarted when it changed.
ConvergeUnits(u) ==
    /\ At(u, "converge")
    /\ unit' = IF unit = Torn THEN Torn ELSE Layout(u)
    /\ daemon' = IF unit' # unit /\ daemon # NoFile THEN entry["target"] ELSE daemon
    /\ IF unit' # unit \/ daemon = NoFile THEN Ends(u) ELSE Goes_(u, "restart")
    /\ UNCHANGED <<entry, content, upgrades, upFaults>>

\* Mutant: the daemon is left as it is when no unit file changed.
RestartNothing(u) ==
    At(u, "restart") /\ Ends(u) /\ UNCHANGED <<entry, content, unit, daemon, upgrades, upFaults>>
RestartDaemon(u) ==
    /\ At(u, "restart")
    /\ daemon' = entry["target"]
    /\ Ends(u)
    /\ UNCHANGED <<entry, content, unit, upgrades, upFaults>>

RestartFails(u) ==
    /\ "restartFails" \in upFaults
    /\ At(u, "converge") \/ At(u, "restart")
    /\ Ends(u)
    /\ UNCHANGED <<entry, content, unit, daemon, upgrades, upFaults>>

UpgradeDies(u) ==
    /\ "killed" \in upFaults
    /\ ~At(u, "idle")
    /\ Ends(u)
    /\ UNCHANGED <<entry, content, unit, daemon, upgrades, upFaults>>

UpgradeNext ==
    \E u \in Upgraders :
        \/ StartUpgrade(u) \/ Fetch(u) \/ ForgetPrevious(u) \/ LinkPrevious(u)
        \/ Open(u) \/ CopyAll(u) \/ CopyBreaks(u) \/ InstallStaged(u)
        \/ ConvergeUnits(u) \/ RestartDaemon(u) \/ RestartFails(u) \/ UpgradeDies(u)

UpgradeSpec == UpgradeInit /\ [][UpgradeNext]_upVars

-----------------------------------------------------------------------------
(* Properties.                                                             *)

\* "replaces the running binary atomically": whatever fails and wherever the
\* process dies, there is a whole binary to run, after a rollback as well.
TargetRuns == content[entry["target"]] # Torn

\* An upgrade that installed its release has kept the one it replaced: right
\* up to its end .previous holds the release the process runs from.
PreviousKept ==
    \A u \in Upgraders :
        (up[u].cmd = "upgrade" /\ up[u].step \in {"rename", "converge", "restart"}) =>
            /\ entry["previous"] # NoFile
            /\ content[entry["previous"]] = content[up[u].text]

\* When an upgrade or a rollback ends, a running daemon runs the binary it
\* installed; only a restart that fails, or a death, leaves the old code.
DaemonFollows ==
    (\A u \in Upgraders : At(u, "idle")) =>
        \/ daemon \in {NoFile, entry["target"]}
        \/ upFaults \cap {"restartFails", "killed"} # {}

\* Through an upgrade or a rollback, whatever fails, there is a binary to run
\* and one to go back to, and the daemon is not left behind.
UpgradeSafe == TargetRuns /\ PreviousKept /\ DaemonFollows

\* "nodes from older releases migrate on their next upgrade": after an
\* upgrade the unit files have the layout of the release it installed.
LayoutMigrates ==
    (\A u \in Upgraders : At(u, "idle")) =>
        \/ unit \in {Torn, content[entry["target"]]}
        \/ upFaults \cap {"restartFails", "killed"} # {}
=============================================================================
