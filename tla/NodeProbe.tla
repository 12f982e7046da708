------------------------------ MODULE NodeProbe ------------------------------
(***************************************************************************)
(* How the unprivileged daemon learns what it may not read: a root timer   *)
(* runs `nomctl alerts probe`, which writes the node's open files and the  *)
(* free space of its data directory to a file (internal/metrics/probe.go), *)
(* and the daemon's sampler uses them while they are fresh and describe    *)
(* the process it samples (internal/metrics/sample.go); the rules          *)
(* disk_low and fds_high judge that sample.                                *)
(***************************************************************************)
EXTENDS Integers

CONSTANTS
    Pids,       \* process ids, which the kernel uses again
    MaxStarts,  \* bound: times the node is started
    MaxAge,     \* ProbeMaxAge, in ticks
    MaxTicks,   \* bound: the clock stops here
    OwnMount,   \* the data directory is a mount of its own, under /root
    None

ASSUMPTION ProbeAssumption ==
    /\ MaxStarts \in Nat /\ MaxAge \in Nat /\ MaxTicks \in Nat
    /\ OwnMount \in BOOLEAN /\ None \notin Pids /\ 0 \notin Pids

VARIABLES
    now,        \* the time
    proc,       \* the node's process, None when it is down
    starts,     \* how often it was started
    room,       \* "low" or "enough": free space of the data directory
    probing,    \* a run of the probe between its readings, None when none
    file,       \* the probe file, None before the first
    sample,     \* the daemon's newest sample, None before the first
    lastHigh,   \* history: when each started process last had many files open
    lastLow     \* history: when the data directory was last low

probeVars == <<now, proc, starts, room, probing, file, sample, lastHigh, lastLow>>
truth == <<lastHigh, lastLow>>

Levels == {"high", "low"}
Rooms == {"low", "enough"}
\* "start" is the start time in /proc/<pid>/stat, never 0 and never used
\* twice with the same pid.
Process == [pid : Pids, start : 1 .. MaxStarts, fds : Levels]
Never == -1

Reading == [at : 0 .. MaxTicks, diskOK : BOOLEAN, room : Rooms \cup {"unknown"},
            pid : Pids \cup {0}, start : 0 .. MaxStarts, fds : Levels]
Figures == [process : [known : BOOLEAN, fds : Levels], room : Rooms \cup {"unknown"}]

ProbeTypeOK ==
    /\ now \in 0 .. MaxTicks
    /\ proc \in Process \cup {None}
    /\ starts \in 0 .. MaxStarts
    /\ room \in Rooms
    /\ probing \in [pid : Pids \cup {0}, at : 0 .. MaxTicks] \cup {None}
    /\ file \in Reading \cup {None}
    /\ sample \in Figures \cup {None}
    /\ lastHigh \in [1 .. MaxStarts -> {Never} \cup (0 .. MaxTicks)]
    /\ lastLow \in {Never} \cup (0 .. MaxTicks)

ProbeInit ==
    /\ now = 0
    /\ proc = None
    /\ starts = 0
    /\ room = "enough"
    /\ probing = None
    /\ file = None
    /\ sample = None
    /\ lastHigh = [n \in 1 .. MaxStarts |-> Never]
    /\ lastLow = Never

-----------------------------------------------------------------------------
(* The node and its host.                                                  *)
NodeStarts ==
    /\ proc = None
    /\ starts < MaxStarts
    /\ starts' = starts + 1
    /\ \E pid \in Pids :
        proc' = [pid |-> pid, start |-> starts + 1, fds |-> "low"]
    /\ UNCHANGED <<now, room, probing, file, sample, truth>>

NodeStops ==
    /\ proc # None
    /\ proc' = None
    /\ UNCHANGED <<now, starts, room, probing, file, sample, truth>>

NodeGrows ==
    /\ proc # None
    /\ \E f \in Levels :
        /\ proc' = [proc EXCEPT !.fds = f]
        /\ lastHigh' = IF f = "high" THEN [lastHigh EXCEPT ![proc.start] = now] ELSE lastHigh
    /\ UNCHANGED <<now, starts, room, probing, file, sample, lastLow>>

DiskChanges ==
    /\ \E r \in Rooms : room' = r /\ lastLow' = IF r = "low" THEN now ELSE lastLow
    /\ UNCHANGED <<now, proc, starts, probing, file, sample, lastHigh>>

\* What is so when the tick ends is so when the next begins.
ProbeTick ==
    /\ now < MaxTicks
    /\ now' = now + 1
    /\ lastHigh' = [n \in 1 .. MaxStarts |->
          IF proc # None /\ n = starts THEN IF proc.fds = "high" THEN now + 1 ELSE lastHigh[n]
          ELSE lastHigh[n]]
    /\ lastLow' = IF room = "low" THEN now + 1 ELSE lastLow
    /\ UNCHANGED <<proc, starts, room, probing, file, sample>>

-----------------------------------------------------------------------------
(* `nomctl alerts probe`: the unit's main pid, then TakeProbe: the disk,   *)
(* the start time, the open files.                                         *)
ReadProps ==
    /\ probing = None
    /\ probing' = [pid |-> IF proc = None THEN 0 ELSE proc.pid, at |-> now]
    /\ UNCHANGED <<now, proc, starts, room, file, sample, truth>>

\* /proc/<pid> belongs to whichever process has the pid by then.  A process
\* that is gone has no open files to count: the run ends and writes nothing.
Runs(pid) == proc # None /\ proc.pid = pid
WriteProbe ==
    /\ probing # None
    /\ probing' = None
    /\ \E diskOK \in BOOLEAN :
        file' =
            IF probing.pid # 0 /\ ~Runs(probing.pid) THEN file
            ELSE [at |-> probing.at, diskOK |-> diskOK, room |-> IF diskOK THEN room ELSE "unknown",
                  pid |-> probing.pid,
                  start |-> IF probing.pid = 0 THEN 0 ELSE proc.start,
                  fds |-> IF probing.pid = 0 THEN "low" ELSE proc.fds]
    /\ UNCHANGED <<now, proc, starts, room, sample, truth>>

\* The run is killed, cannot read or cannot rename: the old file stays.
ProbeFails ==
    /\ probing # None
    /\ probing' = None
    /\ UNCHANGED <<now, proc, starts, room, file, sample, truth>>

-----------------------------------------------------------------------------
(* The sampler.                                                            *)
Fresh == file # None /\ now - file.at <= MaxAge

\* Variant: the pid is taken for the process.
ForPid(p) == file.pid = p.pid
ForProcess(p) == p.pid # 0 /\ p.start # 0 /\ file.pid = p.pid /\ file.start = p.start

\* takeProcess, for a daemon that cannot count the open files itself.
TakeProcess(p) ==
    IF p # None /\ Fresh /\ (Fresh => ForProcess(p)) THEN [known |-> TRUE, fds |-> file.fds]
    ELSE [known |-> FALSE, fds |-> "low"]

\* dataDirDisk: the probe's measurement, else the nearest mount the daemon
\* sees, which is not the directory's when that is a mount of its own.
TakeDisk(seen) == IF Fresh => ~file.diskOK THEN seen ELSE file.room
\* Variant: the empty file system that hides /root counts as a mount.
SeenTmpfs == Rooms \cup {"unknown"}
Seen == IF OwnMount THEN Rooms \cup {"unknown"} ELSE {room, "unknown"}

Take ==
    /\ \E seen \in Seen :
        sample' = [process |-> TakeProcess(proc), room |-> TakeDisk(seen)]
    /\ UNCHANGED <<now, proc, starts, room, probing, file, truth>>

ProbeNext ==
    \/ NodeStarts \/ NodeStops \/ NodeGrows \/ DiskChanges \/ ProbeTick
    \/ ReadProps \/ WriteProbe \/ ProbeFails
    \/ Take

ProbeSpec == ProbeInit /\ [][ProbeNext]_probeVars

-----------------------------------------------------------------------------
(* The rules over the newest sample.                                       *)
DiskLow(s) == s.room = "low"
FdsHigh(s) == s.process.known /\ s.process.fds = "high"

Lately(t) == t # Never /\ now - t <= MaxAge

(***************************************************************************)
(* fds_high speaks of the process that was sampled: when a sample makes it *)
(* fire, that very process, not one that had its pid before, had that many *)
(* files open no longer ago than a probe may be old (probe.go:120-124).    *)
(***************************************************************************)
FdsAreItsOwn ==
    [][Take /\ FdsHigh(sample') => proc # None /\ Lately(lastHigh[starts])]_probeVars

(***************************************************************************)
(* disk_low speaks of the data directory as it lately was, though the      *)
(* daemon cannot look into it: never of a stale probe, never of a failed   *)
(* measurement and never of another file system, unless the directory is a *)
(* mount of its own and the probe is missing (sample.go:331-353, "what     *)
(* made disk_low fire on every node after v0.9.0").                        *)
(***************************************************************************)
RoomIsReal == [][Take /\ DiskLow(sample') => Lately(lastLow)]_probeVars

(***************************************************************************)
(* What the probe's file tells a daemon that may not look for itself is of *)
(* the node it samples, and no older than a probe may be.                  *)
(***************************************************************************)
ProbeIsCurrent == FdsAreItsOwn /\ RoomIsReal
=============================================================================
