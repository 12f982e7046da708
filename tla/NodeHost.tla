------------------------------ MODULE NodeHost ------------------------------
(***************************************************************************)
(* The host nomctl works on: the node's systemd unit (internal/service),   *)
(* its chain-data folders, and the lock file that operations on them take  *)
(* (internal/lock).  A folder is known by the moment the node last wrote   *)
(* it; a set of folders is one chain state when their moments agree.       *)
(***************************************************************************)
EXTENDS Naturals

CONSTANTS
    Procs,       \* nomctl processes: the backup timer's, a person's
    Folders,     \* the chain-data folders
    None,        \* the moment of a folder that does not exist
    Snapshot,    \* the moment of a published bootstrap snapshot
    MaxMoment    \* bound on what the node writes

ASSUME HostAssumption ==
    /\ MaxMoment \in Nat
    /\ None \notin 0 .. MaxMoment
    /\ Snapshot \notin 0 .. MaxMoment
    /\ None # Snapshot
    /\ "free" \notin Procs

VARIABLES
    svc,         \* the unit; "activating" while systemd is about to restart it
    now,         \* the moment of the node's last write
    data,        \* the data directory
    lock         \* the process that holds /run/nomctl.lock

hostVars == <<svc, now, data, lock>>

Moments == (0 .. MaxMoment) \cup {None, Snapshot}
Files == [Folders -> Moments]
AllAt(m) == [f \in Folders |-> m]
Present(files) == {f \in Folders : files[f] # None}
Uniform(files) == \A f, g \in Folders : files[f] = files[g]

HostTypeOK ==
    /\ svc \in {"active", "inactive", "activating"}
    /\ now \in 0 .. MaxMoment
    /\ data \in Files
    /\ lock \in Procs \cup {"free"}

HostInit ==
    /\ svc \in {"active", "inactive"}
    /\ now = 0
    /\ data = AllAt(0)
    /\ lock = "free"

\* Mutant: the flock is not exclusive.
AcquireShared(p) == lock' = p
Acquire(p) == lock = "free" /\ lock' = p
Release(p) == lock' = IF lock = p THEN "free" ELSE lock

\* is-active answers 3 for a unit that is about to be restarted, so it counts
\* as inactive.
IsActive == svc = "active"

\* Stop does nothing to a unit that is not active.
StopService == svc' = IF IsActive THEN "inactive" ELSE svc
StartService == svc' = "active"

\* The running node writes its folders, creating those it misses.
NodeWrites ==
    /\ IsActive
    /\ now < MaxMoment
    /\ now' = now + 1
    /\ data' = AllAt(now + 1)
    /\ UNCHANGED <<svc, lock>>

\* The node dies.  systemd restarts it shortly after (Restart=on-failure),
\* unless it was killed by SIGKILL, which the unit counts as success.
NodeDies ==
    /\ IsActive
    /\ svc' \in {"activating", "inactive"}
    /\ UNCHANGED <<now, data, lock>>

SystemdRestarts ==
    /\ svc = "activating"
    /\ svc' = "active"
    /\ UNCHANGED <<now, data, lock>>

\* `nomctl start` and `nomctl stop`, which do not take the lock.
UserStarts == StartService /\ UNCHANGED <<now, data, lock>>
UserStops == StopService /\ UNCHANGED <<now, data, lock>>

\* The machine restarts: the kernel drops the lock, the unit is enabled.
Reboots ==
    /\ svc' = "active"
    /\ lock' = "free"
    /\ UNCHANGED <<now, data>>
=============================================================================
