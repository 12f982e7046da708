---------------------------- MODULE UpdateCheck ----------------------------
(***************************************************************************)
(* The cached check for newer releases of nomctl and newer commits of the  *)
(* node (internal/update), as `status`, `top` and the update_available     *)
(* rule ask it.  Releases and the commits of a branch are numbered; 0 is   *)
(* one that could not be looked up.                                        *)
(***************************************************************************)
EXTENDS Naturals

CONSTANTS
    Branches,
    Default,     \* the branch built in
    TTL,         \* how long an answer is used again
    MaxTime,     \* bound on the clock
    MaxNumber    \* bound on releases and commits

ASSUME CheckAssumption ==
    /\ Default \in Branches
    /\ TTL \in Nat \ {0} /\ MaxTime \in Nat /\ MaxNumber \in Nat \ {0}

VARIABLES
    clock,
    out,         \* "nomctl" and each branch: [number -> when it came out]
    running,     \* the nomctl release that runs
    branch,      \* the branch configured where commands are run
    deployed,    \* the commit of which branch is deployed
    cache,       \* the file /run/nomctl/update-check.json
    told         \* what the last question was answered

checkVars == <<clock, out, running, branch, deployed, cache, told>>

Unknown == 0
Never == MaxTime + 1
Numbers_ == 1 .. MaxNumber
Lines_ == Branches \cup {"nomctl"}
Latest(line) == CHOOSE n \in Numbers_ :
    /\ out[line][n] # Never
    /\ \A m \in Numbers_ : out[line][m] # Never => m <= n

NoCheck == [at |-> Never, branch |-> "none", nomctl |-> Unknown, node |-> Unknown]
NotTold == [asker |-> "none", nomctl |-> Unknown, node |-> Unknown, cache |-> NoCheck]

\* The daemon's unit file passes neither branch nor repository on to it.
AskedBranch(asker) == IF asker = "daemon" THEN Default ELSE branch

CheckTypeOK ==
    LET answer == [at : 0 .. Never, branch : Branches \cup {"none"},
                   nomctl : 0 .. MaxNumber, node : 0 .. MaxNumber]
    IN  /\ clock \in 0 .. MaxTime
        /\ out \in [Lines_ -> [Numbers_ -> 0 .. Never]]
        /\ running \in Numbers_
        /\ branch \in Branches
        /\ deployed \in [branch : Branches, commit : Numbers_]
        /\ cache \in answer
        /\ told \in [asker : {"none", "command", "daemon"}, nomctl : 0 .. MaxNumber,
                     node : 0 .. MaxNumber, cache : answer]

CheckInit ==
    /\ clock = 0
    /\ out = [l \in Lines_ |-> [n \in Numbers_ |-> IF n = 1 THEN 0 ELSE Never]]
    /\ running = 1
    /\ branch \in Branches
    /\ deployed = [branch |-> branch, commit |-> 1]
    /\ cache = NoCheck
    /\ told = NotTold

\* Mutant: the cache is used whatever it was asked for.
UsableByAge(b) == cache # NoCheck /\ clock - cache.at < TTL
Usable(b) == cache # NoCheck /\ clock - cache.at < TTL /\ cache.branch = b

\* Mutant: an answer that is used again counts as a new one.
ChecksRenewed(b) ==
    IF Usable(b) THEN {[cache EXCEPT !.at = clock]}
    ELSE {[at |-> clock, branch |-> b, nomctl |-> n, node |-> c] :
            n \in {Unknown, Latest("nomctl")}, c \in {Unknown, Latest(b)}}
\* Each lookup may fail, and that is kept as an answer too.
Checks(b) ==
    IF Usable(b) THEN {cache}
    ELSE {[at |-> clock, branch |-> b, nomctl |-> n, node |-> c] :
            n \in {Unknown, Latest("nomctl")}, c \in {Unknown, Latest(b)}}

Newer(candidate, version) == candidate # Unknown /\ candidate > version
\* SameCommit compares with the deployed commit, whatever its branch.
NodeBehind(c) ==
    c.node # Unknown /\ deployed # [branch |-> c.branch, commit |-> c.node]

Ask(asker) ==
    \E c \in Checks(AskedBranch(asker)) :
        /\ cache' = c
        /\ told' = [asker |-> asker, cache |-> c,
                    nomctl |-> IF Newer(c.nomctl, running) THEN c.nomctl ELSE Unknown,
                    node |-> IF NodeBehind(c) THEN c.node ELSE Unknown]
        /\ UNCHANGED <<clock, out, running, branch, deployed>>

-----------------------------------------------------------------------------
Forgotten == told' = NotTold
Publishes(line) ==
    /\ Latest(line) < MaxNumber
    /\ out' = [out EXCEPT ![line][Latest(line) + 1] = clock]
    /\ Forgotten
    /\ UNCHANGED <<clock, running, branch, deployed, cache>>
\* `upgrade` looks up the latest release itself; --version may be any.
UpgradesTo(n) ==
    /\ out["nomctl"][n] # Never
    /\ running' = n
    /\ Forgotten
    /\ UNCHANGED <<clock, out, branch, deployed, cache>>
Deploys(b) ==
    /\ deployed' = [branch |-> b, commit |-> Latest(b)]
    /\ Forgotten
    /\ UNCHANGED <<clock, out, running, branch, cache>>
Configures(b) ==
    /\ branch' = b
    /\ Forgotten
    /\ UNCHANGED <<clock, out, running, deployed, cache>>
\* /run is cleared.
ForgetsCache ==
    /\ cache' = NoCheck
    /\ Forgotten
    /\ UNCHANGED <<clock, out, running, branch, deployed>>
Passes ==
    /\ clock < MaxTime
    /\ clock' = clock + 1
    /\ Forgotten
    /\ UNCHANGED <<out, running, branch, deployed, cache>>

CheckNext ==
    \/ ForgetsCache \/ Passes
    \/ \E asker \in {"command", "daemon"} : Ask(asker)
    \/ \E l \in Lines_ : Publishes(l)
    \/ \E n \in Numbers_ : UpgradesTo(n)
    \/ \E b \in Branches : Configures(b) \/ Deploys(b)

CheckSpec == CheckInit /\ [][CheckNext]_checkVars

-----------------------------------------------------------------------------
(* Properties.                                                             *)

\* What is reported as available is out, newer than what runs, and of the
\* branch that was asked about, though commands and daemon share the cache.
ReportIsTrue ==
    /\ told.nomctl # Unknown =>
        out["nomctl"][told.nomctl] # Never /\ told.nomctl > running
    /\ told.node # Unknown => told.cache.branch = AskedBranch(told.asker)

\* A release that came out a TTL ago is reported to a node that does not run
\* it, or the lookup the answer is from failed.
ReportIsFresh ==
    told # NotTold =>
        \A n \in Numbers_ : (n > running /\ out["nomctl"][n] + TTL <= clock) =>
            told.nomctl >= n \/ told.cache.nomctl = Unknown

\* What a cache shared by commands, daemon and releases says is neither
\* wrong nor old (Run, usable).
ReportsAreRight == ReportIsTrue /\ ReportIsFresh

\* "nothing when up to date": a node deployed from the newest commit of the
\* configured branch is not reported as behind.
QuietWhenUpToDate ==
    (deployed = [branch |-> branch, commit |-> Latest(branch)]) =>
        told.node = Unknown
=============================================================================
