------------------------------ MODULE AlertRules ------------------------------
(***************************************************************************)
(* The node-side alert rules (internal/alerts/rules.go) over the history   *)
(* of samples the daemon keeps, with thresholds as config.go reads them.   *)
(* "kept" is the daemon's history; "past" is every sample it ever took.    *)
(* A sample also carries, under "crashes" and "missed", what really        *)
(* happened to the node up to then, which no rule can see.                 *)
(*                                                                         *)
(* The rules read disjoint parts of a sample, so a behaviour follows one   *)
(* "view" of the node and leaves the rest of it healthy.                   *)
(***************************************************************************)
EXTENDS Integers, Sequences, SequencesExt

CONSTANTS
    Views,      \* among ViewNames
    SystemdAnswers,   \* whether `systemctl show` always answers
    Interval,   \* Config.Interval, in ticks
    Delays,     \* how long a Step may take: sampling, then the relay's answers
    MaxWindow,  \* HistoryWindow = MaxWindowMinutes, in ticks
    DefaultMinutes,    \* a rule's default minutes
    Written,    \* the minutes found in alerts.json
    Count,      \* crash_loop.count
    MinMissed,  \* pillar_missed.missed
    Word,       \* 2^64 in the code: the range of the pillar's counters
    MaxSamples  \* bound: samples taken

ViewNames == {"service", "sync", "height", "pillar"}
ASSUMPTION RulesAssumption ==
    /\ Views \subseteq ViewNames /\ SystemdAnswers \in BOOLEAN
    /\ Interval \in Nat \ {0} /\ MaxWindow \in Nat /\ DefaultMinutes \in 0 .. MaxWindow
    /\ Delays \subseteq Nat /\ Written \subseteq Int
    /\ Count \in Nat /\ MinMissed \in Nat /\ Word \in Nat \ {0} /\ MaxSamples \in Nat

VARIABLES
    view,       \* the part of the node this behaviour follows
    written,    \* the minutes in alerts.json
    kept,       \* d.history
    past,       \* history: all samples
    node        \* the node itself: counters and what really happened

rulesVars == <<view, written, kept, past, node>>

-----------------------------------------------------------------------------
(* Thresholds: Set refuses what clampThreshold replaces in a file edited   *)
(* by hand.                                                                *)
\* Variant: only negative values are replaced.
ClampNegative(m) == IF m < 0 THEN DefaultMinutes ELSE m
Clamp(m) == IF m < 0 THEN DefaultMinutes ELSE IF m > MaxWindow THEN MaxWindow ELSE m
Minutes == Clamp(written)

(* History helpers: what is too old is dropped from the front.             *)
FirstFrom(h, t) ==
    CHOOSE i \in 1 .. Len(h) + 1 :
        /\ \A j \in 1 .. i - 1 : h[j].at < t
        /\ i <= Len(h) => h[i].at >= t
From(h, t) == SubSeq(h, FirstFrom(h, t), Len(h))
Trim(h, now) == From(h, now - MaxWindow)
LastN(h, n) == IF Len(h) <= n THEN h ELSE SubSeq(h, Len(h) - n + 1, Len(h))
Since(h, d) == IF h = <<>> THEN h ELSE From(h, Last(h).at - d)

Span(h) == Last(h).at - h[1].at
\* Variant: two samples are enough.
CoversAny(h, d) == Len(h) >= 2
Covers(h, d) == Len(h) >= 2 /\ Span(h) + (h[2].at - h[1].at) >= d

All(h, P(_)) == \A i \in DOMAIN h : P(h[i])
Throughout(h, d, P(_)) == LET w == Since(h, d) IN Covers(w, d) /\ All(w, P)

-----------------------------------------------------------------------------
(* The rules that look back.                                               *)
Down(s) == ~s.active
ServiceDown(h) == Len(h) >= 2 /\ All(LastN(h, 2), Down)

\* Variant: the whole history is compared, not the window.
CrashLoopAll(h, d) == Len(h) >= 2 /\ Last(h).restarts - h[1].restarts >= Count
CrashLoop(h, d) ==
    LET w == Since(h, d)
    IN  Len(w) >= 2 /\ Last(w).restarts - w[1].restarts >= Count

Stalled(s) == s.reach /\ s.stalled
SyncStalled(h) == Len(h) >= 2 /\ All(LastN(h, 2), Stalled)

Syncing(s) == s.reach /\ s.state = "syncing"
SyncBehind(h, d) ==
    /\ Throughout(h, d, Syncing)
    /\ Last(h).behind >= Since(h, d)[1].behind
    /\ Last(h).behind > 0

Lonely(s) == s.reach /\ (s.state = "notEnoughPeers" \/ s.fewPeers)
\* Variant: one symptom must hold throughout, not either.
Rejected(s) == s.reach /\ s.state = "notEnoughPeers"
FewPeers(s) == s.reach /\ s.fewPeers
NotEnoughPeersSame(h, d) == Throughout(h, d, Rejected) \/ Throughout(h, d, FewPeers)
NotEnoughPeers(h, d) == Throughout(h, d, Lonely)

Deaf(s) == s.active /\ ~s.reach
DeafOrDown(s) == ~s.reach
\* Variant: a stopped service is not told from a deaf one.
RpcUnreachableBlind(h, d) == Throughout(h, d, DeafOrDown)
RpcUnreachable(h, d) == Throughout(h, d, Deaf)

Answers(s) == s.active /\ s.reach
MomentumsStalled(h, d) ==
    /\ Throughout(h, d, Answers)
    /\ All(Since(h, d), LAMBDA s : s.height = Since(h, d)[1].height)

Rollovers(w) == {i \in 2 .. Len(w) : w[i].expected < w[i - 1].expected}
\* Variant: no restart.
SinceStart(w) == w
\* The window restarts at the newest decrease of the expected count.
SinceRollover(w) ==
    IF Rollovers(w) = {} THEN w ELSE SubSeq(w, Max(Rollovers(w)), Len(w))

Produces(s) == s.reach /\ s.found
PillarMissed(h, d) ==
    LET w == SinceRollover(Since(h, d))
        expected == (Last(w).expected - w[1].expected) % Word
        produced == (Last(w).produced - w[1].produced) % Word
    IN  /\ Covers(Since(h, d), d)
        /\ Covers(w, d)
        /\ All(w, Produces)
        /\ expected > produced
        /\ expected - produced >= MinMissed

RuleNames == {"service_down", "crash_loop", "sync_stalled", "sync_behind",
              "not_enough_peers", "rpc_unreachable", "momentums_stalled", "pillar_missed"}

Fires(rule, h) ==
    CASE rule = "service_down"      -> ServiceDown(h)
      [] rule = "crash_loop"        -> CrashLoop(h, Minutes)
      [] rule = "sync_stalled"      -> SyncStalled(h)
      [] rule = "sync_behind"       -> SyncBehind(h, Minutes)
      [] rule = "not_enough_peers"  -> NotEnoughPeers(h, Minutes)
      [] rule = "rpc_unreachable"   -> RpcUnreachable(h, Minutes)
      [] rule = "momentums_stalled" -> MomentumsStalled(h, Minutes)
      [] rule = "pillar_missed"     -> PillarMissed(h, Minutes)

-----------------------------------------------------------------------------
(* The node, and what a sample of it shows.                                *)
NewNode == [restarts |-> 0, crashes |-> 0, height |-> 0,
            expected |-> 0, produced |-> 0, missed |-> 0]

Healthy(at, n) ==
    [at |-> at, active |-> TRUE, restarts |-> n.restarts, crashes |-> n.crashes,
     reach |-> TRUE, state |-> "synced", stalled |-> FALSE, fewPeers |-> FALSE,
     behind |-> 0, height |-> n.height, found |-> TRUE,
     expected |-> n.expected, produced |-> n.produced, missed |-> n.missed]

\* What the node may have been through between two samples: systemd
\* restarted it, or a person did, which resets systemd's counter; a slot of
\* its pillar came and was taken or not; an epoch ended.
Crashed(n) == [n EXCEPT !.restarts = @ + 1, !.crashes = @ + 1]
ResetByHand(n) == [n EXCEPT !.restarts = 0]
Grew(n) == [n EXCEPT !.height = @ + 1]
Slot(n, took) == [n EXCEPT !.expected = @ + 1,
                           !.produced = IF took THEN @ + 1 ELSE @,
                           !.missed = IF took THEN @ ELSE @ + 1]
NewEpoch(n) == [n EXCEPT !.expected = 0, !.produced = 0]

Lives(n) ==
    CASE view = "service" -> {n, Crashed(n), ResetByHand(n)}
      [] view = "height"  -> {n, Grew(n)}
      [] view = "pillar"  -> {n, Slot(n, TRUE), Slot(n, FALSE), NewEpoch(n),
                              Slot(NewEpoch(n), TRUE), Slot(NewEpoch(n), FALSE)}
      [] OTHER -> {n}

\* takeNode leaves an unreachable node's figures at zero.
Unreachable(s) == [s EXCEPT !.reach = FALSE, !.state = "unknown", !.height = 0,
                            !.found = FALSE, !.expected = 0, !.produced = 0]
\* takeService leaves a unit it could not ask about at zero.
Unasked(s) == [s EXCEPT !.active = FALSE, !.restarts = 0]
\* A pillar that is not found shows the same zeros as an unreachable node.

Shows(s) ==
    CASE view = "service" ->
            {s, Unreachable(s), Unreachable([s EXCEPT !.active = FALSE])}
            \cup IF SystemdAnswers THEN {} ELSE {Unasked(s)}
      [] view = "sync" ->
            {s, [s EXCEPT !.stalled = TRUE], Unreachable(s)}
            \cup {[s EXCEPT !.state = "syncing", !.behind = g, !.fewPeers = (g = 2)] : g \in 1 .. 2}
            \cup {[s EXCEPT !.state = "notEnoughPeers"]}
      [] view = "height" ->
            {s, Unreachable(s), [s EXCEPT !.stalled = TRUE]}
      [] view = "pillar" -> {s, Unreachable(s)}

\* When the next sample is taken: at the next tick of the interval, or, when
\* the Step outlives it, as soon as the Step ends; the ticker holds one tick.
NextTick(t) == ((t \div Interval) + 1) * Interval
After(t, delay) == IF t + delay <= NextTick(t) THEN NextTick(t) ELSE t + delay

RulesInit ==
    /\ view \in Views
    /\ written \in Written
    /\ node = NewNode
    /\ past = <<>>
    /\ kept = <<>>

\* Step: sample, append, trim; the rules then read "kept".
Sample(at, n, s) ==
    /\ s \in Shows(Healthy(at, n))
    /\ node' = n
    /\ past' = Append(past, s)
    /\ kept' = Trim(Append(kept, s), at)
    /\ UNCHANGED <<view, written>>

RulesNext ==
    /\ Len(past) < MaxSamples
    /\ \E n \in Lives(node), delay \in Delays :
        LET at == IF past = <<>> THEN 0 ELSE After(Last(past).at, delay)
        IN  \E s \in Shows(Healthy(at, n)) : Sample(at, n, s)

RulesSpec == RulesInit /\ [][RulesNext]_rulesVars

-----------------------------------------------------------------------------
(***************************************************************************)
(* Forgetting samples older than HistoryWindow changes no verdict: every   *)
(* rule says of the kept history what it would say of all of it, whatever  *)
(* minutes alerts.json holds (rules.go:12-13, config.go:249-251 "the       *)
(* longest duration threshold that can fire").                             *)
(***************************************************************************)
TrimHarmless == \A rule \in RuleNames : Fires(rule, kept) <=> Fires(rule, past)

(***************************************************************************)
(* One fault, one alarm: while the service is down no rule also blames its *)
(* RPC or its momentums, and one that does not answer is not said to be    *)
(* stalled, behind or alone (website/docs/alerts/rules.md, "Which alert    *)
(* for which failure").                                                    *)
(***************************************************************************)
NodeRules == {"sync_stalled", "sync_behind", "not_enough_peers", "momentums_stalled", "pillar_missed"}
OneCause ==
    /\ Fires("service_down", kept) => ~Fires("rpc_unreachable", kept)
                                      /\ ~Fires("momentums_stalled", kept)
    /\ Fires("rpc_unreachable", kept) => \A rule \in NodeRules : ~Fires(rule, kept)

(***************************************************************************)
(* crash_loop counts crashes that happened: when it fires, systemd really  *)
(* restarted the node that often within the window, whatever restarts by   *)
(* hand did to its counter, as long as systemd answers (rules.go:163-174). *)
(***************************************************************************)
TrueCrashes(h, d) == Last(h).crashes - Since(h, d)[1].crashes
CrashesAreReal == Fires("crash_loop", kept) => TrueCrashes(past, Minutes) >= Count

(***************************************************************************)
(* pillar_missed reports misses that happened within the window, across    *)
(* epoch rollovers, unanswered samples and the wrap-around of unsigned     *)
(* differences (rules.go:354-398).                                         *)
(***************************************************************************)
TrueMisses(h, d) == Last(h).missed - Since(h, d)[1].missed
MissesAreReal == Fires("pillar_missed", kept) => TrueMisses(past, Minutes) >= MinMissed

(***************************************************************************)
(* A rule with a window fires on evidence of that length: nothing in the   *)
(* window speaks against it, and its oldest sample lies at most one gap    *)
(* between samples short of the window's start (rules.go:128-138).         *)
(***************************************************************************)
Symptom(rule, s) ==
    CASE rule = "sync_behind"       -> Syncing(s)
      [] rule = "not_enough_peers"  -> Lonely(s)
      [] rule = "rpc_unreachable"   -> Deaf(s)
      [] rule = "momentums_stalled" -> Answers(s) /\ s.height = Last(past).height
Windowed == {"sync_behind", "not_enough_peers", "rpc_unreachable", "momentums_stalled"}
LongestGap == LET longest == {d \in Delays : \A e \in Delays : e <= d}
              IN  IF \E d \in longest : d > Interval THEN CHOOSE d \in longest : TRUE ELSE Interval
EvidenceLasted ==
    \A rule \in Windowed : Fires(rule, kept) =>
        \E i \in DOMAIN past :
            /\ past[i].at <= Last(past).at - (Minutes - LongestGap)
            /\ i < Len(past)
            /\ \A j \in i .. Len(past) : Symptom(rule, past[j])

(***************************************************************************)
(* What the daemon alarms about is so: of what happened, not of what the   *)
(* history has kept of it, in full length and number, and blamed on the    *)
(* cause (rules.go).                                                       *)
(***************************************************************************)
AlarmsAreReal ==
    TrimHarmless /\ OneCause /\ CrashesAreReal /\ MissesAreReal /\ EvidenceLasted

(***************************************************************************)
(* A firing rule falls silent only for a sample that speaks against it, as *)
(* long as the samples in its window are evenly spaced; the daemon reports *)
(* the silence as a recovery (daemon.go:178-194).                          *)
(***************************************************************************)
Even(h) == \A i \in 2 .. Len(h) : h[i].at - h[i - 1].at = Interval
Quits(rule) == Fires(rule, kept) /\ ~Fires(rule, kept')
QuitsForAReason ==
    [][\A rule \in {"not_enough_peers", "rpc_unreachable"} :
        Quits(rule) /\ Even(kept') => ~Symptom(rule, Last(past'))]_rulesVars

(***************************************************************************)
(* The same without the condition on the spacing: what the manual says of  *)
(* a firing alert, that it lasts until its condition clears                *)
(* (website/docs/alerts/rules.md, "Every alert has a recovery message").   *)
(***************************************************************************)
RecoveryIsReal ==
    [][\A rule \in {"not_enough_peers", "rpc_unreachable"} :
        Quits(rule) => ~Symptom(rule, Last(past'))]_rulesVars
=============================================================================
