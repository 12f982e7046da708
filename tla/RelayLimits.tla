----------------------------- MODULE RelayLimits -----------------------------
(***************************************************************************)
(* The relay's rate limiter (internal/relay/server.go): a fixed window of  *)
(* one minute per key, in a map that holds at most MaxKeys keys and is     *)
(* swept at most once a minute, and only when a new key finds it full.     *)
(* The relay keeps four of them, keyed by node, client address and chat.   *)
(***************************************************************************)
EXTENDS Integers, FiniteSets

CONSTANTS
    Clients,    \* the keys requests arrive with
    Limit,      \* requests a key may make in its window
    MaxKeys,    \* limiterMaxKeys
    Minute,     \* ticks in a minute
    MaxTime     \* bound: the clock stops here

ASSUMPTION LimitsAssumption ==
    /\ Limit \in Nat \ {0}
    /\ MaxKeys \in Nat \ {0}
    /\ Minute \in Nat \ {0}
    /\ MaxTime \in Nat

VARIABLES
    clock,      \* r.now()
    counts,     \* r.counts: the window and the count of every known key
    known,      \* the keys in the map
    lastSweep,  \* r.lastSweep
    admitted    \* history: [key -> [tick -> requests let through up to then]]

limitVars == <<clock, counts, known, lastSweep, admitted>>

Times == 0 .. MaxTime
Window == [start : Times, n : 0 .. Limit]

LimitsTypeOK ==
    /\ clock \in Times
    /\ known \subseteq Clients
    /\ counts \in [Clients -> Window]
    /\ lastSweep \in Times \cup {-Minute}
    /\ admitted \in [Clients -> [Times -> Nat]]

\* The zero time is so long ago that the first sweep and the first window
\* of a key never wait: lastSweep starts a minute back, and a key outside
\* "known" has no window.
LimitsInit ==
    /\ clock = 0
    /\ known = {}
    /\ counts = [k \in Clients |-> [start |-> 0, n |-> 0]]
    /\ lastSweep = -Minute
    /\ admitted = [k \in Clients |-> [t \in Times |-> 0]]

Expired(k) == clock - counts[k].start >= Minute

\* What a request with key k finds in the map once room was made for it:
\* a known key, or one that meets room, sweeps nothing.
Full(k) == k \notin known /\ Cardinality(known) >= MaxKeys
MaySweep == clock - lastSweep >= Minute
\* Variant: making room forgets every key.
SweptAll(k) == IF Full(k) /\ MaySweep THEN {} ELSE known
Swept(k) == IF Full(k) /\ MaySweep THEN {j \in known : ~Expired(j)} ELSE known

\* Variant: the map is not measured again after the sweep.
CrowdedStill(k) == Full(k)
Crowded(k) == k \notin Swept(k) /\ Cardinality(Swept(k)) >= MaxKeys

\* The window the request falls in, new or running.
Current(k) ==
    IF k \notin known \/ Expired(k) THEN [start |-> clock, n |-> 0] ELSE counts[k]

SweepTime(k) == IF Full(k) /\ MaySweep THEN clock ELSE lastSweep

\* allow, under the limiter's mutex: refused because the map is full.
RefuseKey(k) ==
    /\ Crowded(k)
    /\ known' = Swept(k)
    /\ lastSweep' = SweepTime(k)
    /\ UNCHANGED <<clock, counts, admitted>>

\* allow: the key has a place; refused when its window is used up.
RefuseRequest(k) ==
    /\ ~Crowded(k)
    /\ Current(k).n >= Limit
    /\ known' = Swept(k) \cup {k}
    /\ counts' = [counts EXCEPT ![k] = Current(k)]
    /\ lastSweep' = SweepTime(k)
    /\ UNCHANGED <<clock, admitted>>

Counted(k) == admitted' = [admitted EXCEPT ![k] =
                  [t \in Times |-> IF t < clock THEN @[t] ELSE @[t] + 1]]

\* Variant: the window's count is not looked at.
AdmitUncounted(k) ==
    /\ ~Crowded(k)
    /\ known' = Swept(k) \cup {k}
    /\ counts' = [counts EXCEPT ![k] = [Current(k) EXCEPT !.n = @ + 1]]
    /\ lastSweep' = SweepTime(k)
    /\ Counted(k)
    /\ UNCHANGED clock

\* allow: counted and let through.
Admit(k) ==
    /\ ~Crowded(k)
    /\ Current(k).n < Limit
    /\ known' = Swept(k) \cup {k}
    /\ counts' = [counts EXCEPT ![k] = [Current(k) EXCEPT !.n = @ + 1]]
    /\ lastSweep' = SweepTime(k)
    /\ Counted(k)
    /\ UNCHANGED clock

Pass ==
    /\ clock < MaxTime
    /\ clock' = clock + 1
    /\ UNCHANGED <<counts, known, lastSweep, admitted>>

LimitsNext ==
    \/ Pass
    \/ \E k \in Clients : Admit(k) \/ RefuseRequest(k) \/ RefuseKey(k)

LimitsSpec == LimitsInit /\ [][LimitsNext]_limitVars

-----------------------------------------------------------------------------
(***************************************************************************)
(* A key gains nothing from windows that end, or from being swept and      *)
(* coming back: any stretch of a minute lets at most two windows' worth of *)
(* its requests through.  One window per minute is what newRateLimiter     *)
(* (server.go:540) is given; the second is the burst a fixed window allows *)
(* around its end.                                                         *)
(***************************************************************************)
Upto(k, t) == IF t < 0 THEN 0 ELSE admitted[k][t]
Through(k, from, to) == Upto(k, to) - Upto(k, from - 1)
TwoWindowsAtMost ==
    \A k \in Clients, t \in Times :
        t + Minute - 1 <= MaxTime => Through(k, t, t + Minute - 1) <= 2 * Limit

(***************************************************************************)
(* The map stays within limiterMaxKeys (server.go:549-551), and making     *)
(* room forgets no key whose window is still running: what it used up of   *)
(* its minute stays known.                                                 *)
(***************************************************************************)
RunningIsKept ==
    /\ Cardinality(known) <= MaxKeys
    /\ \A k \in Clients : counts[k].n > 0 /\ ~Expired(k) => k \in known

(***************************************************************************)
(* The limiter limits, with a map that is bounded: no key passes more than *)
(* the two windows, and none is forgotten in its minute (allow).           *)
(***************************************************************************)
LimiterHolds == TwoWindowsAtMost /\ RunningIsKept

(***************************************************************************)
(* A newcomer is turned away for a full map only while the map holds keys  *)
(* that did come lately: MaxKeys of them made a request since a minute     *)
(* before the last sweep, and a sweep is never more than a minute overdue  *)
(* (server.go:560-571).                                                    *)
(***************************************************************************)
Recent(since) == {k \in Clients : Through(k, since, clock) > 0}
TurnedAwayForARush ==
    [][\A k \in Clients : RefuseKey(k) =>
        Cardinality(Recent(clock - 2 * Minute + 1)) >= MaxKeys]_limitVars
=============================================================================
