------------------------- MODULE AlertParts_proofs -------------------------
(***************************************************************************)
(* What holds of the parts of alerting around the pipeline that            *)
(* MCAlertParts checks together: the relay's rate limiter, for every set   *)
(* of keys, every limit, every size of the map and every length of a       *)
(* window; the probe the daemon's samples use, for every choice of process *)
(* ids and every age a probe may have; and, with NodePairing_proofs, the   *)
(* whole, in which each part behaves as its own specification says.        *)
(***************************************************************************)
EXTENDS MCAlertParts, NodePairing_proofs, FiniteSetTheorems

(***************************************************************************)
(* Every key in the map let something through in the window it is in, and  *)
(* that window was still running a minute before the last sweep.           *)
(***************************************************************************)
KeyInv(k) ==
    /\ counts[k].start > lastSweep - Minute
    /\ counts[k].n > 0

LimitsInv ==
    /\ LimitsTypeOK
    /\ IsFiniteSet(known)
    /\ lastSweep <= clock
    /\ \A k \in Clients : counts[k].start <= clock
    /\ \A k \in known : KeyInv(k)
    /\ RunningIsKept

-----------------------------------------------------------------------------
LEMMA LimitsInitInv == LimitsInit => LimitsInv
<1> SUFFICES ASSUME LimitsInit PROVE LimitsInv
  OBVIOUS
<1>1. 0 \in Times /\ 0 \in 0 .. Limit /\ Limit \in Nat /\ MaxKeys \in Nat /\ Minute \in Nat
  BY LimitsAssumption DEF Times
<1>2. LimitsTypeOK
  BY <1>1 DEF LimitsInit, LimitsTypeOK, Window
<1>3. IsFiniteSet({}) /\ Cardinality({}) = 0
  BY FS_EmptySet
<1>4. RunningIsKept
  BY <1>1, <1>3 DEF LimitsInit, RunningIsKept
<1>5. lastSweep <= clock /\ \A k \in Clients : counts[k].start <= clock
  BY <1>1 DEF LimitsInit
<1>6. \A k \in known : KeyInv(k)
  BY DEF LimitsInit
<1> QED
  BY <1>2, <1>3, <1>4, <1>5, <1>6 DEF LimitsInv, LimitsInit

\* The numbers a step computes with.
LEMMA LimitNumbers ==
    ASSUME LimitsInv
    PROVE  /\ Limit \in Nat \ {0} /\ MaxKeys \in Nat \ {0} /\ Minute \in Nat \ {0}
           /\ MaxTime \in Nat
           /\ clock \in Nat /\ clock <= MaxTime
           /\ lastSweep \in Int /\ lastSweep <= clock
           /\ \A k \in Clients :
                /\ counts[k] \in Window
                /\ counts[k].start \in Nat /\ counts[k].start <= clock
                /\ counts[k].n \in Nat /\ counts[k].n <= Limit
                /\ \A t \in Times : admitted[k][t] \in Nat
BY LimitsAssumption DEF LimitsInv, LimitsTypeOK, Window, Times

\* Making room forgets only keys whose window has ended.
LEMMA SweptFacts ==
    ASSUME LimitsInv, NEW k \in Clients
    PROVE  /\ Swept(k) \subseteq known
           /\ IsFiniteSet(Swept(k)) /\ Cardinality(Swept(k)) \in Nat
           /\ Cardinality(Swept(k)) <= MaxKeys
           /\ \A j \in known : ~Expired(j) => j \in Swept(k)
           /\ SweepTime(k) \in Times \cup {-Minute}
           /\ SweepTime(k) <= clock
           /\ \A j \in Swept(k) : counts[j].start > SweepTime(k) - Minute
<1>1. Swept(k) \subseteq known /\ \A j \in known : ~Expired(j) => j \in Swept(k)
  BY DEF Swept
<1>2. IsFiniteSet(known)
  BY DEF LimitsInv
<1>3. Cardinality(known) \in Nat
  BY <1>2, FS_CardinalityType
<1>4. IsFiniteSet(Swept(k)) /\ Cardinality(Swept(k)) <= Cardinality(known)
  BY <1>1, <1>2, FS_Subset
<1>5. Cardinality(Swept(k)) \in Nat
  BY <1>4, FS_CardinalityType
<1>6. Cardinality(Swept(k)) <= MaxKeys
  BY <1>3, <1>4, <1>5, LimitsAssumption DEF LimitsInv, RunningIsKept
<1>7. SweepTime(k) \in Times \cup {-Minute} /\ SweepTime(k) <= clock
  BY LimitNumbers DEF SweepTime, LimitsInv, LimitsTypeOK
<1>8. ASSUME NEW j \in Swept(k) PROVE counts[j].start > SweepTime(k) - Minute
  <2>1. j \in Clients /\ j \in known
    BY <1>1, <1>8 DEF LimitsInv, LimitsTypeOK
  <2>2. CASE Full(k) /\ MaySweep
    <3>1. ~Expired(j)
      BY <1>8, <2>2 DEF Swept
    <3> QED
      BY <2>1, <2>2, <3>1, LimitNumbers DEF Expired, SweepTime
  <2>3. CASE ~(Full(k) /\ MaySweep)
    BY <2>1, <2>3 DEF LimitsInv, KeyInv, SweepTime
  <2> QED
    BY <2>2, <2>3
<1> QED
  BY <1>1, <1>4, <1>5, <1>6, <1>7, <1>8

\* A key that is not crowded out fits in.
LEMMA RoomForOne ==
    ASSUME LimitsInv, NEW k \in Clients, ~Crowded(k)
    PROVE  LET more == Swept(k) \cup {k}
           IN  /\ IsFiniteSet(more) /\ Cardinality(more) <= MaxKeys
               /\ more \subseteq Clients
<1>1. /\ IsFiniteSet(Swept(k) \cup {k})
      /\ Cardinality(Swept(k) \cup {k}) =
           IF k \in Swept(k) THEN Cardinality(Swept(k)) ELSE Cardinality(Swept(k)) + 1
  BY SweptFacts, FS_AddElement
<1>2. Cardinality(Swept(k) \cup {k}) <= MaxKeys
  BY <1>1, SweptFacts, LimitsAssumption DEF Crowded
<1>3. Swept(k) \cup {k} \subseteq Clients
  BY SweptFacts DEF LimitsInv, LimitsTypeOK
<1> QED
  BY <1>1, <1>2, <1>3

\* The window of a request: a new one, when none runs, or the one that runs.
LEMMA CurrentFacts ==
    ASSUME LimitsInv, NEW k \in Clients
    PROVE  /\ Current(k) \in Window
           /\ Current(k).start \in Times /\ Current(k).start <= clock
           /\ Current(k).n \in Nat
           /\ Current(k).start > SweepTime(k) - Minute
           /\ clock - Current(k).start < Minute
           /\ Current(k).n > 0 => k \in known /\ Current(k) = counts[k]
           /\ Current(k) = counts[k] \/ (Current(k).start = clock /\ Current(k).n = 0
                                          /\ (counts[k].n = 0 \/ Expired(k)))
<1>1. clock \in Times /\ 0 \in 0 .. Limit
  BY LimitsAssumption DEF LimitsInv, LimitsTypeOK
<1>2. CASE k \notin known \/ Expired(k)
  <2>1. Current(k) = [start |-> clock, n |-> 0]
    BY <1>2 DEF Current
  <2>2. clock > SweepTime(k) - Minute /\ clock - clock < Minute
    BY SweptFacts, LimitNumbers DEF Times
  <2>3. [start |-> clock, n |-> 0] \in Window
    BY <1>1 DEF Window
  <2>4. counts[k].n = 0 \/ Expired(k)
    BY <1>2, LimitNumbers DEF LimitsInv, RunningIsKept
  <2> QED
    BY <1>1, <2>1, <2>2, <2>3, <2>4, LimitNumbers
<1>3. CASE k \in known /\ ~Expired(k)
  <2>1. Current(k) = counts[k]
    BY <1>3 DEF Current
  <2>2. k \in Swept(k)
    BY <1>3, SweptFacts
  <2>3. counts[k].start > SweepTime(k) - Minute
    BY <2>2, SweptFacts
  <2>4. counts[k] \in Window /\ clock - counts[k].start < Minute
    BY <1>3, LimitNumbers DEF Expired
  <2> QED
    BY <1>3, <2>1, <2>3, <2>4, LimitNumbers DEF Window
<1> QED
  BY <1>2, <1>3

\* What every request that is answered from the map leaves in it.
LEMMA Requested ==
    ASSUME LimitsInv, NEW k \in Clients, NEW w \in Window,
           ~Crowded(k),
           w.start = Current(k).start, w.n > 0,
           known' = Swept(k) \cup {k},
           counts' = [counts EXCEPT ![k] = w],
           lastSweep' = SweepTime(k),
           clock' = clock,
           admitted' \in [Clients -> [Times -> Nat]]
    PROVE  LimitsInv'
<1>1. LimitsTypeOK'
  <2>1. counts' \in [Clients -> Window]
    BY DEF LimitsInv, LimitsTypeOK
  <2>2. known' \subseteq Clients
    BY RoomForOne
  <2>3. lastSweep' \in Times \cup {-Minute}
    BY SweptFacts
  <2> QED
    BY <2>1, <2>2, <2>3 DEF LimitsInv, LimitsTypeOK
<1>2. \A j \in Clients : counts'[j] = IF j = k THEN w ELSE counts[j]
  BY DEF LimitsInv, LimitsTypeOK
<1>3. IsFiniteSet(known') /\ Cardinality(known') <= MaxKeys
  BY RoomForOne
<1>4. lastSweep' <= clock'
  BY SweptFacts
<1>5. \A j \in Clients : counts'[j].start <= clock'
  BY <1>2, CurrentFacts, LimitNumbers
<1>6. ASSUME NEW j \in known' PROVE KeyInv(j)'
  <2>1. CASE j = k
    BY <2>1, <1>2, CurrentFacts DEF KeyInv
  <2>2. CASE j # k
    <3>1. j \in Swept(k) /\ j \in known /\ j \in Clients
      BY <1>6, <2>2, SweptFacts DEF LimitsInv, LimitsTypeOK
    <3>2. counts'[j] = counts[j]
      BY <1>2, <2>2, <3>1
    <3>3. counts[j].start > SweepTime(k) - Minute
      BY <3>1, SweptFacts
    <3> QED
      BY <3>1, <3>2, <3>3 DEF KeyInv, LimitsInv
  <2> QED
    BY <2>1, <2>2
<1>7. RunningIsKept'
  <2>1. ASSUME NEW j \in Clients, counts'[j].n > 0, ~Expired(j)' PROVE j \in known'
    <3>1. CASE j = k
      BY <3>1
    <3>2. CASE j # k
      <4>1. counts[j].n > 0 /\ ~Expired(j)
        BY <2>1, <3>2, <1>2 DEF Expired
      <4>2. j \in known
        BY <4>1 DEF LimitsInv, RunningIsKept
      <4> QED
        BY <4>1, <4>2, SweptFacts
    <3> QED
      BY <3>1, <3>2
  <2> QED
    BY <1>3, <2>1 DEF RunningIsKept
<1> QED
  BY <1>1, <1>3, <1>4, <1>5, <1>6, <1>7 DEF LimitsInv

\* What is counted for a request: one more, from now on.
LEMMA CountedIs ==
    ASSUME LimitsInv, NEW k \in Clients, Counted(k)
    PROVE  /\ admitted' \in [Clients -> [Times -> Nat]]
           /\ \A j \in Clients \ {k} : admitted'[j] = admitted[j]
           /\ \A t \in Times :
                admitted'[k][t] = IF t < clock THEN admitted[k][t] ELSE admitted[k][t] + 1
<1>1. admitted \in [Clients -> [Times -> Nat]] /\ clock \in Nat /\ Times \subseteq Nat
  BY LimitNumbers DEF LimitsInv, LimitsTypeOK, Times
<1> DEFINE more == [t \in Times |-> IF t < clock THEN admitted[k][t] ELSE admitted[k][t] + 1]
<1>2. more \in [Times -> Nat]
  BY <1>1
<1>3. admitted' = [admitted EXCEPT ![k] = more]
  BY DEF Counted
<1>4. \A t \in Times : more[t] = IF t < clock THEN admitted[k][t] ELSE admitted[k][t] + 1
  OBVIOUS
<1> HIDE DEF more
<1> QED
  BY <1>1, <1>2, <1>3, <1>4

LEMMA AdmitInv ==
    ASSUME LimitsInv, NEW k \in Clients, Admit(k)
    PROVE  LimitsInv'
<1> DEFINE w == [Current(k) EXCEPT !.n = @ + 1]
<1>1. /\ ~Crowded(k) /\ Current(k).n < Limit
      /\ known' = Swept(k) \cup {k}
      /\ counts' = [counts EXCEPT ![k] = w]
      /\ lastSweep' = SweepTime(k)
      /\ Counted(k)
      /\ clock' = clock
  BY DEF Admit
<1>2. w = [start |-> Current(k).start, n |-> Current(k).n + 1]
  BY CurrentFacts DEF Window
<1>3. w \in Window /\ w.start = Current(k).start /\ w.n > 0
  BY <1>1, <1>2, CurrentFacts, LimitNumbers DEF Window
<1>5. admitted' \in [Clients -> [Times -> Nat]]
  BY <1>1, CountedIs
<1> HIDE DEF w
<1> QED
  BY <1>1, <1>3, <1>5, Requested

LEMMA RefuseRequestInv ==
    ASSUME LimitsInv, NEW k \in Clients, RefuseRequest(k)
    PROVE  LimitsInv'
<1>1. /\ ~Crowded(k) /\ Current(k).n > 0
      /\ known' = Swept(k) \cup {k}
      /\ counts' = [counts EXCEPT ![k] = Current(k)]
      /\ lastSweep' = SweepTime(k)
      /\ admitted' = admitted
      /\ clock' = clock
  BY CurrentFacts, LimitNumbers DEF RefuseRequest
<1>2. admitted' \in [Clients -> [Times -> Nat]]
  BY <1>1 DEF LimitsInv, LimitsTypeOK
<1> QED
  BY <1>1, <1>2, CurrentFacts, Requested

LEMMA RefuseKeyInv ==
    ASSUME LimitsInv, NEW k \in Clients, RefuseKey(k)
    PROVE  LimitsInv'
<1>1. /\ known' = Swept(k) /\ lastSweep' = SweepTime(k)
      /\ clock' = clock /\ counts' = counts /\ admitted' = admitted
  BY DEF RefuseKey
<1>2. LimitsTypeOK'
  BY <1>1, SweptFacts DEF LimitsInv, LimitsTypeOK
<1>3. /\ IsFiniteSet(known') /\ Cardinality(known') <= MaxKeys
      /\ lastSweep' <= clock'
      /\ \A j \in Clients : counts'[j].start <= clock'
  BY <1>1, SweptFacts DEF LimitsInv
<1>4. \A j \in known' : KeyInv(j)'
  BY <1>1, SweptFacts DEF LimitsInv, KeyInv
<1>5. RunningIsKept'
  BY <1>1, <1>3, SweptFacts DEF LimitsInv, RunningIsKept, Expired
<1> QED
  BY <1>2, <1>3, <1>4, <1>5 DEF LimitsInv

LEMMA PassInv == LimitsInv /\ Pass => LimitsInv'
<1> SUFFICES ASSUME LimitsInv, Pass PROVE LimitsInv'
  OBVIOUS
<1>1. /\ clock' = clock + 1 /\ clock < MaxTime
      /\ counts' = counts /\ known' = known
      /\ lastSweep' = lastSweep /\ admitted' = admitted
  BY DEF Pass
<1>2. LimitsTypeOK'
  BY <1>1, LimitNumbers DEF LimitsInv, LimitsTypeOK, Times
<1>3. /\ lastSweep' <= clock'
      /\ \A k \in Clients : counts'[k].start <= clock'
  BY <1>1, LimitNumbers
<1>4. \A k \in known' : KeyInv(k)'
  BY <1>1 DEF LimitsInv, KeyInv
<1>5. \A k \in Clients : ~Expired(k)' => ~Expired(k)
  BY <1>1, LimitNumbers DEF Expired
<1>6. RunningIsKept'
  BY <1>1, <1>5 DEF LimitsInv, RunningIsKept
<1> QED
  BY <1>1, <1>2, <1>3, <1>4, <1>6 DEF LimitsInv

LEMMA LimitsNextInv == LimitsInv /\ [LimitsNext]_limitVars => LimitsInv'
<1> SUFFICES ASSUME LimitsInv, [LimitsNext]_limitVars PROVE LimitsInv'
  OBVIOUS
<1>1. CASE Pass
  BY <1>1, PassInv
<1>2. CASE \E k \in Clients : Admit(k) \/ RefuseRequest(k) \/ RefuseKey(k)
  BY <1>2, AdmitInv, RefuseRequestInv, RefuseKeyInv
<1>3. CASE UNCHANGED limitVars
  BY <1>3 DEF limitVars, LimitsInv, LimitsTypeOK, KeyInv, RunningIsKept, Expired
<1> QED
  BY <1>1, <1>2, <1>3 DEF LimitsNext

-----------------------------------------------------------------------------
(***************************************************************************)
(* The limiter's map and windows, whatever requests come in which order.   *)
(***************************************************************************)
THEOREM Limits == LimitsSpec => []LimitsInv
<1>1. LimitsInit => LimitsInv
  BY LimitsInitInv
<1>2. LimitsInv /\ [LimitsNext]_limitVars => LimitsInv'
  BY LimitsNextInv
<1> QED
  BY <1>1, <1>2, PTL DEF LimitsSpec

(***************************************************************************)
(* No key is beyond its limit in its window, and every figure has its type.*)
(***************************************************************************)
THEOREM LimitTypes == LimitsSpec => []LimitsTypeOK
<1>1. LimitsInv => LimitsTypeOK
  BY DEF LimitsInv
<1> QED
  BY <1>1, Limits, PTL

(***************************************************************************)
(* The map never outgrows limiterMaxKeys, and making room in it forgets no *)
(* key whose window still runs (rateLimiter.allow).                        *)
(***************************************************************************)
THEOREM RunningWindowsAreKept == LimitsSpec => []RunningIsKept
<1>1. LimitsInv => RunningIsKept
  BY DEF LimitsInv
<1> QED
  BY <1>1, Limits, PTL

-----------------------------------------------------------------------------

-----------------------------------------------------------------------------
(***************************************************************************)
(* What a key has used up.  The count of its window is what it let through *)
(* since the window began, and the minute before that falls in one earlier *)
(* window.                                                                 *)
(***************************************************************************)
WindowInv(k) ==
    /\ \A a, b \in Times : a <= b => admitted[k][a] <= admitted[k][b]
    /\ \A a \in Times : a >= clock \/ a >= counts[k].start + Minute - 1
                          => admitted[k][a] = admitted[k][clock]
    /\ Through(k, counts[k].start, clock) = counts[k].n
    /\ Through(k, counts[k].start - Minute + 1, counts[k].start - 1) <= Limit
    /\ \A t \in Times :
         t + Minute - 1 <= MaxTime => Through(k, t, t + Minute - 1) <= 2 * Limit

LimiterInv == LimitsInv /\ \A k \in Clients : WindowInv(k)

LEMMA UptoGrows ==
    ASSUME LimitsInv, NEW k \in Clients, WindowInv(k)
    PROVE  /\ \A a \in Int : a <= MaxTime => Upto(k, a) \in Nat
           /\ \A a, b \in Int : a <= b /\ b <= MaxTime => Upto(k, a) <= Upto(k, b)
<1>1. \A a \in Int : a <= MaxTime => a < 0 \/ a \in Times
  BY LimitNumbers DEF Times
<1>2. \A a \in Times : admitted[k][a] \in Nat
  BY LimitNumbers
<1>3. \A a, b \in Times : a <= b => admitted[k][a] <= admitted[k][b]
  BY DEF WindowInv
<1>4. \A a \in Int : a <= MaxTime => Upto(k, a) \in Nat
  BY <1>1, <1>2 DEF Upto
<1>5. ASSUME NEW a \in Int, NEW b \in Int, a <= b, b <= MaxTime
      PROVE  Upto(k, a) <= Upto(k, b)
  <2>1. CASE a < 0
    BY <2>1, <1>4, <1>5 DEF Upto
  <2>2. CASE ~(a < 0)
    <3>1. a \in Times /\ b \in Times /\ ~(b < 0)
      BY <1>5, <2>2, LimitNumbers DEF Times
    <3> QED
      BY <1>3, <1>5, <2>2, <3>1 DEF Upto
  <2> QED
    BY <2>1, <2>2
<1> QED
  BY <1>4, <1>5

LEMMA ThroughIs ==
    ASSUME NEW k, NEW from \in Int, NEW to \in Int, NEW before \in Int, before = from - 1
    PROVE  Through(k, from, to) = Upto(k, to) - Upto(k, before)
BY Zenon DEF Through

\* The window a request falls in is as well counted as the one before it.
LEMMA CurrentCounts ==
    ASSUME LimitsInv, NEW k \in Clients, WindowInv(k)
    PROVE  /\ Through(k, Current(k).start, clock) = Current(k).n
           /\ Through(k, Current(k).start - Minute + 1, Current(k).start - 1) <= Limit
<1>1. CASE Current(k) = counts[k]
  BY <1>1 DEF WindowInv
<1>2. CASE /\ Current(k).start = clock /\ Current(k).n = 0
           /\ counts[k].n = 0 \/ Expired(k)
  <2>1. PICK s, c, n \in Nat : s = counts[k].start /\ c = clock /\ n = counts[k].n
    BY LimitNumbers
  <2>2. /\ s <= c /\ c <= MaxTime /\ n <= Limit
        /\ Minute \in Nat \ {0} /\ Limit \in Nat /\ MaxTime \in Nat
    BY <2>1, LimitNumbers
  <2>3. PICK s1, sm, sn, c1, cm, cn \in Int :
          /\ s1 = s - 1 /\ sm = s - Minute /\ sn = s - Minute + 1
          /\ c1 = c - 1 /\ cm = c - Minute /\ cn = c - Minute + 1
    BY <2>2
  <2>4. /\ \A a \in Int : a <= MaxTime => Upto(k, a) \in Nat
        /\ \A a, b \in Int : a <= b /\ b <= MaxTime => Upto(k, a) <= Upto(k, b)
    BY UptoGrows
  <2>5. /\ Upto(k, s1) \in Nat /\ Upto(k, sm) \in Nat
        /\ Upto(k, c1) \in Nat /\ Upto(k, cm) \in Nat /\ Upto(k, c) \in Nat
        /\ Upto(k, c1) <= Upto(k, c) /\ Upto(k, s1) <= Upto(k, c1)
        /\ Upto(k, sm) <= Upto(k, cm)
        /\ s <= cm => Upto(k, s1) <= Upto(k, cm)
    <3>1. /\ s1 <= MaxTime /\ sm <= MaxTime /\ c1 <= MaxTime /\ cm <= MaxTime
          /\ c1 <= c /\ s1 <= c1 /\ sm <= cm /\ (s <= cm => s1 <= cm)
      BY <2>2, <2>3
    <3> QED
      BY <2>2, <2>4, <3>1
  <2>6. Upto(k, c) - Upto(k, s1) = n /\ Upto(k, s1) - Upto(k, sm) <= Limit
    <3>1. Through(k, s, c) = n /\ Through(k, sn, s1) <= Limit
      BY <2>1, <2>3, Zenon DEF WindowInv
    <3>2. sm = sn - 1
      BY <2>2, <2>3
    <3>3. /\ Through(k, s, c) = Upto(k, c) - Upto(k, s1)
          /\ Through(k, sn, s1) = Upto(k, s1) - Upto(k, sm)
      BY <2>3, <3>2, ThroughIs
    <3> QED
      BY <3>1, <3>3
  <2>7. n = 0 \/ s <= cm
    BY <1>2, <2>1, <2>2, <2>3 DEF Expired
  <2>8. Upto(k, c1) - Upto(k, cm) <= Limit
    BY <2>2, <2>5, <2>6, <2>7
  <2>9. Upto(k, c) = Upto(k, c1)
    <3>1. CASE n = 0
      BY <2>5, <2>6, <3>1
    <3>2. CASE s <= cm
      <4>1. c1 \in Times /\ c \in Times /\ c1 >= s + Minute - 1 /\ ~(c1 < 0) /\ ~(c < 0)
        BY <2>2, <2>3, <3>2 DEF Times
      <4>2. admitted[k][c1] = admitted[k][c]
        BY <2>1, <4>1 DEF WindowInv
      <4> QED
        BY <4>1, <4>2 DEF Upto
    <3> QED
      BY <2>7, <3>1, <3>2
  <2>10. /\ Through(k, c, c) = Upto(k, c) - Upto(k, c1)
         /\ Through(k, cn, c1) = Upto(k, c1) - Upto(k, cm)
    <3>1. cm = cn - 1
      BY <2>2, <2>3
    <3> QED
      BY <2>3, <3>1, ThroughIs
  <2>11. Through(k, c, c) = 0 /\ Through(k, cn, c1) <= Limit
    BY <2>5, <2>8, <2>9, <2>10
  <2>12. Through(k, clock, clock) = 0 /\ Through(k, clock - Minute + 1, clock - 1) <= Limit
    BY <2>1, <2>3, <2>11, Zenon
  <2> QED
    BY <1>2, <2>12
<1> QED
  BY <1>1, <1>2, CurrentFacts

(* One more request, let through in the window w it falls in.              *)
LEMMA CountedWindow ==
    ASSUME LimiterInv, NEW k \in Clients, NEW w \in Window, Counted(k), clock' = clock,
           w.start = Current(k).start, w.n = Current(k).n + 1,
           counts' = [counts EXCEPT ![k] = w]
    PROVE  WindowInv(k)'
<1>0. WindowInv(k) /\ LimitsInv
  BY DEF LimiterInv
<1>1. PICK s, c \in Nat : s = w.start /\ c = clock
  BY CurrentFacts, LimitNumbers, <1>0 DEF Window, Times
<1>2. /\ s <= c /\ c <= MaxTime /\ c - s < Minute
      /\ Minute \in Nat \ {0} /\ Limit \in Nat /\ MaxTime \in Nat
      /\ w.n \in Nat /\ w.n <= Limit
  BY <1>0, <1>1, CurrentFacts, LimitNumbers DEF Window
<1>3. /\ \A a \in Times : admitted[k][a] \in Nat
      /\ \A t \in Times :
           admitted'[k][t] = IF t < c THEN admitted[k][t] ELSE admitted[k][t] + 1
  BY <1>0, <1>1, CountedIs, LimitNumbers
<1>4. counts'[k] = w
  BY <1>0 DEF LimitsInv, LimitsTypeOK
<1>5. \A a, b \in Times : a <= b => admitted'[k][a] <= admitted'[k][b]
  <2> SUFFICES ASSUME NEW a \in Times, NEW b \in Times, a <= b
               PROVE  admitted'[k][a] <= admitted'[k][b]
    OBVIOUS
  <2>1. admitted[k][a] <= admitted[k][b] /\ a \in Int /\ b \in Int
    BY <1>0 DEF WindowInv, Times
  <2> QED
    BY <1>2, <1>3, <2>1
<1>6. \A a \in Times : a >= clock' \/ a >= counts'[k].start + Minute - 1
                           => admitted'[k][a] = admitted'[k][clock']
  <2> SUFFICES ASSUME NEW a \in Times, a >= c \/ a >= s + Minute - 1
               PROVE  admitted'[k][a] = admitted'[k][c]
    BY <1>1, <1>4
  <2>1. a \in Int /\ a >= c /\ c \in Times /\ ~(a < c) /\ ~(c < c)
    BY <1>2 DEF Times
  <2>2. admitted[k][a] = admitted[k][c]
    BY <1>0, <1>1, <2>1 DEF WindowInv
  <2> QED
    BY <1>3, <2>1, <2>2
\* What was let through up to a time is one more from now on.
<1>7. \A a \in Int : a <= MaxTime =>
        /\ Upto(k, a) \in Nat
        /\ Upto(k, a)' = IF a < c THEN Upto(k, a) ELSE Upto(k, a) + 1
  <2> SUFFICES ASSUME NEW a \in Int, a <= MaxTime
               PROVE  /\ Upto(k, a) \in Nat
                      /\ Upto(k, a)' = IF a < c THEN Upto(k, a) ELSE Upto(k, a) + 1
    OBVIOUS
  <2>1. a < 0 \/ a \in Times
    BY <1>2 DEF Times
  <2> QED
    BY <1>2, <1>3, <2>1 DEF Upto
<1>8. PICK s1, sm, sn \in Int : s1 = s - 1 /\ sm = s - Minute /\ sn = s - Minute + 1
  BY <1>2
<1>9. /\ Through(k, s, c) = w.n - 1 /\ Through(k, sn, s1) <= Limit
  <2>1. /\ Through(k, Current(k).start, clock) = Current(k).n
        /\ Through(k, Current(k).start - Minute + 1, Current(k).start - 1) <= Limit
        /\ Current(k).n \in Nat
    BY <1>0, CurrentCounts, CurrentFacts
  <2>2. Through(k, s, c) = Current(k).n /\ Through(k, sn, s1) <= Limit
    BY <1>1, <1>8, <2>1, Zenon
  <2> QED
    BY <2>1, <2>2
<1>10. /\ Through(k, s, c) = Upto(k, c) - Upto(k, s1)
       /\ Through(k, sn, s1) = Upto(k, s1) - Upto(k, sm)
       /\ Through(k, s, c)' = Upto(k, c)' - Upto(k, s1)'
       /\ Through(k, sn, s1)' = Upto(k, s1)' - Upto(k, sm)'
  <2>1. sm = sn - 1
    BY <1>2, <1>8
  <2> QED
    BY <1>8, <2>1, Zenon DEF Through
<1>11. /\ Upto(k, s1) \in Nat /\ Upto(k, sm) \in Nat /\ Upto(k, c) \in Nat
       /\ Upto(k, s1)' = Upto(k, s1) /\ Upto(k, sm)' = Upto(k, sm)
       /\ Upto(k, c)' = Upto(k, c) + 1
  <2>1. s1 < c /\ sm < c /\ ~(c < c) /\ s1 <= MaxTime /\ sm <= MaxTime
    BY <1>2, <1>8
  <2> QED
    BY <1>2, <1>7, <2>1
<1>12. Through(k, s, c)' = w.n /\ Through(k, sn, s1)' <= Limit
  BY <1>2, <1>9, <1>10, <1>11
<1>13. /\ Through(k, counts[k].start, clock)' = counts'[k].n
       /\ Through(k, counts[k].start - Minute + 1, counts[k].start - 1)' <= Limit
  BY <1>1, <1>4, <1>8, <1>12, Zenon
\* A minute that holds this request holds at most one earlier window.
<1>14. ASSUME NEW t \in Times, t + Minute - 1 <= MaxTime
       PROVE  Through(k, t, t + Minute - 1)' <= 2 * Limit
  <2>1. PICK b, e \in Int : b = t - 1 /\ e = t + Minute - 1
    BY <1>2 DEF Times
  <2>2. /\ Through(k, t, e) = Upto(k, e) - Upto(k, b)
        /\ Through(k, t, e)' = Upto(k, e)' - Upto(k, b)'
    BY <2>1, Zenon DEF Through
  <2>3. b < e /\ e <= MaxTime /\ b <= MaxTime
    BY <1>2, <1>14, <2>1 DEF Times
  <2>4. /\ Upto(k, b) \in Nat /\ Upto(k, e) \in Nat
        /\ Upto(k, b)' = IF b < c THEN Upto(k, b) ELSE Upto(k, b) + 1
        /\ Upto(k, e)' = IF e < c THEN Upto(k, e) ELSE Upto(k, e) + 1
    BY <1>7, <2>3
  <2>5. Upto(k, e) - Upto(k, b) <= 2 * Limit
    <3>1. Through(k, t, t + Minute - 1) <= 2 * Limit
      BY <1>0, <1>14 DEF WindowInv
    <3> QED
      BY <2>1, <2>2, <3>1, Zenon
  <2>6. Upto(k, e)' - Upto(k, b)' <= 2 * Limit
    <3>1. CASE ~(b < c /\ c <= e)
      BY <1>2, <2>3, <2>4, <2>5, <3>1
    <3>2. CASE b < c /\ c <= e
      <4>1. Upto(k, e) = Upto(k, c)
        <5>1. e \in Times /\ c \in Times /\ ~(e < 0) /\ ~(c < 0)
          BY <1>2, <2>3, <3>2 DEF Times
        <5>2. admitted[k][e] = admitted[k][c]
          BY <1>0, <1>1, <3>2, <5>1 DEF WindowInv
        <5> QED
          BY <5>1, <5>2 DEF Upto
      <4>2. sm <= b /\ s1 <= MaxTime
        BY <1>2, <1>8, <2>1, <3>2 DEF Times
      <4>3. Upto(k, sm) <= Upto(k, b)
        BY <1>0, <2>3, <4>2, UptoGrows
      <4> QED
        BY <1>2, <1>9, <1>10, <1>11, <2>4, <3>2, <4>1, <4>3
    <3> QED
      BY <3>1, <3>2
  <2> QED
    BY <2>1, <2>2, <2>6, Zenon
<1> QED
  BY <1>5, <1>6, <1>13, <1>14 DEF WindowInv

\* A key's window is as it was when nothing of it changes.
LEMMA SameWindow ==
    ASSUME NEW k, WindowInv(k), clock' = clock, counts'[k] = counts[k],
           admitted'[k] = admitted[k]
    PROVE  WindowInv(k)'
BY DEF WindowInv, Through, Upto

LEMMA LimiterInitInv == LimitsInit => LimiterInv
<1> SUFFICES ASSUME LimitsInit PROVE LimiterInv
  OBVIOUS
<1>1. LimitsInv
  BY LimitsInitInv
<1>2. ASSUME NEW k \in Clients PROVE WindowInv(k)
  <2>1. /\ \A a \in Times : admitted[k][a] = 0
        /\ counts[k].start = 0 /\ counts[k].n = 0 /\ clock = 0
    BY DEF LimitsInit
  <2>2. \A a \in Int : a <= MaxTime => Upto(k, a) = 0
    BY <1>1, <2>1, LimitNumbers DEF Upto, Times
  <2>3. ASSUME NEW from \in Int, NEW to \in Int, from <= MaxTime, to <= MaxTime
        PROVE  Through(k, from, to) = 0
    <3>1. PICK before \in Int : before = from - 1
      OBVIOUS
    <3>2. before <= MaxTime
      BY <1>1, <2>3, <3>1, LimitNumbers
    <3>3. Upto(k, before) = 0 /\ Upto(k, to) = 0
      BY <2>2, <2>3, <3>2
    <3>4. Through(k, from, to) = Upto(k, to) - Upto(k, before)
      BY <3>1, ThroughIs
    <3> QED
      BY <3>3, <3>4
  <2>4. /\ Through(k, counts[k].start, clock) = counts[k].n
        /\ Through(k, counts[k].start - Minute + 1, counts[k].start - 1) <= Limit
    <3>1. PICK from, to \in Int : from = counts[k].start - Minute + 1 /\ to = counts[k].start - 1
      BY <1>1, LimitNumbers
    <3>2. from <= MaxTime /\ to <= MaxTime /\ 0 <= MaxTime /\ 0 <= Limit
      BY <1>1, <2>1, <3>1, LimitNumbers
    <3>3. Through(k, from, to) <= Limit /\ Through(k, 0, 0) = 0
      BY <2>3, <3>2
    <3> QED
      BY <2>1, <3>1, <3>3, Zenon
  <2>5. ASSUME NEW t \in Times, t + Minute - 1 <= MaxTime
        PROVE  Through(k, t, t + Minute - 1) <= 2 * Limit
    <3>1. PICK e \in Int : e = t + Minute - 1
      BY <1>1, LimitNumbers DEF Times
    <3>2. t \in Int /\ t <= MaxTime /\ e <= MaxTime
      BY <1>1, <2>5, <3>1, LimitNumbers DEF Times
    <3>3. Through(k, t, e) = 0 /\ 0 <= 2 * Limit
      BY <1>1, <2>3, <3>2, LimitNumbers
    <3> QED
      BY <3>1, <3>3
  <2>6. 0 \in Times
    BY <1>1, LimitNumbers DEF Times
  <2> QED
    BY <2>1, <2>4, <2>5, <2>6 DEF WindowInv
<1> QED
  BY <1>1, <1>2 DEF LimiterInv

LEMMA LimiterNextInv == LimiterInv /\ [LimitsNext]_limitVars => LimiterInv'
<1> SUFFICES ASSUME LimiterInv, [LimitsNext]_limitVars PROVE LimiterInv'
  OBVIOUS
<1>1. LimitsInv /\ LimitsInv' /\ counts \in [Clients -> Window]
  BY LimitsNextInv DEF LimiterInv, LimitsInv, LimitsTypeOK
<1> SUFFICES ASSUME NEW j \in Clients PROVE WindowInv(j)'
  BY <1>1 DEF LimiterInv
<1>2. WindowInv(j)
  BY DEF LimiterInv
<1>3. CASE Pass
  <2>1. /\ clock' = clock + 1 /\ counts' = counts /\ admitted' = admitted
        /\ clock \in Times /\ clock' \in Times
    BY <1>1, <1>3 DEF Pass, LimitsInv, LimitsTypeOK
  <2>2. \A a \in Times : a >= clock' => a >= clock
    BY <2>1 DEF Times
  <2>3. admitted[j][clock'] = admitted[j][clock]
    <3>1. clock' >= clock
      BY <2>1 DEF Times
    <3> QED
      BY <1>2, <2>1, <3>1 DEF WindowInv
  <2>4. Upto(j, clock') = Upto(j, clock)
    BY <2>1, <2>3 DEF Upto, Times
  <2>5. \A a, b : Through(j, a, b)' = Through(j, a, b)
    BY <2>1 DEF Through, Upto
  <2>6. Through(j, counts[j].start, clock') = counts[j].n
    BY <1>2, <2>4 DEF WindowInv, Through
  <2>7. \A a \in Times : a >= clock' \/ a >= counts[j].start + Minute - 1
                             => admitted[j][a] = admitted[j][clock']
    BY <1>2, <2>2, <2>3 DEF WindowInv
  <2> QED
    BY <1>2, <2>1, <2>5, <2>6, <2>7 DEF WindowInv
<1>4. ASSUME NEW k \in Clients, RefuseRequest(k) PROVE WindowInv(j)'
  <2>1. Current(k).n > 0 /\ counts' = [counts EXCEPT ![k] = Current(k)]
    BY <1>1, <1>4, CurrentFacts, LimitNumbers DEF RefuseRequest
  <2>2. counts'[j] = counts[j]
    BY <1>1, <2>1, CurrentFacts
  <2> QED
    BY <1>2, <1>4, <2>2, SameWindow DEF RefuseRequest
<1>5. ASSUME NEW k \in Clients, Admit(k) PROVE WindowInv(j)'
  <2> DEFINE w == [Current(k) EXCEPT !.n = @ + 1]
  <2>1. /\ Counted(k) /\ clock' = clock /\ counts' = [counts EXCEPT ![k] = w]
        /\ Current(k).n < Limit
    BY <1>5 DEF Admit
  <2>2. w \in Window /\ w.start = Current(k).start /\ w.n = Current(k).n + 1
    <3>1. w = [start |-> Current(k).start, n |-> Current(k).n + 1]
      BY <1>1, CurrentFacts DEF Window
    <3> QED
      BY <1>1, <2>1, <3>1, CurrentFacts, LimitNumbers DEF Window
  <2> HIDE DEF w
  <2>3. CASE j = k
    BY <2>1, <2>2, <2>3, CountedWindow
  <2>4. CASE j # k
    <3>1. counts'[j] = counts[j] /\ admitted'[j] = admitted[j]
      BY <1>1, <2>1, <2>4, CountedIs
    <3> QED
      BY <1>2, <2>1, <3>1, SameWindow
  <2> QED
    BY <2>3, <2>4
<1>6. CASE \/ UNCHANGED limitVars
           \/ \E k \in Clients : RefuseKey(k)
  BY <1>2, <1>6, SameWindow DEF limitVars, RefuseKey
<1> QED
  BY <1>3, <1>4, <1>5, <1>6 DEF LimitsNext

(***************************************************************************)
(* No key passes more than two windows' worth of requests in any minute,   *)
(* whatever the windows that end and the sweeps between, and none is       *)
(* forgotten while its window runs (rateLimiter.allow).                    *)
(***************************************************************************)
THEOREM TheLimiterHolds == LimitsSpec => []LimiterHolds
<1>1. LimiterInv => LimiterHolds
  BY DEF LimiterInv, LimitsInv, LimiterHolds, TwoWindowsAtMost, WindowInv
<1> QED
  BY <1>1, LimiterInitInv, LimiterNextInv, PTL DEF LimitsSpec

-----------------------------------------------------------------------------
\* A key that is crowded out finds MaxKeys others in the map, all of windows
\* that began less than two minutes ago.
LEMMA CrowdIsRecent ==
    ASSUME LimiterInv, IsFiniteSet(Clients), NEW k \in Clients, RefuseKey(k)
    PROVE  Cardinality(Recent(clock - 2 * Minute + 1)) >= MaxKeys
<1> DEFINE since == clock - 2 * Minute + 1
<1>0. LimitsInv
  BY DEF LimiterInv
<1>1. Cardinality(Swept(k)) >= MaxKeys /\ Swept(k) \subseteq known
  BY <1>0, SweptFacts DEF RefuseKey, Crowded
<1>2. SweepTime(k) > clock - Minute
  <2>1. k \notin known
    BY <1>0, <1>1, SweptFacts DEF RefuseKey, Crowded, Swept, Full
  <2>2. Cardinality(known) >= MaxKeys
    <3>1. IsFiniteSet(known)
      BY <1>0 DEF LimitsInv
    <3>2. Cardinality(Swept(k)) <= Cardinality(known) /\ Cardinality(known) \in Nat
      BY <1>1, <3>1, FS_Subset, FS_CardinalityType
    <3> QED
      BY <1>0, <1>1, <3>2, SweptFacts, LimitNumbers
  <2>3. Full(k)
    BY <2>1, <2>2 DEF Full
  <2> QED
    BY <1>0, <2>3, LimitNumbers DEF SweepTime, MaySweep
<1>3. ASSUME NEW j \in Swept(k) PROVE j \in Recent(since)
  <2>1. j \in known /\ j \in Clients
    BY <1>0, <1>1, <1>3 DEF LimitsInv, LimitsTypeOK
  <2>2. counts[j].start > SweepTime(k) - Minute
    BY <1>0, <1>3, SweptFacts
  <2>3. SweepTime(k) \in Int
    BY <1>0, SweptFacts, LimitNumbers DEF Times
  <2>4. counts[j].start >= since
    BY <1>0, <1>2, <2>1, <2>2, <2>3, LimitNumbers
  <2>5. PICK s, before, s1 \in Int :
          s = counts[j].start /\ before = since - 1 /\ s1 = s - 1
    BY <1>0, <2>1, LimitNumbers
  <2>6. /\ WindowInv(j) /\ counts[j].n > 0 /\ counts[j].n \in Nat
        /\ clock \in Int /\ since \in Int /\ clock <= MaxTime /\ s <= clock
    BY <1>0, <2>1, <2>5, LimitNumbers DEF LimiterInv, LimitsInv, KeyInv
  <2>7. Upto(j, clock) - Upto(j, s1) = counts[j].n
    <3>1. Through(j, s, clock) = Upto(j, clock) - Upto(j, s1)
      BY <2>5, <2>6, ThroughIs
    <3> QED
      BY <2>5, <2>6, <3>1 DEF WindowInv
  <2>8. before <= s1 /\ s1 <= MaxTime
    BY <1>0, <2>4, <2>5, <2>6, LimitNumbers
  <2>9. /\ Upto(j, before) <= Upto(j, s1) /\ Upto(j, before) \in Nat
        /\ Upto(j, s1) \in Nat /\ Upto(j, clock) \in Nat
    <3>1. before <= MaxTime /\ clock \in Nat
      BY <1>0, <2>8, LimitNumbers
    <3> QED
      BY <1>0, <2>1, <2>6, <2>8, <3>1, UptoGrows
  <2>10. Through(j, since, clock) = Upto(j, clock) - Upto(j, before)
    BY <2>5, <2>6, ThroughIs
  <2>11. Through(j, since, clock) > 0
    BY <2>6, <2>7, <2>9, <2>10
  <2> QED
    BY <2>1, <2>11 DEF Recent
<1>4. Recent(since) \subseteq Clients
  BY DEF Recent
<1>5. IsFiniteSet(Recent(since))
  BY <1>4, FS_Subset
<1>6. /\ Cardinality(Swept(k)) <= Cardinality(Recent(since))
      /\ Cardinality(Recent(since)) \in Nat
  BY <1>3, <1>5, FS_Subset, FS_CardinalityType
<1> QED
  BY <1>0, <1>1, <1>6, SweptFacts, LimitNumbers

(***************************************************************************)
(* A newcomer is turned away only while MaxKeys keys really came within    *)
(* two minutes, for every finite set of keys (rateLimiter.allow).          *)
(***************************************************************************)
THEOREM TurnedAwayOnlyForARush ==
    ASSUME IsFiniteSet(Clients)
    PROVE  LimitsSpec => TurnedAwayForARush
<1>1. LimiterInv /\ [LimitsNext]_limitVars =>
        [\A k \in Clients : RefuseKey(k) =>
            Cardinality(Recent(clock - 2 * Minute + 1)) >= MaxKeys]_limitVars
  BY CrowdIsRecent
<1> QED
  BY <1>1, LimiterInitInv, LimiterNextInv, PTL DEF LimitsSpec, TurnedAwayForARush

-----------------------------------------------------------------------------
(***************************************************************************)
(* NodeProbe.  The history of the truth is up to date, and what the file   *)
(* says was so when its run began or since.                                *)
(***************************************************************************)
Reached(t, at) == t # Never /\ t >= at

ProbeInv ==
    /\ ProbeTypeOK
    /\ proc # None => /\ proc.start = starts
                      /\ proc.fds = "high" => lastHigh[starts] = now
    /\ room = "low" => lastLow = now
    /\ probing # None => probing.at <= now
    /\ file # None => /\ file.at <= now
                      /\ file.start # 0 /\ file.fds = "high" =>
                           Reached(lastHigh[file.start], file.at)
                      /\ file.diskOK /\ file.room = "low" => Reached(lastLow, file.at)

LEMMA ProbeNumbers ==
    ASSUME ProbeTypeOK
    PROVE  /\ now \in Nat /\ now <= MaxTicks /\ MaxTicks \in Nat /\ MaxStarts \in Nat
           /\ MaxAge \in Nat /\ Never \notin Nat
           /\ \A n \in 1 .. MaxStarts : lastHigh[n] = Never \/ lastHigh[n] \in Nat
           /\ lastLow = Never \/ lastLow \in Nat
           /\ starts \in Nat
           /\ proc # None => proc \in Process /\ proc.start \in 1 .. MaxStarts
           /\ file # None => file \in Reading /\ file.at \in Nat /\ file.start \in 0 .. MaxStarts
BY ProbeAssumption DEF ProbeTypeOK, Process, Reading, Never

LEMMA ProbeInitInv == ProbeInit => ProbeInv
BY ProbeAssumption DEF ProbeInit, ProbeInv, ProbeTypeOK, Rooms

\* The node and its host change: what was reached stays reached.
LEMMA TruthInv ==
    ASSUME ProbeInv, NodeStarts \/ NodeStops \/ NodeGrows \/ DiskChanges \/ ProbeTick
    PROVE  ProbeInv'
<1>0. ProbeTypeOK /\ UNCHANGED <<probing, file, sample>>
  BY DEF ProbeInv, NodeStarts, NodeStops, NodeGrows, DiskChanges, ProbeTick
<1>1. CASE NodeStarts \/ NodeStops
  <2>1. UNCHANGED <<now, room, probing, file, sample, lastHigh, lastLow>>
    BY <1>1 DEF NodeStarts, NodeStops, truth
  <2>2. /\ starts' \in 0 .. MaxStarts
        /\ proc' \in Process \cup {None}
        /\ proc' # None => proc'.start = starts' /\ proc'.fds = "low"
    <3>1. CASE NodeStops
      BY <1>0, <3>1 DEF NodeStops, ProbeTypeOK
    <3>2. CASE NodeStarts
      <4>1. PICK pid \in Pids : proc' = [pid |-> pid, start |-> starts + 1, fds |-> "low"]
        BY <3>2 DEF NodeStarts
      <4>2. starts' = starts + 1 /\ starts' \in 1 .. MaxStarts
        BY <1>0, <3>2, ProbeNumbers DEF NodeStarts
      <4> QED
        BY <4>1, <4>2 DEF Process, Levels
    <3> QED
      BY <1>1, <3>1, <3>2
  <2> QED
    BY <1>0, <2>1, <2>2 DEF ProbeInv, ProbeTypeOK
<1>2. CASE NodeGrows
  <2>1. UNCHANGED <<now, starts, room, probing, file, sample, lastLow>> /\ proc # None
    BY <1>2 DEF NodeGrows
  <2>2. PICK f \in Levels :
          /\ proc' = [proc EXCEPT !.fds = f]
          /\ lastHigh' = IF f = "high" THEN [lastHigh EXCEPT ![proc.start] = now] ELSE lastHigh
    BY <1>2 DEF NodeGrows
  <2>3. proc' \in Process /\ proc'.start = proc.start /\ proc'.fds = f
    BY <1>0, <2>1, <2>2, ProbeNumbers DEF Process
  <2>4. /\ lastHigh' \in [1 .. MaxStarts -> {Never} \cup (0 .. MaxTicks)]
        /\ f = "high" => lastHigh'[proc.start] = now
        /\ \A n \in 1 .. MaxStarts : lastHigh'[n] = lastHigh[n] \/ lastHigh'[n] = now
    BY <1>0, <2>1, <2>2, ProbeNumbers DEF ProbeTypeOK
  <2>5. file # None /\ file.start # 0 /\ file.fds = "high" =>
          Reached(lastHigh'[file.start], file.at)
    <3> SUFFICES ASSUME file # None, file.start # 0, file.fds = "high"
                 PROVE  Reached(lastHigh'[file.start], file.at)
      OBVIOUS
    <3>1. /\ Reached(lastHigh[file.start], file.at) /\ file.at <= now
          /\ file.start \in 1 .. MaxStarts /\ now \in Nat
      BY <1>0, ProbeNumbers DEF ProbeInv
    <3> QED
      BY <2>4, <3>1, ProbeNumbers, <1>0 DEF Reached
  <2> QED
    BY <1>0, <2>1, <2>3, <2>4, <2>5 DEF ProbeInv, ProbeTypeOK
<1>3. CASE DiskChanges
  <2>1. /\ UNCHANGED <<now, proc, starts, probing, file, sample, lastHigh>>
        /\ room' \in Rooms /\ lastLow' = IF room' = "low" THEN now ELSE lastLow
    BY <1>3 DEF DiskChanges
  <2> QED
    BY <1>0, <2>1, ProbeNumbers DEF ProbeInv, ProbeTypeOK, Reached
<1>4. CASE ProbeTick
  <2>1. /\ UNCHANGED <<proc, starts, room, probing, file, sample>>
        /\ now' = now + 1 /\ now < MaxTicks
        /\ lastLow' = IF room = "low" THEN now + 1 ELSE lastLow
        /\ lastHigh' = [n \in 1 .. MaxStarts |->
              IF proc # None /\ n = starts THEN IF proc.fds = "high" THEN now + 1 ELSE lastHigh[n]
              ELSE lastHigh[n]]
    BY <1>4 DEF ProbeTick
  <2>2. /\ now' \in 0 .. MaxTicks /\ now <= now'
        /\ probing # None => probing.at \in Nat
    BY <1>0, <2>1, ProbeNumbers DEF ProbeTypeOK
  <2>3. /\ lastHigh' \in [1 .. MaxStarts -> {Never} \cup (0 .. MaxTicks)]
        /\ \A n \in 1 .. MaxStarts : lastHigh'[n] = lastHigh[n] \/ lastHigh'[n] = now'
    BY <1>0, <2>1, <2>2 DEF ProbeTypeOK
  <2>4. proc # None /\ proc.fds = "high" => lastHigh'[starts] = now'
    <3>1. proc # None => starts \in 1 .. MaxStarts
      BY <1>0, ProbeNumbers DEF ProbeInv
    <3> QED
      BY <2>1, <3>1
  <2>5. file # None /\ file.start # 0 /\ file.fds = "high" =>
          Reached(lastHigh'[file.start], file.at)
    <3> SUFFICES ASSUME file # None, file.start # 0, file.fds = "high"
                 PROVE  Reached(lastHigh'[file.start], file.at)
      OBVIOUS
    <3>1. /\ Reached(lastHigh[file.start], file.at) /\ file.at <= now
          /\ file.start \in 1 .. MaxStarts /\ now \in Nat /\ file.at \in Nat
      BY <1>0, ProbeNumbers DEF ProbeInv
    <3> QED
      BY <1>0, <2>1, <2>2, <2>3, <3>1, ProbeNumbers DEF Reached
  <2>6. /\ lastLow' \in {Never} \cup (0 .. MaxTicks)
        /\ room = "low" => lastLow' = now'
        /\ file # None => /\ file.at <= now'
                          /\ file.diskOK /\ file.room = "low" => Reached(lastLow', file.at)
    <3>1. lastLow' = lastLow \/ lastLow' = now'
      BY <2>1
    <3>2. file # None => /\ file.at <= now'
                         /\ file.diskOK /\ file.room = "low" => Reached(lastLow, file.at)
      BY <1>0, <2>1, ProbeNumbers DEF ProbeInv
    <3>3. now' # Never
      BY <1>0, <2>1, ProbeNumbers DEF Never
    <3>4. lastLow' \in {Never} \cup (0 .. MaxTicks) /\ (room = "low" => lastLow' = now')
      BY <1>0, <2>1, <2>2 DEF ProbeTypeOK
    <3> QED
      BY <3>1, <3>2, <3>3, <3>4 DEF Reached
  <2>7. probing # None => probing.at <= now'
    BY <1>0, <2>1, <2>2, ProbeNumbers DEF ProbeInv
  <2> QED
    BY <1>0, <2>1, <2>2, <2>3, <2>4, <2>5, <2>6, <2>7 DEF ProbeInv, ProbeTypeOK
<1> QED
  BY <1>1, <1>2, <1>3, <1>4

\* A run of the probe, and the sampler.
LEMMA ProbingInv ==
    ASSUME ProbeInv, ReadProps \/ WriteProbe \/ ProbeFails \/ Take
    PROVE  ProbeInv'
<1>0. ProbeTypeOK /\ UNCHANGED <<now, proc, starts, room, lastHigh, lastLow>>
  BY DEF ProbeInv, ReadProps, WriteProbe, ProbeFails, Take, truth
<1>1. CASE ReadProps
  <2>1. /\ probing' \in [pid : Pids \cup {0}, at : 0 .. MaxTicks] /\ probing'.at = now
        /\ UNCHANGED <<file, sample>>
    BY <1>0, <1>1, ProbeNumbers DEF ReadProps, ProbeTypeOK, Process
  <2> QED
    BY <1>0, <2>1, ProbeNumbers DEF ProbeInv, ProbeTypeOK
<1>2. CASE WriteProbe /\ file' # file
  <2>1. PICK diskOK \in BOOLEAN :
          /\ ~(probing.pid # 0 /\ ~Runs(probing.pid))
          /\ file' = [at |-> probing.at, diskOK |-> diskOK,
                      room |-> IF diskOK THEN room ELSE "unknown",
                      pid |-> probing.pid,
                      start |-> IF probing.pid = 0 THEN 0 ELSE proc.start,
                      fds |-> IF probing.pid = 0 THEN "low" ELSE proc.fds]
    BY <1>2 DEF WriteProbe
  <2>2. probing # None /\ probing' = None /\ UNCHANGED sample
    BY <1>2 DEF WriteProbe
  <2>3. /\ probing.at \in 0 .. MaxTicks /\ probing.at \in Nat /\ probing.at <= now
        /\ probing.pid \in Pids \cup {0}
    BY <1>0, <2>2 DEF ProbeInv, ProbeTypeOK
  <2>4. probing.pid # 0 => /\ proc # None /\ proc \in Process /\ proc.start = starts
                           /\ proc.start \in 0 .. MaxStarts /\ proc.fds \in Levels
                           /\ proc.fds = "high" => lastHigh[starts] = now
    BY <1>0, <2>1, ProbeNumbers DEF Runs, ProbeInv, Process
  <2>5. file' \in Reading
    BY <1>0, <2>1, <2>3, <2>4, ProbeNumbers DEF Reading, ProbeTypeOK, Levels
  <2>6. /\ file'.at = probing.at
        /\ file'.diskOK /\ file'.room = "low" => room = "low"
        /\ file'.start # 0 /\ file'.fds = "high" =>
             probing.pid # 0 /\ file'.start = starts /\ proc.fds = "high"
    BY <2>1, <2>4
  <2>7. /\ room = "low" => Reached(lastLow, probing.at)
        /\ probing.pid # 0 /\ proc.fds = "high" => Reached(lastHigh[starts], probing.at)
    BY <1>0, <2>3, <2>4, ProbeNumbers DEF Reached, ProbeInv
  <2> QED
    BY <1>0, <2>2, <2>3, <2>5, <2>6, <2>7 DEF ProbeInv, ProbeTypeOK
<1>3. CASE (WriteProbe \/ ProbeFails) /\ file' = file
  <2>1. probing' = None /\ UNCHANGED sample
    BY <1>3 DEF WriteProbe, ProbeFails
  <2> QED
    BY <1>0, <1>3, <2>1 DEF ProbeInv, ProbeTypeOK
<1>4. CASE Take
  <2>1. UNCHANGED <<probing, file>> /\ sample' \in Figures
    <3>1. PICK seen \in Seen :
            sample' = [process |-> TakeProcess(proc), room |-> TakeDisk(seen)]
      BY <1>4 DEF Take
    <3>2. TakeProcess(proc) \in [known : BOOLEAN, fds : Levels]
      BY <1>0, ProbeNumbers DEF TakeProcess, Fresh, Reading, Levels
    <3>3. TakeDisk(seen) \in Rooms \cup {"unknown"}
      BY <1>0, ProbeNumbers DEF TakeDisk, Seen, Fresh, Reading, ProbeTypeOK
    <3> QED
      BY <1>4, <3>1, <3>2, <3>3 DEF Take, Figures
  <2> QED
    BY <1>0, <2>1 DEF ProbeInv, ProbeTypeOK
<1> QED
  BY <1>1, <1>2, <1>3, <1>4 DEF ProbeFails

LEMMA ProbeNextInv == ProbeInv /\ [ProbeNext]_probeVars => ProbeInv'
<1>1. ASSUME ProbeInv, UNCHANGED probeVars PROVE ProbeInv'
  BY <1>1 DEF ProbeInv, ProbeTypeOK, probeVars
<1> QED
  BY <1>1, TruthInv, ProbingInv DEF ProbeNext

\* What a sample says is lately so.
LEMMA SampleIsLate ==
    ASSUME ProbeInv, Take
    PROVE  /\ FdsHigh(sample') => proc # None /\ Lately(lastHigh[starts])
           /\ OwnMount = FALSE /\ DiskLow(sample') => Lately(lastLow)
<1>1. PICK seen \in Seen :
        sample' = [process |-> TakeProcess(proc), room |-> TakeDisk(seen)]
  BY DEF Take
<1>2. ProbeTypeOK
  BY DEF ProbeInv
<1>3. ASSUME NEW t, NEW at \in Nat, t = Never \/ t \in Nat, Reached(t, at), now - at <= MaxAge
      PROVE  Lately(t)
  BY <1>2, <1>3, ProbeNumbers DEF Reached, Lately
<1>4. ASSUME FdsHigh(sample') PROVE proc # None /\ Lately(lastHigh[starts])
  <2>1. /\ proc # None /\ Fresh /\ ForProcess(proc) /\ file.fds = "high"
    BY <1>1, <1>4 DEF FdsHigh, TakeProcess
  <2>2. /\ file # None /\ now - file.at <= MaxAge /\ file.start = starts /\ file.start # 0
    BY <2>1 DEF Fresh, ForProcess, ProbeInv
  <2>3. Reached(lastHigh[starts], file.at)
    BY <2>1, <2>2 DEF ProbeInv
  <2>4. starts \in 1 .. MaxStarts
    BY <1>2, <2>1, ProbeNumbers DEF ProbeInv
  <2> QED
    BY <1>2, <1>3, <2>1, <2>2, <2>3, <2>4, ProbeNumbers
<1>5. ASSUME OwnMount = FALSE, DiskLow(sample') PROVE Lately(lastLow)
  <2>1. TakeDisk(seen) = "low"
    BY <1>1, <1>5 DEF DiskLow
  <2>2. CASE Fresh /\ file.diskOK
    <3>1. /\ file.room = "low" /\ file # None /\ now - file.at <= MaxAge
      BY <2>1, <2>2 DEF TakeDisk, Fresh
    <3>2. Reached(lastLow, file.at)
      BY <2>2, <3>1 DEF ProbeInv
    <3> QED
      BY <1>2, <1>3, <3>1, <3>2, ProbeNumbers
  <2>3. CASE ~(Fresh /\ file.diskOK)
    <3>1. seen = "low"
      BY <2>1, <2>3 DEF TakeDisk
    <3>2. room = "low"
      BY <1>5, <3>1 DEF Seen
    <3> QED
      BY <1>2, <3>2, ProbeNumbers DEF ProbeInv, Lately
  <2> QED
    BY <2>2, <2>3
<1> QED
  BY <1>4, <1>5

(***************************************************************************)
(* fds_high speaks of the process that was sampled, whatever pids the      *)
(* kernel uses again (probe.go:120-124).                                   *)
(***************************************************************************)
THEOREM FdsAreOfTheProcess == ProbeSpec => FdsAreItsOwn
<1>1. ProbeInv /\ [ProbeNext]_probeVars =>
        [Take /\ FdsHigh(sample') => proc # None /\ Lately(lastHigh[starts])]_probeVars
  BY SampleIsLate
<1> QED
  BY <1>1, ProbeInitInv, ProbeNextInv, PTL DEF ProbeSpec, FdsAreItsOwn

(***************************************************************************)
(* Both rules over the probe's file judge what lately was so of the node   *)
(* that is sampled, unless the data directory is a mount of its own, which *)
(* the daemon takes for another one when there is no probe                 *)
(* (sample.go:331-353).                                                    *)
(***************************************************************************)
THEOREM TheProbeIsCurrent ==
    ASSUME OwnMount = FALSE
    PROVE  ProbeSpec => ProbeIsCurrent
<1>1. ProbeInv /\ [ProbeNext]_probeVars =>
        [Take /\ DiskLow(sample') => Lately(lastLow)]_probeVars
  BY SampleIsLate
<1>2. ProbeSpec => RoomIsReal
  BY <1>1, ProbeInitInv, ProbeNextInv, PTL DEF ProbeSpec, RoomIsReal
<1> QED
  BY <1>2, FdsAreOfTheProcess, PTL DEF ProbeIsCurrent

(***************************************************************************)
(* A probe's reading is of a process there was and of a time that has been *)
(* (Probe, readProbe).                                                     *)
(***************************************************************************)
THEOREM ProbeTypes == ProbeSpec => []ProbeTypeOK
<1>1. ProbeInv => ProbeTypeOK
  BY DEF ProbeInv
<1> QED
  BY <1>1, ProbeInitInv, ProbeNextInv, PTL DEF ProbeSpec

-----------------------------------------------------------------------------
(***************************************************************************)
(* The composition.  A component that is not the one followed stays in a   *)
(* state it may start in, so each does what its own specification lets it  *)
(* do, and no more.                                                        *)
(***************************************************************************)
THEOREM PartsAreTheirOwn == MCSpec => PairingSpec /\ LimitsSpec /\ ProbeSpec
<1>1. MCInit => PairingInit /\ LimitsInit /\ ProbeInit
  BY DEF MCInit, PairingRest
<1>2. [MCNext]_mcVars =>
         [PairingNext]_pairVars /\ [LimitsNext]_limitVars /\ [ProbeNext]_probeVars
  <2>1. UNCHANGED mcVars =>
         [PairingNext]_pairVars /\ [LimitsNext]_limitVars /\ [ProbeNext]_probeVars
    BY Zenon DEF mcVars
  <2>2. MCNext =>
         [PairingNext]_pairVars /\ [LimitsNext]_limitVars /\ [ProbeNext]_probeVars
    BY Zenon DEF MCNext
  <2> QED
    BY <2>1, <2>2
<1> QED
  BY <1>1, <1>2, PTL DEF MCSpec, PairingSpec, LimitsSpec, ProbeSpec

(***************************************************************************)
(* What pairing, the rate limiter and the probe keep has its type.         *)
(***************************************************************************)
THEOREM PartsTypes == MCSpec => []PartsTypeOK
<1>1. PairingTypeOK /\ LimitsTypeOK /\ ProbeTypeOK => PartsTypeOK
  BY DEF PartsTypeOK
<1> QED
  BY <1>1, PartsAreTheirOwn, PairingTypes, LimitTypes, ProbeTypes, PTL
=============================================================================
