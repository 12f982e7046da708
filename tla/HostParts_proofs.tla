-------------------------- MODULE HostParts_proofs --------------------------
(***************************************************************************)
(* What parts of nomctl on a host guarantee by themselves, for every value *)
(* of their bounds: the check for updates, the upgrade of nomctl, the      *)
(* installation of the analytics stack, the backup timer, and the rules    *)
(* that look back over a history of samples.                               *)
(***************************************************************************)
EXTENDS UpdateCheck, SelfUpgrade, AnalyticsInstall, BackupTimer, AlertRules, FiniteSetTheorems,
        SequenceTheorems, WellFoundedInduction, TLAPS

-----------------------------------------------------------------------------
(***************************************************************************)
(* UpdateCheck.  What is out came out in order and not in the future; the  *)
(* cache, unless a lookup failed, knows all that was out when it was made. *)
(***************************************************************************)
Out(line, n) == out[line][n] # Never
Numbered(line) == \E top \in Numbers_ : \A n \in Numbers_ : Out(line, n) <=> n <= top
Answer == [at : 0 .. Never, branch : Branches \cup {"none"},
           nomctl : 0 .. MaxNumber, node : 0 .. MaxNumber]
CheckTypes ==
    /\ clock \in 0 .. MaxTime
    /\ out \in [Lines_ -> [Numbers_ -> 0 .. Never]]
    /\ running \in Numbers_
    /\ branch \in Branches
    /\ deployed \in [branch : Branches, commit : Numbers_]
    /\ cache \in Answer
    /\ told \in [asker : {"none", "command", "daemon"}, nomctl : 0 .. MaxNumber,
                 node : 0 .. MaxNumber, cache : Answer]
\* What an answer says about nomctl is out, and newest at its time.
KnowsReleases(c) ==
    c.nomctl # Unknown =>
        /\ Out("nomctl", c.nomctl)
        /\ \A n \in Numbers_ : out["nomctl"][n] < c.at => n <= c.nomctl
CacheInv ==
    /\ \A l \in Lines_ : Numbered(l)
    /\ \A l \in Lines_, n \in Numbers_ : Out(l, n) => out[l][n] <= clock
    /\ cache # NoCheck => cache.at <= clock /\ KnowsReleases(cache)
CheckInv == CheckTypes /\ CacheInv /\ ReportsAreRight

LEMMA LatestIs ==
    ASSUME CheckTypes, NEW l \in Lines_, Numbered(l)
    PROVE  /\ Latest(l) \in Numbers_ /\ Out(l, Latest(l))
           /\ \A n \in Numbers_ : Out(l, n) <=> n <= Latest(l)
<1>1. PICK top \in Numbers_ : \A n \in Numbers_ : Out(l, n) <=> n <= top
  BY DEF Numbered
<1>2. /\ out[l][top] # Never
      /\ \A m \in Numbers_ : out[l][m] # Never => m <= top
  BY <1>1 DEF Out, Numbers_
<1>3. /\ Latest(l) \in Numbers_
      /\ out[l][Latest(l)] # Never
      /\ \A m \in Numbers_ : out[l][m] # Never => m <= Latest(l)
  BY <1>2 DEF Latest
<1>4. Latest(l) = top
  BY <1>1, <1>3 DEF Out, Numbers_
<1> QED
  BY <1>1, <1>4 DEF Numbers_

LEMMA NothingTold ==
    ASSUME CheckTypes, Forgotten PROVE ReportsAreRight' /\ told' \in [asker : {"none", "command", "daemon"},
                 nomctl : 0 .. MaxNumber, node : 0 .. MaxNumber, cache : Answer]
BY CheckAssumption DEF CheckTypes, Forgotten, ReportsAreRight, ReportIsTrue, ReportIsFresh, NotTold, NoCheck,
       Unknown, Answer, Never

LEMMA CheckInitInv == CheckInit => CheckInv
<1> SUFFICES ASSUME CheckInit PROVE CheckInv
  OBVIOUS
<1>0. 1 \in Numbers_ /\ 0 \in 0 .. Never /\ Never \in 0 .. Never /\ Never # 0
  BY CheckAssumption DEF Numbers_, Never
<1>1. NoCheck \in Answer /\ CheckTypes
  BY <1>0, CheckAssumption DEF CheckInit, CheckTypes, NoCheck, NotTold, Answer, Unknown, Never
<1>2. \A l \in Lines_, n \in Numbers_ : out[l][n] = IF n = 1 THEN 0 ELSE Never
  BY DEF CheckInit
<1>3. CacheInv
  BY <1>0, <1>2 DEF CacheInv, Numbered, Out, Numbers_, CheckInit
<1>4. ReportsAreRight
  BY DEF CheckInit, ReportsAreRight, ReportIsTrue, ReportIsFresh, NotTold, Unknown
<1> QED
  BY <1>1, <1>3, <1>4 DEF CheckInv

\* The answer a question gets, cached or looked up.
LEMMA ChecksAnswer ==
    ASSUME CheckInv, NEW b \in Branches, NEW c \in Checks(b)
    PROVE  /\ c \in Answer /\ c # NoCheck /\ c.branch = b
           /\ c.at <= clock /\ clock - c.at < TTL /\ KnowsReleases(c)
<1>0. /\ clock \in 0 .. MaxTime /\ clock \in 0 .. Never /\ clock # Never
      /\ "nomctl" \in Lines_ /\ b \in Lines_
  BY CheckAssumption DEF CheckInv, CheckTypes, Never, Lines_
<1>1. CASE Usable(b)
  BY <1>1 DEF Checks, Usable, CheckInv, CheckTypes, CacheInv
<1>2. CASE ~Usable(b)
  <2>1. PICK n \in {Unknown, Latest("nomctl")}, k \in {Unknown, Latest(b)} :
          c = [at |-> clock, branch |-> b, nomctl |-> n, node |-> k]
    BY <1>2 DEF Checks
  <2>2. /\ Latest("nomctl") \in Numbers_ /\ Latest(b) \in Numbers_
        /\ Out("nomctl", Latest("nomctl"))
        /\ \A m \in Numbers_ : Out("nomctl", m) => m <= Latest("nomctl")
    BY <1>0, LatestIs DEF CheckInv, CacheInv
  <2>3. c \in Answer
    BY <1>0, <2>1, <2>2, CheckAssumption DEF Answer, Numbers_, Unknown
  <2>4. \A m \in Numbers_ : out["nomctl"][m] < clock => Out("nomctl", m)
    BY <1>0, CheckAssumption DEF Out, Never
  <2>5. KnowsReleases(c)
    BY <2>1, <2>2, <2>4 DEF KnowsReleases
  <2> QED
    BY <1>0, <2>1, <2>3, <2>5, CheckAssumption DEF NoCheck
<1> QED
  BY <1>1, <1>2

LEMMA AskInv ==
    ASSUME CheckInv, NEW asker \in {"command", "daemon"}, Ask(asker)
    PROVE  CheckInv'
<1> DEFINE b == AskedBranch(asker)
<1>0. b \in Branches
  BY CheckAssumption DEF AskedBranch, CheckInv, CheckTypes
<1>1. PICK c \in Checks(b) :
        /\ cache' = c
        /\ told' = [asker |-> asker, cache |-> c,
                    nomctl |-> IF Newer(c.nomctl, running) THEN c.nomctl ELSE Unknown,
                    node |-> IF NodeBehind(c) THEN c.node ELSE Unknown]
        /\ UNCHANGED <<clock, out, running, branch, deployed>>
  BY DEF Ask
<1>2. /\ c \in Answer /\ c # NoCheck /\ c.branch = b
      /\ c.at <= clock /\ clock - c.at < TTL /\ KnowsReleases(c)
  BY <1>0, ChecksAnswer
<1>3. CheckTypes'
  <2>1. /\ (IF Newer(c.nomctl, running) THEN c.nomctl ELSE Unknown) \in 0 .. MaxNumber
        /\ (IF NodeBehind(c) THEN c.node ELSE Unknown) \in 0 .. MaxNumber
    BY <1>2, CheckAssumption DEF Answer, Unknown
  <2> QED
    BY <1>1, <1>2, <2>1 DEF CheckInv, CheckTypes
<1>4. CacheInv'
  BY <1>1, <1>2 DEF CheckInv, CacheInv, KnowsReleases, Out, Numbered
<1>5. ReportIsTrue'
  BY <1>1, <1>2 DEF ReportIsTrue, KnowsReleases, Newer, Out, AskedBranch
<1>6. ReportIsFresh'
  <2> SUFFICES ASSUME NEW n \in Numbers_, n > running, out["nomctl"][n] + TTL <= clock,
                      c.nomctl # Unknown
               PROVE  told'.nomctl >= n
    BY <1>1 DEF ReportIsFresh
  <2>0. "nomctl" \in Lines_ /\ out["nomctl"][n] \in 0 .. Never
    BY DEF CheckInv, CheckTypes, Lines_
  <2>1. /\ out["nomctl"][n] \in Nat /\ c.at \in Nat /\ clock \in Nat
        /\ n \in Nat /\ running \in Nat /\ c.nomctl \in Nat /\ TTL \in Nat
    BY <1>2, <2>0, CheckAssumption DEF CheckInv, CheckTypes, Answer, Never, Numbers_
  <2>2. out["nomctl"][n] < c.at
    BY <1>2, <2>1
  <2>3. n <= c.nomctl
    BY <1>2, <2>2 DEF KnowsReleases
  <2>4. told'.nomctl = c.nomctl
    BY <1>1, <2>1, <2>3 DEF Newer
  <2> QED
    BY <2>1, <2>3, <2>4
<1> QED
  BY <1>3, <1>4, <1>5, <1>6 DEF CheckInv, ReportsAreRight

LEMMA PublishesInv ==
    ASSUME CheckInv, NEW l \in Lines_, Publishes(l)
    PROVE  CheckInv'
<1> DEFINE n == Latest(l) + 1
<1>0. /\ clock \in 0 .. MaxTime /\ clock \in 0 .. Never /\ clock # Never
  BY CheckAssumption DEF CheckInv, CheckTypes, Never
<1>1. /\ Latest(l) \in Numbers_ /\ \A m \in Numbers_ : Out(l, m) <=> m <= Latest(l)
  BY LatestIs DEF CheckInv, CacheInv
<1>2. n \in Numbers_ /\ ~Out(l, n)
  BY <1>1, CheckAssumption DEF Publishes, Numbers_
<1>3. /\ out' = [out EXCEPT ![l] = [@ EXCEPT ![n] = clock]]
      /\ UNCHANGED <<clock, running, branch, deployed, cache>>
  BY DEF Publishes
<1>4. /\ out' \in [Lines_ -> [Numbers_ -> 0 .. Never]]
      /\ \A k \in Lines_, m \in Numbers_ :
            out'[k][m] = IF k = l /\ m = n THEN clock ELSE out[k][m]
  BY <1>0, <1>2, <1>3 DEF CheckInv, CheckTypes
<1>5. CheckTypes' /\ ReportsAreRight'
  BY <1>3, <1>4, NothingTold DEF Publishes, CheckInv, CheckTypes
<1>6. Numbered(l)'
  <2>1. \A m \in Numbers_ : Out(l, m)' <=> m <= n
    BY <1>0, <1>1, <1>2, <1>4 DEF Out, Numbers_
  <2> QED
    BY <1>2, <2>1 DEF Numbered
<1>7. \A k \in Lines_ \ {l} : Numbered(k)'
  <2> SUFFICES ASSUME NEW k \in Lines_ \ {l} PROVE Numbered(k)'
    OBVIOUS
  <2>1. \A m \in Numbers_ : Out(k, m)' <=> Out(k, m)
    BY <1>4 DEF Out
  <2> QED
    BY <2>1 DEF CheckInv, CacheInv, Numbered
<1>8. \A k \in Lines_, m \in Numbers_ : Out(k, m)' => out'[k][m] <= clock'
  BY <1>0, <1>3, <1>4 DEF CheckInv, CacheInv, Out
<1>9. cache # NoCheck => cache.at <= clock /\ KnowsReleases(cache)'
  <2> SUFFICES ASSUME cache # NoCheck, cache.nomctl # Unknown
               PROVE  cache.at <= clock /\ KnowsReleases(cache)'
    BY <1>3 DEF CheckInv, CacheInv, KnowsReleases
  <2>1. /\ cache.at <= clock /\ KnowsReleases(cache) /\ "nomctl" \in Lines_
        /\ cache.nomctl \in Numbers_ /\ cache.at \in Nat /\ clock \in Nat
    BY CheckAssumption DEF CheckInv, CheckTypes, CacheInv, Lines_, Answer, Unknown, Numbers_, Never
  <2>2. Out("nomctl", cache.nomctl)'
    BY <1>0, <1>3, <1>4, <2>1 DEF KnowsReleases, Out
  <2>3. \A m \in Numbers_ : out'["nomctl"][m] < cache.at => m <= cache.nomctl
    BY <1>4, <2>1 DEF KnowsReleases
  <2> QED
    BY <1>3, <2>1, <2>2, <2>3 DEF KnowsReleases
<1> QED
  BY <1>3, <1>5, <1>6, <1>7, <1>8, <1>9 DEF CheckInv, CacheInv

\* Steps that leave what is out as it is, and say nothing.
LEMMA QuietInv ==
    ASSUME CheckInv,
           \/ ForgetsCache \/ Passes
           \/ \E n \in Numbers_ : UpgradesTo(n)
           \/ \E b \in Branches : Configures(b) \/ Deploys(b)
    PROVE  CheckInv'
<1>1. Forgotten /\ out' = out /\ cache' \in {cache, NoCheck} /\ clock' \in {clock, clock + 1}
  BY DEF ForgetsCache, Passes, UpgradesTo, Configures, Deploys
<1>2. clock \in Nat /\ clock' \in 0 .. MaxTime /\ NoCheck \in Answer
  BY CheckAssumption DEF ForgetsCache, Passes, UpgradesTo, Configures, Deploys, CheckInv, CheckTypes,
                         NoCheck, Answer, Never, Unknown
<1>3. \A b \in Branches : Latest(b) \in Numbers_
  BY LatestIs DEF CheckInv, CacheInv, Lines_
<1>4. running' \in Numbers_ /\ branch' \in Branches
      /\ deployed' \in [branch : Branches, commit : Numbers_]
  BY <1>3 DEF ForgetsCache, Passes, UpgradesTo, Configures, Deploys, CheckInv, CheckTypes
<1>5. CheckTypes' /\ ReportsAreRight'
  BY <1>1, <1>2, <1>4, NothingTold DEF CheckInv, CheckTypes
<1>6. CacheInv'
  <2>1. \A l \in Lines_ : Numbered(l)'
    BY <1>1 DEF CheckInv, CacheInv, Numbered, Out
  <2>2. \A l \in Lines_, n \in Numbers_ : Out(l, n)' => out'[l][n] <= clock'
    BY <1>1, <1>2, CheckAssumption DEF CheckInv, CheckTypes, CacheInv, Out, Never
  <2>3. cache' # NoCheck => cache'.at <= clock' /\ KnowsReleases(cache)'
    <3>1. cache' # NoCheck => cache' = cache
      BY <1>1
    <3>2. cache # NoCheck => cache.at \in Nat
      BY CheckAssumption DEF CheckInv, CheckTypes, Answer, Never
    <3> QED
      BY <1>1, <1>2, <3>1, <3>2 DEF CheckInv, CacheInv, KnowsReleases, Out
  <2> QED
    BY <2>1, <2>2, <2>3 DEF CacheInv
<1> QED
  BY <1>5, <1>6 DEF CheckInv

LEMMA CheckNextInv ==
    ASSUME CheckInv, [CheckNext]_checkVars
    PROVE  CheckInv'
<1>1. CASE UNCHANGED checkVars
  BY <1>1 DEF checkVars, CheckInv, CheckTypes, CacheInv, Numbered, Out, KnowsReleases,
              ReportsAreRight, ReportIsTrue, ReportIsFresh, AskedBranch
<1> QED
  BY <1>1, AskInv, PublishesInv, QuietInv DEF CheckNext

(***************************************************************************)
(* What `status`, `top` and update_available report is out, newer than     *)
(* what runs and of the branch asked about, and at most a TTL old unless   *)
(* the lookup failed, for any number of releases, branches and commands    *)
(* that share the cache with the daemon (Run, usable).                     *)
(***************************************************************************)
THEOREM ReportsRight == CheckSpec => []ReportsAreRight
<1>1. CheckInv /\ [CheckNext]_checkVars => CheckInv'
  BY CheckNextInv
<1>2. CheckInv => ReportsAreRight
  BY DEF CheckInv
<1> QED
  BY <1>1, <1>2, CheckInitInv, PTL DEF CheckSpec

(***************************************************************************)
(* The cache holds, and a command or the daemon is told, the numbers of    *)
(* one lookup or none (Run, usable).                                       *)
(***************************************************************************)
THEOREM CheckTypesHold == CheckSpec => []CheckTypeOK
<1>1. CheckInv /\ [CheckNext]_checkVars => CheckInv'
  BY CheckNextInv
<1>2. CheckInv => CheckTypeOK
  BY DEF CheckInv, CheckTypes, CheckTypeOK, Answer
<1> QED
  BY <1>1, <1>2, CheckInitInv, PTL DEF CheckSpec

-----------------------------------------------------------------------------
(***************************************************************************)
(* SelfUpgrade, one command at a time.  The binary and the copy kept of it *)
(* are whole files, and .staged, which may be torn, is neither of them; a  *)
(* command runs from the binary until it installs another.  A hard link    *)
(* that fails together with the copy made in its place leaves .previous    *)
(* torn, for a rollback to install.                                        *)
(***************************************************************************)
OneUpgrader == \A u, v \in Upgraders : u = v
NoTornPrevious == \A faults \in UpFaultSets :
    "linkFails" \in faults => faults \cap {"copyFails", "killed"} = {}

Whole(f) == f \in Inodes /\ content[f] # Torn
Keeping == {"fetch", "forget", "link", "keepOpen", "keepCopy"}
Installing == {"open", "copy", "rename"}
Following == {"converge", "restart"}
HasKept(u) ==
    /\ Whole(entry["previous"])
    /\ up[u].cmd = "upgrade" => content[entry["previous"]] = content[up[u].text]
UpCourse(u) ==
    LET s == up[u].step
    IN  /\ s # "idle" => Whole(up[u].text)
        /\ s \in Keeping => up[u].cmd = "upgrade"
        /\ up[u].cmd = "upgrade" /\ s \in Keeping \cup Installing => up[u].tag \in Releases
        /\ s \in Keeping \cup Installing => up[u].text = entry["target"]
        /\ s \in {"link", "keepOpen"} => entry["previous"] = NoFile
        /\ s \in {"keepOpen", "keepCopy"} => "linkFails" \in upFaults
        /\ s = "keepCopy" => /\ up[u].from = entry["target"] /\ up[u].to = entry["previous"]
                             /\ up[u].to \in Inodes \ {entry["target"]}
        /\ s \in Installing => HasKept(u)
        /\ s \in Following /\ up[u].cmd = "upgrade" => HasKept(u)
        /\ s = "copy" => /\ up[u].to = entry["staged"] /\ up[u].to \in Inodes
                         /\ up[u].from = IF up[u].cmd = "upgrade" THEN NoFile
                                         ELSE entry["previous"]
        /\ s = "rename" => Whole(entry["staged"])
BinariesInv ==
    /\ Whole(entry["target"])
    /\ entry["staged"] # NoFile => entry["staged"] \notin {entry["target"], entry["previous"]}
    /\ entry["previous"] # NoFile =>
          Whole(entry["previous"]) \/ \E u \in Upgraders : At(u, "keepCopy")
    /\ \/ upFaults \cap {"restartFails", "killed"} # {}
       \/ daemon \in {NoFile, entry["target"]}
       \/ \E u \in Upgraders : up[u].step \in Following
UpInv == UpgradeTypeOK /\ BinariesInv /\ \A u \in Upgraders : UpCourse(u)

\* The one command goes to a step, with what it has in hand.
UpGoes(u, s) ==
    /\ up' \in [Upgraders -> Upgrader] /\ up'[u].step = s
    /\ up'[u].cmd = up[u].cmd /\ up'[u].tag = up[u].tag /\ up'[u].text = up[u].text
    /\ up'[u].from = up[u].from /\ up'[u].to = up[u].to
UpEnds(u) == up' \in [Upgraders -> Upgrader] /\ up'[u].step = "idle"

LEMMA GoesUp ==
    ASSUME UpgradeTypeOK, NEW u \in Upgraders, NEW s \in UpSteps, Goes_(u, s)
    PROVE  UpGoes(u, s)
BY DEF UpgradeTypeOK, Upgrader, Goes_, Proceeds, UpGoes

LEMMA IdleUpgraderType == IdleUpgrader \in Upgrader /\ IdleUpgrader.step = "idle"
BY DEF IdleUpgrader, Upgrader, UpSteps, MaybeInode

LEMMA EndsUp ==
    ASSUME UpgradeTypeOK, NEW u \in Upgraders, Ends(u)
    PROVE  UpEnds(u)
BY IdleUpgraderType DEF UpgradeTypeOK, Ends, Proceeds, UpEnds

LEMMA UpSuffices ==
    ASSUME OneUpgrader, NEW u \in Upgraders, UpgradeTypeOK', BinariesInv', UpCourse(u)'
    PROVE  UpInv'
BY DEF OneUpgrader, UpInv

\* What holds of the command that moves, and of the types.
LEMMA UpFacts ==
    ASSUME UpInv, NEW u \in Upgraders
    PROVE  /\ UpgradeTypeOK /\ BinariesInv /\ UpCourse(u)
           /\ NoFile \notin Inodes /\ Torn \notin Releases
           /\ up[u] \in Upgrader /\ up[u].text \in MaybeInode /\ up[u].step \in UpSteps
           /\ \A n \in Entries : entry[n] \in Inodes \cup {NoFile}
BY UpgradeAssumption DEF UpInv, UpgradeTypeOK, Upgrader, MaybeInode

\* A command that ends and leaves the files.
LEMMA EndsInv ==
    ASSUME OneUpgrader, UpInv, NEW u \in Upgraders, Ends(u),
           UNCHANGED <<entry, content, unit, upgrades, upFaults>>, daemon' \in MaybeInode,
           ~At(u, "keepCopy"),
           up[u].step \in Following \/ daemon' # daemon =>
               \/ daemon' \in {NoFile, entry["target"]}
               \/ upFaults \cap {"restartFails", "killed"} # {}
    PROVE  UpInv'
<1>1. UpEnds(u)
  BY EndsUp, UpFacts
<1>2. UpgradeTypeOK'
  BY <1>1, UpFacts DEF UpEnds, UpgradeTypeOK
<1>3. UpCourse(u)'
  BY <1>1 DEF UpEnds, UpCourse, Keeping, Installing, Following
<1>4. BinariesInv'
  BY UpFacts DEF BinariesInv, Whole, At, OneUpgrader
<1> QED
  BY <1>2, <1>3, <1>4, UpSuffices

LEMMA StartUpgradeInv ==
    ASSUME OneUpgrader, UpInv, NEW u \in Upgraders, StartUpgrade(u)
    PROVE  UpInv'
<1>0. UNCHANGED <<entry, content, unit, daemon, upFaults>> /\ At(u, "idle")
  BY DEF StartUpgrade
<1> DEFINE Begins(new) ==
        /\ up' = [up EXCEPT ![u] = new]
        /\ new.text = entry["target"]
        /\ \/ new.step = "fetch" /\ new.cmd = "upgrade" /\ new.tag \in Releases
           \/ new.step = "open" /\ new.cmd = "rollback" /\ entry["previous"] # NoFile
<1>1. \E new \in Upgrader : Begins(new)
  <2>1. entry["target"] \in MaybeInode
    BY UpFacts DEF Entries, MaybeInode
  <2>2. ASSUME entry["previous"] # NoFile,
               Proceeds(u, [IdleUpgrader EXCEPT !.step = "open", !.cmd = "rollback",
                                                !.text = entry["target"]])
        PROVE  \E new \in Upgrader : Begins(new)
    <3> DEFINE mine == [IdleUpgrader EXCEPT !.step = "open", !.cmd = "rollback",
                                           !.text = entry["target"]]
    <3>1. mine \in Upgrader /\ mine.step = "open" /\ mine.cmd = "rollback"
          /\ mine.text = entry["target"]
      BY <2>1 DEF IdleUpgrader, Upgrader, UpSteps, MaybeInode
    <3>2. up' = [up EXCEPT ![u] = mine]
      BY <2>2 DEF Proceeds
    <3> HIDE DEF mine
    <3> QED
      BY <2>2, <3>1, <3>2
  <2>3. ASSUME NEW tag \in Releases,
               Proceeds(u, [IdleUpgrader EXCEPT !.step = "fetch", !.tag = tag,
                                                !.text = entry["target"]])
        PROVE  \E new \in Upgrader : Begins(new)
    <3> DEFINE mine == [IdleUpgrader EXCEPT !.step = "fetch", !.tag = tag,
                                           !.text = entry["target"]]
    <3>1. mine \in Upgrader /\ mine.step = "fetch" /\ mine.cmd = "upgrade" /\ mine.tag = tag
          /\ mine.text = entry["target"]
      BY <2>1 DEF IdleUpgrader, Upgrader, UpSteps, MaybeInode
    <3>2. up' = [up EXCEPT ![u] = mine]
      BY <2>3 DEF Proceeds
    <3> HIDE DEF mine
    <3> QED
      BY <2>3, <3>1, <3>2
  <2> QED
    BY <2>2, <2>3 DEF StartUpgrade
<1>2. PICK new \in Upgrader : Begins(new)
  BY <1>1
<1>4. up' \in [Upgraders -> Upgrader] /\ up'[u] = new
  BY <1>2, UpFacts DEF UpgradeTypeOK
<1>5. UpgradeTypeOK'
  <2>1. upgrades' \in 0 .. MaxUpgrades
    BY UpFacts, UpgradeAssumption DEF StartUpgrade, UpgradeTypeOK
  <2> QED
    BY <1>0, <1>4, <2>1, UpFacts DEF UpgradeTypeOK
<1>6. Whole(entry["previous"]) \/ entry["previous"] = NoFile
  BY <1>0, UpFacts DEF BinariesInv, OneUpgrader, At
<1>7. UpCourse(u)'
  BY <1>0, <1>2, <1>4, <1>6, UpFacts
     DEF UpCourse, HasKept, Whole, BinariesInv, Keeping, Installing, Following
<1>8. BinariesInv'
  BY <1>0, <1>6, UpFacts DEF BinariesInv, Whole, At, OneUpgrader, Following
<1> QED
  BY <1>5, <1>7, <1>8, UpSuffices

LEMMA KeepBinaryInv ==
    ASSUME OneUpgrader, UpInv, NEW u \in Upgraders,
           Fetch(u) \/ ForgetPrevious(u) \/ LinkPrevious(u)
    PROVE  UpInv'
<1>0. UNCHANGED <<content, unit, daemon, upgrades, upFaults>>
  BY DEF Fetch, ForgetPrevious, LinkPrevious
<1>1. CASE Fetch(u)
  <2>1. CASE Goes_(u, "forget")
    <3>1. UpGoes(u, "forget") /\ UNCHANGED entry /\ At(u, "fetch")
      BY <1>1, <2>1, GoesUp, UpFacts DEF UpSteps, Fetch
    <3>2. UpgradeTypeOK'
      BY <1>0, <3>1, UpFacts DEF UpGoes, UpgradeTypeOK
    <3>3. UpCourse(u)'
      BY <1>0, <3>1, UpFacts DEF UpGoes, At, UpCourse, Whole, Keeping, Installing, Following
    <3>4. BinariesInv'
      BY <1>0, <3>1, UpFacts DEF BinariesInv, Whole, At, OneUpgrader, Following
    <3> QED
      BY <3>2, <3>3, <3>4, UpSuffices
  <2>2. CASE Ends(u)
    BY <1>1, <2>2, EndsInv, UpFacts DEF Fetch, At, Following, UpgradeTypeOK
  <2> QED
    BY <1>1, <2>1, <2>2 DEF Fetch
<1>2. CASE ForgetPrevious(u)
  <2>1. /\ UpGoes(u, "link") /\ At(u, "forget")
        /\ entry' = [entry EXCEPT !["previous"] = NoFile]
    BY <1>2, GoesUp, UpFacts DEF UpSteps, ForgetPrevious
  <2>2. /\ entry' \in [Entries -> MaybeInode] /\ entry'["previous"] = NoFile
        /\ entry'["target"] = entry["target"] /\ entry'["staged"] = entry["staged"]
    BY <2>1, UpFacts DEF UpgradeTypeOK, Entries, MaybeInode
  <2>3. UpgradeTypeOK'
    BY <1>0, <2>1, <2>2, UpFacts DEF UpGoes, UpgradeTypeOK
  <2>4. UpCourse(u)'
    BY <1>0, <2>1, <2>2, UpFacts DEF UpGoes, At, UpCourse, Whole, Keeping, Installing, Following
  <2>5. BinariesInv'
    BY <1>0, <2>1, <2>2, UpFacts DEF BinariesInv, Whole, At, OneUpgrader, Following
  <2> QED
    BY <2>3, <2>4, <2>5, UpSuffices
<1>3. CASE LinkPrevious(u)
  <2>0. At(u, "link") /\ entry["previous"] = NoFile
    BY <1>3, UpFacts DEF LinkPrevious, At, UpCourse
  <2>1. CASE Goes_(u, "open") /\ entry' = [entry EXCEPT !["previous"] = entry["target"]]
    <3>1. UpGoes(u, "open")
      BY <2>1, GoesUp, UpFacts DEF UpSteps
    <3>2. /\ entry' \in [Entries -> MaybeInode] /\ entry'["previous"] = entry["target"]
          /\ entry'["target"] = entry["target"] /\ entry'["staged"] = entry["staged"]
      BY <2>1, UpFacts DEF UpgradeTypeOK, Entries, MaybeInode
    <3>3. UpgradeTypeOK'
      BY <1>0, <3>1, <3>2, UpFacts DEF UpGoes, UpgradeTypeOK
    <3>4. UpCourse(u)'
      BY <1>0, <2>0, <3>1, <3>2, UpFacts
         DEF UpGoes, At, UpCourse, HasKept, BinariesInv, Whole, Keeping, Installing, Following
    <3>5. BinariesInv'
      BY <1>0, <2>0, <3>1, <3>2, UpFacts DEF BinariesInv, Whole, At, OneUpgrader, Following
    <3> QED
      BY <3>3, <3>4, <3>5, UpSuffices
  <2>2. CASE Goes_(u, "keepOpen") /\ UNCHANGED entry /\ "linkFails" \in upFaults
    <3>1. UpGoes(u, "keepOpen")
      BY <2>2, GoesUp, UpFacts DEF UpSteps
    <3>2. UpgradeTypeOK'
      BY <1>0, <2>2, <3>1, UpFacts DEF UpGoes, UpgradeTypeOK
    <3>3. UpCourse(u)'
      BY <1>0, <2>0, <2>2, <3>1, UpFacts
         DEF UpGoes, At, UpCourse, Whole, Keeping, Installing, Following
    <3>4. BinariesInv'
      BY <1>0, <2>0, <2>2, UpFacts DEF BinariesInv, Whole, At, OneUpgrader, Following
    <3> QED
      BY <3>2, <3>3, <3>4, UpSuffices
  <2> QED
    BY <1>3, <2>0, <2>1, <2>2 DEF LinkPrevious
<1> QED
  BY <1>1, <1>2, <1>3

\* The file that is opened is neither the binary nor the copy kept of it.
LEMMA OpenInv ==
    ASSUME OneUpgrader, UpInv, NEW u \in Upgraders, Open(u)
    PROVE  UpInv'
<1>0. UNCHANGED <<unit, daemon, upgrades, upFaults>>
  BY DEF Open
<1>1. CASE At(u, "keepOpen") /\ OpenFor(u, "previous", entry["target"], "keepCopy")
  <2>0. entry["previous"] = NoFile /\ up[u].text = entry["target"] /\ Whole(entry["target"])
    BY <1>1, UpFacts DEF At, UpCourse, Keeping, BinariesInv
  <2>1. PICK i \in Free :
          /\ entry' = [entry EXCEPT !["previous"] = i]
          /\ content' = [content EXCEPT ![i] = Torn]
          /\ Proceeds(u, [up[u] EXCEPT !.step = "keepCopy", !.from = entry["target"], !.to = i])
    BY <1>1, <2>0, UpFacts DEF OpenFor
  <2>2. i \in Inodes /\ i \notin {entry["target"], entry["staged"]}
    BY <2>1 DEF Free, InUse, Entries
  <2>3. /\ entry' \in [Entries -> MaybeInode] /\ entry'["previous"] = i
        /\ entry'["target"] = entry["target"] /\ entry'["staged"] = entry["staged"]
        /\ content' \in [Inodes -> Releases \cup {Torn}]
        /\ \A f \in Inodes \ {i} : content'[f] = content[f]
    BY <2>1, <2>2, UpFacts DEF UpgradeTypeOK, Entries, MaybeInode
  <2>4. /\ up' \in [Upgraders -> Upgrader] /\ up'[u].step = "keepCopy"
        /\ up'[u].cmd = up[u].cmd /\ up'[u].tag = up[u].tag /\ up'[u].text = up[u].text
        /\ up'[u].from = entry["target"] /\ up'[u].to = i
    <3> DEFINE mine == [up[u] EXCEPT !.step = "keepCopy", !.from = entry["target"], !.to = i]
    <3>1. mine \in Upgrader /\ mine.step = "keepCopy" /\ mine.cmd = up[u].cmd
          /\ mine.tag = up[u].tag /\ mine.text = up[u].text
          /\ mine.from = entry["target"] /\ mine.to = i
      BY <2>2, UpFacts DEF Upgrader, UpSteps, MaybeInode, Entries
    <3>2. up' = [up EXCEPT ![u] = mine]
      BY <2>1 DEF Proceeds
    <3> HIDE DEF mine
    <3> QED
      BY <3>1, <3>2, UpFacts DEF UpgradeTypeOK
  <2>5. UpgradeTypeOK'
    BY <1>0, <2>3, <2>4, UpFacts DEF UpgradeTypeOK
  <2>6. UpCourse(u)'
    BY <1>0, <1>1, <2>0, <2>2, <2>3, <2>4, UpFacts
       DEF At, UpCourse, Whole, Keeping, Installing, Following
  <2>7. BinariesInv'
    BY <1>0, <1>1, <2>0, <2>2, <2>3, <2>4, UpFacts DEF At, BinariesInv, Whole, OneUpgrader, Following
  <2> QED
    BY <2>5, <2>6, <2>7, UpSuffices
<1>2. CASE At(u, "open") /\ OpenFor(u, "staged",
                     IF up[u].cmd = "upgrade" THEN NoFile ELSE entry["previous"], "copy")
  <2> DEFINE from == IF up[u].cmd = "upgrade" THEN NoFile ELSE entry["previous"]
  <2>0. HasKept(u) /\ up[u].text = entry["target"] /\ Whole(entry["target"])
        /\ from \in MaybeInode
    BY <1>2, UpFacts DEF At, UpCourse, Installing, BinariesInv, Entries, MaybeInode
  <2> HIDE DEF from
  <2>1. CASE Ends(u) /\ UNCHANGED <<entry, content>>
    BY <1>0, <1>2, <2>1, EndsInv, UpFacts DEF At, Following, UpgradeTypeOK
  <2>2. ASSUME NEW i \in Inodes, i \notin {entry["target"], entry["previous"]},
               entry' = [entry EXCEPT !["staged"] = i],
               content' = [content EXCEPT ![i] = Torn],
               Proceeds(u, [up[u] EXCEPT !.step = "copy", !.from = from, !.to = i])
        PROVE  UpInv'
    <3>1. /\ entry' \in [Entries -> MaybeInode] /\ entry'["staged"] = i
          /\ entry'["target"] = entry["target"] /\ entry'["previous"] = entry["previous"]
          /\ content' \in [Inodes -> Releases \cup {Torn}]
          /\ \A f \in Inodes \ {i} : content'[f] = content[f]
      BY <2>2, UpFacts DEF UpgradeTypeOK, Entries, MaybeInode
    <3>2. /\ up' \in [Upgraders -> Upgrader] /\ up'[u].step = "copy"
          /\ up'[u].cmd = up[u].cmd /\ up'[u].tag = up[u].tag /\ up'[u].text = up[u].text
          /\ up'[u].from = from /\ up'[u].to = i
      <4> DEFINE mine == [up[u] EXCEPT !.step = "copy", !.from = from, !.to = i]
      <4>1. mine \in Upgrader /\ mine.step = "copy" /\ mine.cmd = up[u].cmd
            /\ mine.tag = up[u].tag /\ mine.text = up[u].text
            /\ mine.from = from /\ mine.to = i
        BY <2>0, <2>2, UpFacts DEF Upgrader, UpSteps, MaybeInode
      <4>2. up' = [up EXCEPT ![u] = mine]
        BY <2>2 DEF Proceeds
      <4> HIDE DEF mine
      <4> QED
        BY <4>1, <4>2, UpFacts DEF UpgradeTypeOK
    <3>3. UpgradeTypeOK'
      BY <1>0, <3>1, <3>2, UpFacts DEF UpgradeTypeOK
    <3>4. HasKept(u)'
      BY <2>0, <2>2, <3>1, <3>2 DEF HasKept, Whole
    <3>5. UpCourse(u)'
      BY <1>0, <1>2, <2>0, <2>2, <3>1, <3>2, <3>4, UpFacts
         DEF At, UpCourse, Whole, Keeping, Installing, Following, from
    <3>6. BinariesInv'
      BY <1>0, <1>2, <2>0, <2>2, <3>1, <3>2, <3>4, UpFacts
         DEF At, BinariesInv, HasKept, Whole, OneUpgrader, Following
    <3> QED
      BY <3>3, <3>5, <3>6, UpSuffices
  <2>3. CASE /\ entry["staged"] = NoFile /\ Free # {}
             /\ LET i == CHOOSE j \in Free : TRUE
                IN  /\ entry' = [entry EXCEPT !["staged"] = i]
                    /\ content' = [content EXCEPT ![i] = Torn]
                    /\ Proceeds(u, [up[u] EXCEPT !.step = "copy", !.from = from, !.to = i])
    <3>1. PICK i \in Free :
            /\ entry' = [entry EXCEPT !["staged"] = i]
            /\ content' = [content EXCEPT ![i] = Torn]
            /\ Proceeds(u, [up[u] EXCEPT !.step = "copy", !.from = from, !.to = i])
      BY <2>3
    <3>2. i \in Inodes /\ i \notin {entry["target"], entry["previous"]}
      BY <3>1 DEF Free, InUse, Entries
    <3> QED
      BY <2>2, <3>1, <3>2
  <2>4. CASE /\ entry["staged"] \in Inodes \ Busy
             /\ content' = [content EXCEPT ![entry["staged"]] = Torn]
             /\ Proceeds(u, [up[u] EXCEPT !.step = "copy", !.from = from,
                                          !.to = entry["staged"]])
             /\ UNCHANGED entry
    <3>1. entry' = [entry EXCEPT !["staged"] = entry["staged"]]
      BY <2>4, UpFacts DEF UpgradeTypeOK, Entries
    <3>2. entry["staged"] \in Inodes /\ entry["staged"] \notin {entry["target"], entry["previous"]}
      BY <2>4, UpFacts DEF BinariesInv
    <3> QED
      BY <2>2, <2>4, <3>1, <3>2
  <2> QED
    BY <1>2, <2>1, <2>3, <2>4 DEF OpenFor, from
<1> QED
  BY <1>1, <1>2 DEF Open

\* Copied is what was to be copied, and it is a release.
LEMMA CopyAllInv ==
    ASSUME OneUpgrader, UpInv, NEW u \in Upgraders, CopyAll(u)
    PROVE  UpInv'
<1> DEFINE i == up[u].to
<1>0. /\ UNCHANGED <<entry, unit, daemon, upgrades, upFaults>>
      /\ content' = [content EXCEPT ![i] = Source(u)]
      /\ up[u].step \in {"keepCopy", "copy"} /\ up[u].text = entry["target"]
      /\ Whole(entry["target"])
  BY UpFacts DEF CopyAll, At, UpCourse, Keeping, Installing, BinariesInv
<1>1. /\ i \in Inodes \ {entry["target"]}
      /\ Source(u) \in Releases
      /\ up[u].step = "keepCopy" => /\ Source(u) = content[entry["target"]]
                                    /\ i = entry["previous"] /\ up[u].cmd = "upgrade"
      /\ up[u].step = "copy" => i = entry["staged"] /\ i # entry["previous"] /\ HasKept(u)
  BY <1>0, UpFacts DEF UpCourse, Source, HasKept, Whole, BinariesInv, UpgradeTypeOK, Keeping, Installing
<1>2. /\ content' \in [Inodes -> Releases \cup {Torn}] /\ content'[i] = Source(u)
      /\ \A f \in Inodes \ {i} : content'[f] = content[f]
  BY <1>0, <1>1, UpFacts DEF UpgradeTypeOK
<1>3. CASE At(u, "keepCopy") /\ Goes_(u, "open")
  <2>1. UpGoes(u, "open")
    BY <1>3, GoesUp, UpFacts DEF UpSteps
  <2>2. UpgradeTypeOK'
    BY <1>0, <1>2, <2>1, UpFacts DEF UpGoes, UpgradeTypeOK
  <2>3. HasKept(u)'
    BY <1>0, <1>1, <1>2, <1>3, <2>1, UpFacts DEF HasKept, Whole, UpGoes, At
  <2>4. UpCourse(u)'
    BY <1>0, <1>1, <1>2, <1>3, <2>1, <2>3, UpFacts
       DEF UpGoes, At, UpCourse, Whole, Keeping, Installing, Following
  <2>5. BinariesInv'
    BY <1>0, <1>1, <1>2, <1>3, <2>1, <2>3, UpFacts
       DEF BinariesInv, HasKept, Whole, At, OneUpgrader, Following
  <2> QED
    BY <2>2, <2>4, <2>5, UpSuffices
<1>4. CASE At(u, "copy") /\ Goes_(u, "rename")
  <2>1. UpGoes(u, "rename")
    BY <1>4, GoesUp, UpFacts DEF UpSteps
  <2>2. UpgradeTypeOK'
    BY <1>0, <1>2, <2>1, UpFacts DEF UpGoes, UpgradeTypeOK
  <2>3. HasKept(u)'
    BY <1>0, <1>1, <1>2, <1>4, <2>1, UpFacts DEF HasKept, Whole, UpGoes, At
  <2>4. UpCourse(u)'
    BY <1>0, <1>1, <1>2, <1>4, <2>1, <2>3, UpFacts
       DEF UpGoes, At, UpCourse, Whole, Keeping, Installing, Following
  <2>5. BinariesInv'
    BY <1>0, <1>1, <1>2, <1>4, <2>1, <2>3, UpFacts
       DEF BinariesInv, HasKept, Whole, At, OneUpgrader, Following
  <2> QED
    BY <2>2, <2>4, <2>5, UpSuffices
<1> QED
  BY <1>3, <1>4 DEF CopyAll

LEMMA InstallStagedInv ==
    ASSUME OneUpgrader, UpInv, NEW u \in Upgraders, InstallStaged(u)
    PROVE  UpInv'
<1>0. UNCHANGED <<content, unit, daemon, upgrades, upFaults>> /\ At(u, "rename")
  BY DEF InstallStaged
<1>1. Whole(entry["staged"]) /\ HasKept(u) /\ Whole(up[u].text)
  BY <1>0, UpFacts DEF At, UpCourse, Installing
<1>2. /\ entry' = [entry EXCEPT !["target"] = entry["staged"], !["staged"] = NoFile]
      /\ UpGoes(u, "converge")
  BY <1>1, GoesUp, UpFacts DEF UpSteps, InstallStaged, Whole
<1>3. /\ entry' \in [Entries -> MaybeInode] /\ entry'["target"] = entry["staged"]
      /\ entry'["staged"] = NoFile /\ entry'["previous"] = entry["previous"]
  BY <1>2, UpFacts DEF UpgradeTypeOK, Entries, MaybeInode
<1>4. UpgradeTypeOK'
  BY <1>0, <1>1, <1>2, <1>3, UpFacts DEF UpGoes, UpgradeTypeOK, Whole
<1>5. HasKept(u)'
  BY <1>0, <1>1, <1>2, <1>3 DEF UpGoes, HasKept, Whole
<1>6. UpCourse(u)'
  BY <1>0, <1>1, <1>2, <1>5, UpFacts DEF UpGoes, UpCourse, Whole, Keeping, Installing, Following
<1>7. BinariesInv'
  BY <1>0, <1>1, <1>2, <1>3, <1>5 DEF UpGoes, BinariesInv, HasKept, Whole, Following
<1> QED
  BY <1>4, <1>6, <1>7, UpSuffices

LEMMA FollowInv ==
    ASSUME OneUpgrader, UpInv, NEW u \in Upgraders,
           ConvergeUnits(u) \/ RestartDaemon(u) \/ RestartFails(u)
    PROVE  UpInv'
<1>0. /\ UNCHANGED <<entry, content, upgrades, upFaults>>
      /\ up[u].step \in Following /\ Whole(up[u].text) /\ entry["target"] \in MaybeInode
  BY UpFacts DEF ConvergeUnits, RestartDaemon, RestartFails, At, UpCourse, Following,
                 Entries, MaybeInode
<1>1. unit' \in Releases \cup {Torn} /\ daemon' \in MaybeInode
  <2>1. Layout(u) \in Releases \cup {Torn}
    BY <1>0, UpFacts DEF Layout, Whole, UpgradeTypeOK
  <2> QED
    BY <1>0, <2>1, UpFacts
       DEF ConvergeUnits, RestartDaemon, RestartFails, UpgradeTypeOK
<1>2. CASE Ends(u)
  <2>1. \/ daemon' \in {NoFile, entry["target"]}
        \/ upFaults \cap {"restartFails", "killed"} # {}
    BY <1>0, <1>2, EndsUp, UpFacts, GoesUp DEF ConvergeUnits, RestartDaemon, RestartFails, UpEnds, UpGoes, UpSteps
  <2>2. UpEnds(u)
    BY <1>2, EndsUp, UpFacts
  <2>3. UpgradeTypeOK'
    BY <1>0, <1>1, <2>2, UpFacts DEF UpEnds, UpgradeTypeOK
  <2>4. UpCourse(u)'
    BY <2>2 DEF UpEnds, UpCourse, Keeping, Installing, Following
  <2>5. BinariesInv'
    BY <1>0, <2>1, UpFacts DEF BinariesInv, Whole, At, OneUpgrader, Following
  <2> QED
    BY <2>3, <2>4, <2>5, UpSuffices
<1>3. CASE Goes_(u, "restart")
  <2>1. UpGoes(u, "restart")
    BY <1>3, GoesUp, UpFacts DEF UpSteps
  <2>2. UpgradeTypeOK'
    BY <1>0, <1>1, <2>1, UpFacts DEF UpGoes, UpgradeTypeOK
  <2>3. UpCourse(u)'
    BY <1>0, <2>1, UpFacts DEF UpGoes, UpCourse, HasKept, Whole, Keeping, Installing, Following
  <2>4. BinariesInv'
    BY <1>0, <2>1, UpFacts DEF UpGoes, BinariesInv, Whole, At, OneUpgrader, Following
  <2> QED
    BY <2>2, <2>3, <2>4, UpSuffices
<1> QED
  BY <1>2, <1>3 DEF ConvergeUnits, RestartDaemon, RestartFails

LEMMA UpgradeInitInv == UpgradeInit => UpInv
<1> SUFFICES ASSUME UpgradeInit PROVE UpInv
  OBVIOUS
<1>1. PICK i \in Inodes, v \in Releases :
        /\ i = CHOOSE j \in Inodes : TRUE
        /\ entry = [n \in Entries |-> IF n = "target" THEN i ELSE NoFile]
        /\ content = [j \in Inodes |-> IF j = i THEN v ELSE Torn]
        /\ up = [u \in Upgraders |-> IdleUpgrader]
        /\ unit \in {v, Torn}
        /\ daemon \in IF unit = Torn THEN {NoFile} ELSE {i, NoFile}
        /\ upgrades = 0
        /\ upFaults \in UpFaultSets
  BY DEF UpgradeInit
<1>2. NoFile \notin Inodes /\ Torn \notin Releases /\ 0 \in 0 .. MaxUpgrades
  BY UpgradeAssumption DEF Torn
<1>3. UpgradeTypeOK
  BY <1>1, <1>2, IdleUpgraderType DEF UpgradeTypeOK, Entries, MaybeInode
<1>4. BinariesInv
  BY <1>1, <1>2 DEF BinariesInv, Whole, Entries
<1>5. \A u \in Upgraders : UpCourse(u)
  BY <1>1, IdleUpgraderType DEF UpCourse, Keeping, Installing, Following
<1> QED
  BY <1>3, <1>4, <1>5 DEF UpInv

LEMMA UpgradeNextInv ==
    ASSUME OneUpgrader, NoTornPrevious, UpInv, [UpgradeNext]_upVars
    PROVE  UpInv'
<1>1. CASE UNCHANGED upVars
  BY <1>1 DEF upVars, UpInv, UpgradeTypeOK, BinariesInv, UpCourse, HasKept, Whole, At
<1>2. ASSUME NEW u \in Upgraders, CopyBreaks(u) \/ UpgradeDies(u)
      PROVE  UpInv'
  <2>1. ~At(u, "keepCopy")
    BY <1>2, UpFacts DEF NoTornPrevious, CopyBreaks, UpgradeDies, At, UpCourse, UpgradeTypeOK
  <2>2. UpgradeDies(u) => "killed" \in upFaults
    BY DEF UpgradeDies
  <2>3. CopyBreaks(u) => up[u].step \notin Following
    BY DEF CopyBreaks, At, Following
  <2> QED
    BY <1>2, <2>1, <2>2, <2>3, EndsInv, UpFacts DEF CopyBreaks, UpgradeDies, UpgradeTypeOK
<1> QED
  BY <1>1, <1>2, StartUpgradeInv, KeepBinaryInv, OpenInv, CopyAllInv, InstallStagedInv, FollowInv
     DEF UpgradeNext

(***************************************************************************)
(* Wherever an upgrade or a rollback fails or dies, there is a whole       *)
(* binary to run and, once one was kept, a whole one to go back to, and a  *)
(* command that ends by itself has not left the daemon behind (Replace,    *)
(* Rollback).                                                              *)
(***************************************************************************)
THEOREM UpgradesSafe ==
    ASSUME OneUpgrader, NoTornPrevious
    PROVE  UpgradeSpec => []UpgradeSafe
<1>1. UpInv /\ [UpgradeNext]_upVars => UpInv'
  BY UpgradeNextInv
<1>2. UpInv => UpgradeSafe
  <2> SUFFICES ASSUME UpInv PROVE UpgradeSafe
    OBVIOUS
  <2>1. TargetRuns
    BY DEF UpInv, BinariesInv, Whole, TargetRuns
  <2>2. PreviousKept
    BY UpFacts DEF UpInv, UpCourse, HasKept, Whole, Installing, Following, PreviousKept
  <2>3. DaemonFollows
    BY DEF UpInv, BinariesInv, At, Following, DaemonFollows
  <2> QED
    BY <2>1, <2>2, <2>3 DEF UpgradeSafe
<1> QED
  BY <1>1, <1>2, UpgradeInitInv, PTL DEF UpgradeSpec

\* Of any number of commands, each runs from a file.
RunsFromFile == \A u \in Upgraders : up[u].step # "idle" => up[u].text \in Inodes
UpTypes == UpgradeTypeOK /\ RunsFromFile

LEMMA UpTypeFacts ==
    ASSUME UpTypes, NEW u \in Upgraders
    PROVE  /\ NoFile \notin Inodes
           /\ up[u] \in Upgrader /\ up[u].text \in MaybeInode /\ up[u].from \in MaybeInode
           /\ up[u].tag \in Releases \cup {Torn}
           /\ up[u].step # "idle" => up[u].text \in Inodes
           /\ entry["target"] \in Inodes /\ entry["previous"] \in MaybeInode
           /\ entry["staged"] \in MaybeInode
           /\ \A f \in Inodes : content[f] \in Releases \cup {Torn}
BY UpgradeAssumption DEF UpTypes, RunsFromFile, UpgradeTypeOK, Upgrader, MaybeInode, Entries

\* One command moves on.
LEMMA ProceedsTypes ==
    ASSUME UpTypes, NEW u \in Upgraders, NEW state \in Upgrader, Proceeds(u, state),
           state.step # "idle" => state.text \in Inodes
    PROVE  up' \in [Upgraders -> Upgrader] /\ RunsFromFile'
BY DEF UpTypes, UpgradeTypeOK, Proceeds, RunsFromFile

LEMMA GoesTypes ==
    ASSUME UpTypes, NEW u \in Upgraders, NEW s \in UpSteps, Goes_(u, s), ~At(u, "idle")
    PROVE  up' \in [Upgraders -> Upgrader] /\ RunsFromFile'
<1>1. PICK state : state = [up[u] EXCEPT !.step = s]
  OBVIOUS
<1>2. state \in Upgrader /\ state.text = up[u].text
  BY <1>1, UpTypeFacts DEF Upgrader
<1>3. Proceeds(u, state)
  BY <1>1 DEF Goes_
<1> QED
  BY <1>2, <1>3, UpTypeFacts, ProceedsTypes DEF At

LEMMA EndsTypes ==
    ASSUME UpTypes, NEW u \in Upgraders, Ends(u)
    PROVE  up' \in [Upgraders -> Upgrader] /\ RunsFromFile'
BY IdleUpgraderType, ProceedsTypes DEF Ends

\* A file copied over, or made anew.
LEMMA OpenTypes ==
    ASSUME UpTypes, NEW u \in Upgraders, ~At(u, "idle"), NEW name \in {"previous", "staged"},
           NEW from \in MaybeInode, NEW step \in UpSteps, OpenFor(u, name, from, step)
    PROVE  /\ entry' \in [Entries -> MaybeInode] /\ entry'["target"] # NoFile
           /\ content' \in [Inodes -> Releases \cup {Torn}]
           /\ up' \in [Upgraders -> Upgrader] /\ RunsFromFile'
<1>1. ASSUME NEW i \in Inodes, Proceeds(u, [up[u] EXCEPT !.step = step, !.from = from, !.to = i])
      PROVE  up' \in [Upgraders -> Upgrader] /\ RunsFromFile'
  <2>1. PICK state : state = [up[u] EXCEPT !.step = step, !.from = from, !.to = i]
    OBVIOUS
  <2>2. state \in Upgrader /\ state.text = up[u].text
    BY <2>1, UpTypeFacts DEF Upgrader, MaybeInode
  <2>3. Proceeds(u, state)
    BY <1>1, <2>1
  <2> QED
    BY <2>2, <2>3, UpTypeFacts, ProceedsTypes DEF At
<1>2. ASSUME NEW i \in Inodes, content' = [content EXCEPT ![i] = Torn]
      PROVE  content' \in [Inodes -> Releases \cup {Torn}]
  BY <1>2 DEF UpTypes, UpgradeTypeOK
<1>3. ASSUME NEW i \in Inodes, entry' = [entry EXCEPT ![name] = i]
      PROVE  entry' \in [Entries -> MaybeInode] /\ entry'["target"] # NoFile
  BY <1>3 DEF UpTypes, UpgradeTypeOK, Entries, MaybeInode
<1>4. UNCHANGED entry => entry' \in [Entries -> MaybeInode] /\ entry'["target"] # NoFile
  BY DEF UpTypes, UpgradeTypeOK
<1>5. UNCHANGED content => content' \in [Inodes -> Releases \cup {Torn}]
  BY DEF UpTypes, UpgradeTypeOK
<1>6. CASE Free # {} /\ \E i : i = (CHOOSE j \in Free : TRUE) /\ entry' = [entry EXCEPT ![name] = i]
             /\ content' = [content EXCEPT ![i] = Torn]
             /\ Proceeds(u, [up[u] EXCEPT !.step = step, !.from = from, !.to = i])
  <2>1. PICK i : i = (CHOOSE j \in Free : TRUE) /\ entry' = [entry EXCEPT ![name] = i]
             /\ content' = [content EXCEPT ![i] = Torn]
             /\ Proceeds(u, [up[u] EXCEPT !.step = step, !.from = from, !.to = i])
    BY <1>6, Zenon
  <2>2. i \in Inodes
    BY <1>6, <2>1 DEF Free
  <2> QED
    BY <1>1, <1>2, <1>3, <2>1, <2>2
<1>7. CASE /\ entry[name] \in Inodes \ Busy
           /\ content' = [content EXCEPT ![entry[name]] = Torn]
           /\ Proceeds(u, [up[u] EXCEPT !.step = step, !.from = from, !.to = entry[name]])
           /\ UNCHANGED entry
  BY <1>1, <1>2, <1>4, <1>7
<1>8. CASE Ends(u) /\ UNCHANGED <<entry, content>>
  BY <1>4, <1>5, <1>8, EndsTypes
<1> QED
  BY <1>6, <1>7, <1>8, Zenon DEF OpenFor

LEMMA UpNextTypes ==
    ASSUME UpTypes, [UpgradeNext]_upVars
    PROVE  UpTypes'
<1> USE UpgradeAssumption
<1>1. ASSUME NEW u \in Upgraders, StartUpgrade(u) PROVE UpTypes'
  <2>1. up' \in [Upgraders -> Upgrader] /\ RunsFromFile'
    <3>1. ASSUME NEW tag \in Releases,
                 Proceeds(u, [IdleUpgrader EXCEPT !.step = "fetch", !.tag = tag,
                                                  !.text = entry["target"]])
          PROVE  up' \in [Upgraders -> Upgrader] /\ RunsFromFile'
      <4>1. PICK state : state = [IdleUpgrader EXCEPT !.step = "fetch", !.tag = tag,
                                                  !.text = entry["target"]]
        OBVIOUS
      <4>2. state \in Upgrader /\ state.text \in Inodes
        BY <4>1, UpTypeFacts DEF IdleUpgrader, Upgrader, UpSteps, MaybeInode
      <4> QED
        BY <3>1, <4>1, <4>2, ProceedsTypes
    <3>2. ASSUME Proceeds(u, [IdleUpgrader EXCEPT !.step = "open", !.cmd = "rollback",
                                                  !.text = entry["target"]])
          PROVE  up' \in [Upgraders -> Upgrader] /\ RunsFromFile'
      <4>1. PICK state : state = [IdleUpgrader EXCEPT !.step = "open", !.cmd = "rollback",
                                                  !.text = entry["target"]]
        OBVIOUS
      <4>2. state \in Upgrader /\ state.text \in Inodes
        BY <4>1, UpTypeFacts DEF IdleUpgrader, Upgrader, UpSteps, MaybeInode
      <4> QED
        BY <3>2, <4>1, <4>2, ProceedsTypes
    <3> QED
      BY <1>1, <3>1, <3>2 DEF StartUpgrade
  <2>2. upgrades' \in 0 .. MaxUpgrades /\ UNCHANGED <<entry, content, unit, daemon, upFaults>>
    BY <1>1 DEF StartUpgrade, UpTypes, UpgradeTypeOK
  <2> QED
    BY <2>1, <2>2 DEF UpTypes, UpgradeTypeOK
<1>2. ASSUME NEW u \in Upgraders, Fetch(u) \/ CopyBreaks(u) \/ RestartFails(u) \/ UpgradeDies(u)
      PROVE  UpTypes'
  <2>1. up' \in [Upgraders -> Upgrader] /\ RunsFromFile'
    <3>1. Ends(u) \/ (Goes_(u, "forget") /\ ~At(u, "idle"))
      BY <1>2 DEF Fetch, CopyBreaks, RestartFails, UpgradeDies, At
    <3>2. "forget" \in UpSteps
      BY DEF UpSteps
    <3> QED
      BY <3>1, <3>2, EndsTypes, GoesTypes
  <2>2. UNCHANGED <<entry, content, unit, daemon, upgrades, upFaults>>
    BY <1>2 DEF Fetch, CopyBreaks, RestartFails, UpgradeDies
  <2> QED
    BY <2>1, <2>2 DEF UpTypes, UpgradeTypeOK
<1>3. ASSUME NEW u \in Upgraders, ForgetPrevious(u) \/ LinkPrevious(u)
      PROVE  UpTypes'
  <2>1. up' \in [Upgraders -> Upgrader] /\ RunsFromFile'
    <3>1. ~At(u, "idle") /\ \E s \in {"link", "open", "keepOpen"} : Goes_(u, s)
      BY <1>3 DEF ForgetPrevious, LinkPrevious, At
    <3>2. {"link", "open", "keepOpen"} \subseteq UpSteps
      BY DEF UpSteps
    <3> QED
      BY <3>1, <3>2, GoesTypes
  <2>2. entry' \in [Entries -> MaybeInode] /\ entry'["target"] # NoFile
    BY <1>3, UpTypeFacts DEF ForgetPrevious, LinkPrevious, UpTypes, UpgradeTypeOK, MaybeInode, Entries
  <2>3. UNCHANGED <<content, unit, daemon, upgrades, upFaults>>
    BY <1>3 DEF ForgetPrevious, LinkPrevious
  <2> QED
    BY <2>1, <2>2, <2>3 DEF UpTypes, UpgradeTypeOK
<1>4. ASSUME NEW u \in Upgraders, Open(u) PROVE UpTypes'
  <2>1. /\ entry' \in [Entries -> MaybeInode] /\ entry'["target"] # NoFile
        /\ content' \in [Inodes -> Releases \cup {Torn}]
        /\ up' \in [Upgraders -> Upgrader] /\ RunsFromFile'
    <3>1. {"keepCopy", "copy"} \subseteq UpSteps /\ NoFile \in MaybeInode /\ Inodes \subseteq MaybeInode
      BY DEF UpSteps, MaybeInode
    <3>2. CASE At(u, "keepOpen") /\ OpenFor(u, "previous", entry["target"], "keepCopy")
      BY <3>1, <3>2, OpenTypes, UpTypeFacts DEF At
    <3>3. ASSUME At(u, "open"), NEW from \in MaybeInode, OpenFor(u, "staged", from, "copy")
          PROVE  /\ entry' \in [Entries -> MaybeInode] /\ entry'["target"] # NoFile
                 /\ content' \in [Inodes -> Releases \cup {Torn}]
                 /\ up' \in [Upgraders -> Upgrader] /\ RunsFromFile'
      BY <3>1, <3>3, OpenTypes DEF At
    <3> QED
      BY <1>4, <3>1, <3>2, <3>3, UpTypeFacts DEF Open
  <2>2. UNCHANGED <<unit, daemon, upgrades, upFaults>>
    BY <1>4 DEF Open
  <2> QED
    BY <2>1, <2>2 DEF UpTypes, UpgradeTypeOK
<1>5. ASSUME NEW u \in Upgraders, CopyAll(u) PROVE UpTypes'
  <2>1. up' \in [Upgraders -> Upgrader] /\ RunsFromFile'
    <3>1. ~At(u, "idle") /\ \E s \in {"open", "rename"} : Goes_(u, s)
      BY <1>5 DEF CopyAll, At
    <3>2. {"open", "rename"} \subseteq UpSteps
      BY DEF UpSteps
    <3> QED
      BY <3>1, <3>2, GoesTypes
  <2>2. Source(u) \in Releases \cup {Torn}
    BY UpTypeFacts DEF Source, MaybeInode
  <2>3. content' \in [Inodes -> Releases \cup {Torn}]
    BY <1>5, <2>2 DEF CopyAll, UpTypes, UpgradeTypeOK
  <2>4. UNCHANGED <<entry, unit, daemon, upgrades, upFaults>>
    BY <1>5 DEF CopyAll
  <2> QED
    BY <2>1, <2>3, <2>4 DEF UpTypes, UpgradeTypeOK
<1>6. ASSUME NEW u \in Upgraders, InstallStaged(u) PROVE UpTypes'
  <2>1. up' \in [Upgraders -> Upgrader] /\ RunsFromFile'
    <3>1. Ends(u) \/ (Goes_(u, "converge") /\ ~At(u, "idle"))
      BY <1>6 DEF InstallStaged, At
    <3>2. "converge" \in UpSteps
      BY DEF UpSteps
    <3> QED
      BY <3>1, <3>2, EndsTypes, GoesTypes
  <2>2. entry' \in [Entries -> MaybeInode] /\ entry'["target"] # NoFile
    BY <1>6, UpTypeFacts DEF InstallStaged, UpTypes, UpgradeTypeOK, MaybeInode, Entries
  <2>3. UNCHANGED <<content, unit, daemon, upgrades, upFaults>>
    BY <1>6 DEF InstallStaged
  <2> QED
    BY <2>1, <2>2, <2>3 DEF UpTypes, UpgradeTypeOK
<1>7. ASSUME NEW u \in Upgraders, ConvergeUnits(u) PROVE UpTypes'
  <2>1. up' \in [Upgraders -> Upgrader] /\ RunsFromFile'
    <3>1. Ends(u) \/ (Goes_(u, "restart") /\ ~At(u, "idle"))
      BY <1>7 DEF ConvergeUnits, At
    <3>2. "restart" \in UpSteps
      BY DEF UpSteps
    <3> QED
      BY <3>1, <3>2, EndsTypes, GoesTypes
  <2>2. Layout(u) \in Releases \cup {Torn}
    BY <1>7, UpTypeFacts DEF ConvergeUnits, At, Layout
  <2>3. unit' \in Releases \cup {Torn}
    BY <1>7, <2>2 DEF ConvergeUnits
  <2>4. daemon' \in MaybeInode
    BY <1>7, UpTypeFacts DEF ConvergeUnits, UpTypes, UpgradeTypeOK, MaybeInode
  <2>5. UNCHANGED <<entry, content, upgrades, upFaults>>
    BY <1>7 DEF ConvergeUnits
  <2> QED
    BY <2>1, <2>3, <2>4, <2>5 DEF UpTypes, UpgradeTypeOK
<1>8. ASSUME NEW u \in Upgraders, RestartDaemon(u) PROVE UpTypes'
  <2>1. up' \in [Upgraders -> Upgrader] /\ RunsFromFile'
    BY <1>8, EndsTypes DEF RestartDaemon
  <2>2. daemon' \in MaybeInode /\ UNCHANGED <<entry, content, unit, upgrades, upFaults>>
    BY <1>8, UpTypeFacts DEF RestartDaemon, MaybeInode
  <2> QED
    BY <2>1, <2>2 DEF UpTypes, UpgradeTypeOK
<1>9. CASE UNCHANGED upVars
  BY <1>9 DEF upVars, UpTypes, UpgradeTypeOK, RunsFromFile
<1> QED
  BY <1>1, <1>2, <1>3, <1>4, <1>5, <1>6, <1>7, <1>8, <1>9 DEF UpgradeNext

(***************************************************************************)
(* A name, a running daemon and a command at work always lead to a binary  *)
(* that exists, and the target is never missing (Replace, replaceWith),    *)
(* however many upgrades and rollbacks run at once.                        *)
(***************************************************************************)
THEOREM UpgradeTypes == UpgradeSpec => []UpgradeTypeOK
<1>1. UpgradeInit => UpTypes
  <2>1. UpgradeInit => UpgradeTypeOK /\ \A u \in Upgraders : up[u] = IdleUpgrader
    <3> SUFFICES ASSUME UpgradeInit PROVE UpgradeTypeOK /\ \A u \in Upgraders : up[u] = IdleUpgrader
      OBVIOUS
    <3>1. PICK i \in Inodes, v \in Releases :
            /\ entry = [n \in Entries |-> IF n = "target" THEN i ELSE NoFile]
            /\ content = [j \in Inodes |-> IF j = i THEN v ELSE Torn]
            /\ up = [u \in Upgraders |-> IdleUpgrader]
            /\ unit \in {v, Torn}
            /\ daemon \in IF unit = Torn THEN {NoFile} ELSE {i, NoFile}
            /\ upgrades = 0
            /\ upFaults \in UpFaultSets
      BY DEF UpgradeInit
    <3>2. NoFile \notin Inodes /\ 0 \in 0 .. MaxUpgrades
      BY UpgradeAssumption
    <3> QED
      BY <3>1, <3>2, IdleUpgraderType DEF UpgradeTypeOK, Entries, MaybeInode
  <2> QED
    BY <2>1, IdleUpgraderType DEF UpTypes, RunsFromFile
<1>2. UpTypes /\ [UpgradeNext]_upVars => UpTypes'
  BY UpNextTypes
<1>3. UpTypes => UpgradeTypeOK
  BY DEF UpTypes
<1> QED
  BY <1>1, <1>2, <1>3, PTL DEF UpgradeSpec

-----------------------------------------------------------------------------
(***************************************************************************)
(* AnalyticsInstall.  What a run has seen to stays so to its end: services *)
(* that run, pieces that are there, a Grafana that answers and takes the   *)
(* password.  Until a run was cut short, nothing is torn, a Prometheus     *)
(* that runs has loaded its job, and a Grafana that runs its drop-in.      *)
(***************************************************************************)
\* The run is past that step.
Done(s) == \E i, j \in 1 .. 23 : i < j /\ InstallOrder[i] = s /\ InstallOrder[j] = inst.step
On(u) == svc[u].enabled /\ svc[u].active
Rebinds(steps) == inst.reload /\ inst.step \in steps

SeenToInv ==
    /\ Done("runExporter") => On("exporter")
    /\ Done("runPrometheus") => On("prometheus")
    /\ Done("runGrafana") => On("grafana")
    /\ Done("job") => nodeJob
    /\ Done("dropIn") => dropIn = inst.addr
    /\ Done("ready") => Reachable(conf)
    /\ Done("promSource") => Authenticated /\ "Prometheus" \in grafana.sources
    /\ Done("load") => conf.plugin
    /\ Done("infinitySource") => Authenticated /\ "infinity" \in grafana.sources
    /\ \A p \in Pieces \ {"key", "list"} : Done(p) => disk[p] # "absent"
    /\ ~InstallAt("idle") => report = "none"
LoadedInv ==
    ~cut =>
      /\ \A p \in Pieces : disk[p] # "torn"
      /\ nodeJob /\ svc["prometheus"].active => conf.job
      /\ dropIn \in Addrs =>
            /\ ~Rebinds({"runGrafana"}) => known = dropIn
            /\ ~Rebinds({"runGrafana", "rebind"}) /\ svc["grafana"].active => conf.addr = dropIn
StackInv == InstallTypeOK /\ SeenToInv /\ LoadedInv /\ InstallsComplete

(* The order of the steps.                                                 *)
LEMMA OrderIs ==
    /\ DOMAIN InstallOrder = 1 .. 24
    /\ \A i, j \in 1 .. 24 : InstallOrder[i] = InstallOrder[j] => i = j
<1>1. DOMAIN InstallOrder = 1 .. 24
  BY DEF InstallOrder
<1>2. ASSUME NEW i \in 1 .. 24, NEW j \in 1 .. 24, InstallOrder[i] = InstallOrder[j]
      PROVE  i = j
  BY <1>2 DEF InstallOrder
<1> QED
  BY <1>1, <1>2

LEMMA StepAfterIs ==
    ASSUME NEW i \in 1 .. 23
    PROVE  StepAfter(InstallOrder[i]) = InstallOrder[i + 1]
<1>1. \A j \in DOMAIN InstallOrder : InstallOrder[j] = InstallOrder[i] <=> j = i
  BY OrderIs
<1>2. (CHOOSE j \in DOMAIN InstallOrder : InstallOrder[j] = InstallOrder[i]) = i
  BY <1>1, OrderIs
<1>3. StepAfter(InstallOrder[i]) =
        InstallOrder[1 + CHOOSE j \in DOMAIN InstallOrder : InstallOrder[j] = InstallOrder[i]]
  BY Zenon DEF StepAfter
<1>4. 1 + i = i + 1
  OBVIOUS
<1> QED
  BY <1>2, <1>3, <1>4, Zenon

LEMMA PCsAre ==
    /\ InstallPCs = {InstallOrder[i] : i \in 1 .. 24}
    /\ InstallOrder[23] = "dashboards" /\ InstallOrder[24] = "idle"
BY OrderIs DEF InstallPCs, InstallOrder

\* Which steps a run at a step is past.
LEMMA DoneIs ==
    ASSUME NEW i \in 1 .. 23, NEW j \in 1 .. 23, inst.step = InstallOrder[j]
    PROVE  Done(InstallOrder[i]) <=> i < j
BY OrderIs DEF Done

LEMMA NothingDone ==
    ASSUME InstallAt("idle") PROVE \A s : ~Done(s)
BY OrderIs, PCsAre DEF Done, InstallAt

LEMMA DoneAt ==
    /\ InstallAt("runGrafana") \/ InstallAt("rebind") => ~Done("ready") /\ ~Done("load")
    /\ InstallAt("rebind") => Done("dropIn") /\ Done("runGrafana")
    /\ InstallAt("secure") => ~Done("promSource") /\ ~Done("infinitySource")
    /\ InstallAt("load") => Done("plugin") /\ Done("ready") /\ Done("runGrafana") /\ ~Done("load")
    /\ InstallAt("dashboards") => \A i \in 1 .. 22 : Done(InstallOrder[i])
<1>1. /\ InstallOrder[14] = "dropIn" /\ InstallOrder[15] = "runGrafana"
      /\ InstallOrder[16] = "rebind" /\ InstallOrder[17] = "ready"
      /\ InstallOrder[18] = "secure" /\ InstallOrder[19] = "promSource"
      /\ InstallOrder[20] = "plugin" /\ InstallOrder[21] = "load"
      /\ InstallOrder[22] = "infinitySource" /\ InstallOrder[23] = "dashboards"
  BY DEF InstallOrder
<1>2. CASE InstallAt("runGrafana")
  <2>1. ~Done(InstallOrder[17]) /\ ~Done(InstallOrder[21])
    BY <1>1, <1>2, DoneIs DEF InstallAt
  <2> QED
    BY <1>1, <1>2, <2>1 DEF InstallAt
<1>3. CASE InstallAt("rebind")
  <2>1. /\ ~Done(InstallOrder[17]) /\ ~Done(InstallOrder[21])
        /\ Done(InstallOrder[14]) /\ Done(InstallOrder[15])
    BY <1>1, <1>3, DoneIs DEF InstallAt
  <2> QED
    BY <1>1, <1>3, <2>1 DEF InstallAt
<1>4. CASE InstallAt("secure")
  <2>1. ~Done(InstallOrder[19]) /\ ~Done(InstallOrder[22])
    BY <1>1, <1>4, DoneIs DEF InstallAt
  <2> QED
    BY <1>1, <1>4, <2>1 DEF InstallAt
<1>5. CASE InstallAt("load")
  <2>1. /\ Done(InstallOrder[20]) /\ Done(InstallOrder[17]) /\ Done(InstallOrder[15])
        /\ ~Done(InstallOrder[21])
    BY <1>1, <1>5, DoneIs DEF InstallAt
  <2> QED
    BY <1>1, <1>5, <2>1 DEF InstallAt
<1>6. CASE InstallAt("dashboards")
  <2>1. \A i \in 1 .. 22 : Done(InstallOrder[i])
    BY <1>1, <1>6, DoneIs DEF InstallAt
  <2> QED
    BY <1>6, <2>1 DEF InstallAt
<1> QED
  BY <1>2, <1>3, <1>4, <1>5, <1>6

\* The run has done the step s, and goes on with the same configuration.
InstallRun == [step : InstallPCs, addr : Addrs, password : Passwords, reload : BOOLEAN]
Advances(s) ==
    /\ inst' \in InstallRun /\ inst'.step # "idle"
    /\ inst'.addr = inst.addr /\ inst'.password = inst.password
    /\ inst'.step = "runGrafana" <=> s = "dropIn"
    /\ inst'.step = "rebind" <=> s = "runGrafana"
    /\ \A t : Done(t)' <=> Done(t) \/ t = s

LEMMA ToAdvances ==
    ASSUME InstallTypeOK, NEW s \in InstallPCs \ {"dashboards", "idle"}, InstallAt(s),
           NEW reload \in BOOLEAN,
           inst' = [inst EXCEPT !.step = StepAfter(s), !.reload = reload]
    PROVE  Advances(s) /\ inst'.reload = reload
<1>1. PICK i \in 1 .. 22 : s = InstallOrder[i]
  BY PCsAre
<1>2. StepAfter(s) = InstallOrder[i + 1] /\ i + 1 \in 2 .. 23
  BY <1>1, StepAfterIs
<1>3. inst \in InstallRun
  BY DEF InstallTypeOK, InstallRun
<1>4. /\ inst' \in InstallRun /\ inst'.step = InstallOrder[i + 1] /\ inst'.addr = inst.addr
      /\ inst'.password = inst.password /\ inst'.reload = reload
  <2>1. InstallOrder[i + 1] \in InstallPCs
    BY <1>2, PCsAre
  <2> QED
    BY <1>2, <1>3, <2>1 DEF InstallRun, InstallAt
<1>5. inst'.step # "idle"
  BY <1>2, <1>4, OrderIs, PCsAre
<1>6. /\ inst'.step = "runGrafana" <=> s = "dropIn"
      /\ inst'.step = "rebind" <=> s = "runGrafana"
  <2>1. /\ InstallOrder[14] = "dropIn" /\ InstallOrder[15] = "runGrafana"
        /\ InstallOrder[16] = "rebind"
    BY DEF InstallOrder
  <2>2. i \in 1 .. 24 /\ i + 1 \in 1 .. 24 /\ 14 \in 1 .. 24 /\ 15 \in 1 .. 24 /\ 16 \in 1 .. 24
    BY <1>1
  <2>3. (i + 1 = 15 <=> i = 14) /\ (i + 1 = 16 <=> i = 15)
    BY <1>1
  <2>4. /\ InstallOrder[i + 1] = InstallOrder[15] <=> i + 1 = 15
        /\ InstallOrder[i] = InstallOrder[14] <=> i = 14
    BY <2>2, OrderIs, Zenon
  <2>5. /\ InstallOrder[i + 1] = InstallOrder[16] <=> i + 1 = 16
        /\ InstallOrder[i] = InstallOrder[15] <=> i = 15
    BY <2>2, OrderIs, Zenon
  <2> QED
    BY <1>1, <1>4, <2>1, <2>3, <2>4, <2>5, Zenon
<1>7. ASSUME NEW t PROVE Done(t)' <=> Done(t) \/ t = s
  <2>1. Done(t) <=> \E k \in 1 .. 23 : k < i /\ InstallOrder[k] = t
    BY <1>1, OrderIs DEF Done, InstallAt
  <2>2. Done(t)' <=> \E k \in 1 .. 23 : k < i + 1 /\ InstallOrder[k] = t
    <3>1. \A j \in 1 .. 23 : j \in 1 .. 24
      OBVIOUS
    <3>2. i + 1 \in 1 .. 23 /\ i + 1 \in 1 .. 24
      BY <1>2
    <3>3. ASSUME NEW j \in 1 .. 23 PROVE InstallOrder[j] = inst'.step <=> j = i + 1
      BY <1>4, <3>1, <3>2, OrderIs, Zenon
    <3>4. Done(t)' <=> \E k, j \in 1 .. 23 : k < j /\ InstallOrder[k] = t /\ InstallOrder[j] = inst'.step
      BY DEF Done
    <3> QED
      BY <3>2, <3>3, <3>4, Zenon
  <2> QED
    BY <1>1, <2>1, <2>2
<1> QED
  BY <1>4, <1>5, <1>6, <1>7 DEF Advances

LEMMA GoesOnAdvances ==
    ASSUME InstallTypeOK, NEW s \in InstallPCs \ {"dashboards", "idle"}, InstallAt(s), GoesOn
    PROVE  Advances(s) /\ inst'.reload = inst.reload /\ report' = report
<1>1. inst \in InstallRun
  BY DEF InstallTypeOK, InstallRun
<1>2. inst' = [inst EXCEPT !.step = StepAfter(s), !.reload = inst.reload]
  BY <1>1 DEF GoesOn, GoesTo, InstallAt, InstallRun
<1>3. inst.reload \in BOOLEAN
  BY <1>1 DEF InstallRun
<1>4. report' = report
  BY DEF GoesOn, GoesTo
<1> QED
  BY <1>2, <1>3, <1>4, ToAdvances

\* The run has ended, without success.
Stops ==
    /\ inst' \in InstallRun /\ inst'.step = "idle"
    /\ report' \in {"failed", "died"}

LEMMA EndStops ==
    ASSUME InstallTypeOK, inst' = [inst EXCEPT !.step = "idle"], report' \in {"failed", "died"}
    PROVE  Stops
<1>1. inst \in InstallRun /\ "idle" \in InstallPCs
  BY PCsAre DEF InstallTypeOK, InstallRun
<1> QED
  BY <1>1 DEF InstallRun, Stops

LEMMA StackStopsInv ==
    ASSUME StackInv, Stops, InstallTypeOK', LoadedInv'
    PROVE  StackInv'
<1>1. InstallAt("idle")' /\ ~Succeeded'
  BY DEF Stops, InstallAt, Succeeded
<1>2. \A s : ~Done(s)'
  BY <1>1, OrderIs, PCsAre DEF Done, InstallAt
<1>3. SeenToInv'
  BY <1>1, <1>2 DEF SeenToInv
<1> QED
  BY <1>1, <1>3 DEF StackInv, InstallsComplete

LEMMA AdvancesInv ==
    ASSUME StackInv, NEW s, Advances(s), ~InstallAt("idle"), report' = report,
           InstallTypeOK', LoadedInv', SeenToInv'
    PROVE  StackInv'
<1>1. ~Succeeded'
  BY DEF StackInv, SeenToInv, Succeeded
<1> QED
  BY <1>1 DEF StackInv, InstallsComplete

LEMMA InstallFacts ==
    ASSUME StackInv
    PROVE  /\ InstallTypeOK /\ SeenToInv /\ LoadedInv /\ inst \in InstallRun
           /\ "absent" \notin Addrs /\ "torn" \notin Addrs
BY InstallAssumption DEF StackInv, InstallTypeOK, InstallRun

\* GivesUp, StepFails and GoesOn, as the lemmas above want them.
LEMMA FailingStops ==
    ASSUME StackInv, GivesUp \/ StepFails
    PROVE  Stops
BY EndStops, InstallFacts DEF GivesUp, StepFails

LEMMA GoingAdvances ==
    ASSUME StackInv, NEW s \in InstallPCs \ {"dashboards", "idle"}, InstallAt(s), GoesOn
    PROVE  /\ Advances(s) /\ inst'.reload = inst.reload /\ report' = report
           /\ ~InstallAt("idle")
BY GoesOnAdvances, InstallFacts DEF InstallAt

Made == Pieces \ {"plugin"}
LEMMA StepsAre ==
    /\ Made \subseteq InstallPCs \ {"dashboards", "idle"}
    /\ {"runExporter", "runPrometheus", "job", "dropIn", "runGrafana", "rebind", "ready",
        "secure", "promSource", "plugin", "load", "infinitySource"}
         \subseteq InstallPCs \ {"dashboards", "idle"}
<1>2. /\ InstallOrder[1] = "tools" /\ InstallOrder[2] = "exporter"
      /\ InstallOrder[3] = "exporterUnit" /\ InstallOrder[4] = "runExporter"
      /\ InstallOrder[5] = "prometheus" /\ InstallOrder[6] = "consoles"
      /\ InstallOrder[7] = "promYML" /\ InstallOrder[8] = "promUnit"
      /\ InstallOrder[9] = "runPrometheus" /\ InstallOrder[10] = "job"
      /\ InstallOrder[11] = "key" /\ InstallOrder[12] = "list"
      /\ InstallOrder[13] = "package" /\ InstallOrder[14] = "dropIn"
  BY DEF InstallOrder
<1>3. /\ InstallOrder[15] = "runGrafana"
      /\ InstallOrder[16] = "rebind" /\ InstallOrder[17] = "ready"
      /\ InstallOrder[18] = "secure" /\ InstallOrder[19] = "promSource"
      /\ InstallOrder[20] = "plugin" /\ InstallOrder[21] = "load"
      /\ InstallOrder[22] = "infinitySource"
  BY DEF InstallOrder
<1> QED
  BY <1>2, <1>3, PCsAre DEF Made, Pieces

LEMMA MakePieceInv ==
    ASSUME StackInv, NEW p \in Made, MakePiece(p)
    PROVE  StackInv'
<1>0. /\ UNCHANGED <<nodeJob, dropIn, known, svc, conf, grafana, installs>>
      /\ InstallAt(p) /\ p \in Pieces /\ p \in InstallPCs \ {"dashboards", "idle"}
  BY StepsAre DEF MakePiece, Made
<1>1. CASE ~Wanted(p) /\ GoesOn /\ UNCHANGED <<disk, cut>>
  <2>1. Advances(p) /\ inst'.reload = inst.reload /\ report' = report /\ ~InstallAt("idle")
    BY <1>0, <1>1, GoingAdvances
  <2>2. InstallTypeOK'
    BY <1>0, <1>1, <2>1, InstallFacts DEF InstallTypeOK, Advances, InstallRun
  <2>3. LoadedInv'
    BY <1>0, <1>1, <2>1, InstallFacts DEF LoadedInv, Rebinds, Advances, Made, Pieces, InstallAt
  <2>4. p \notin {"key", "list"} => disk[p] # "absent"
    BY <1>1 DEF Wanted
  <2>5. SeenToInv'
    BY <1>0, <1>1, <2>1, <2>4, InstallFacts
       DEF SeenToInv, Advances, Made, Pieces, On, Reachable, Authenticated
  <2> QED
    BY <2>1, <2>2, <2>3, <2>5, AdvancesInv
<1>2. CASE disk' = [disk EXCEPT ![p] = "whole"] /\ GoesOn /\ UNCHANGED cut
  <2>1. Advances(p) /\ inst'.reload = inst.reload /\ report' = report /\ ~InstallAt("idle")
    BY <1>0, <1>2, GoingAdvances
  <2>2. /\ disk' \in [Pieces -> {"absent", "torn", "whole"}] /\ disk'[p] = "whole"
        /\ \A q \in Pieces : q # p => disk'[q] = disk[q]
    BY <1>0, <1>2, InstallFacts DEF InstallTypeOK
  <2>3. InstallTypeOK'
    BY <1>0, <1>2, <2>1, <2>2, InstallFacts DEF InstallTypeOK, Advances, InstallRun
  <2>4. LoadedInv'
    BY <1>0, <1>2, <2>1, <2>2, InstallFacts
       DEF LoadedInv, Rebinds, Advances, Made, Pieces, InstallAt
  <2>5. SeenToInv'
    BY <1>0, <1>2, <2>1, <2>2, InstallFacts
       DEF SeenToInv, Advances, Made, Pieces, On, Reachable, Authenticated
  <2> QED
    BY <2>1, <2>3, <2>4, <2>5, AdvancesInv
<1>3. CASE GivesUp /\ UNCHANGED <<disk, cut>>
  <2>1. Stops
    BY <1>3, FailingStops
  <2>2. InstallTypeOK'
    BY <1>0, <1>3, <2>1, InstallFacts DEF InstallTypeOK, Stops, InstallRun
  <2>3. LoadedInv'
    BY <1>0, <1>3, <2>1, InstallFacts DEF LoadedInv, Rebinds, Stops, Made, Pieces, InstallAt
  <2> QED
    BY <2>1, <2>2, <2>3, StackStopsInv
<1>4. CASE /\ Wanted(p) /\ StepFails
           /\ \E left \in {"absent"} \cup IF p \in InPlace \ {"key"} THEN {"torn"} ELSE {} :
                /\ disk' = [disk EXCEPT ![p] = left]
                /\ cut' = (cut \/ left = "torn")
  <2>1. Stops
    BY <1>4, FailingStops
  <2>2. PICK left \in {"absent", "torn"} :
          /\ left = "torn" => p \in InPlace
          /\ disk' = [disk EXCEPT ![p] = left]
          /\ cut' = (cut \/ left = "torn")
    BY <1>4
  <2>3. /\ disk' \in [Pieces -> {"absent", "torn", "whole"}] /\ disk'[p] = left
        /\ \A q \in Pieces : q # p => disk'[q] = disk[q]
    BY <1>0, <2>2, InstallFacts DEF InstallTypeOK
  <2>4. InstallTypeOK'
    BY <1>0, <2>1, <2>2, <2>3, InstallFacts DEF InstallTypeOK, Stops, InstallRun
  <2>5. LoadedInv'
    <3> SUFFICES ASSUME ~cut' PROVE LoadedInv'
      BY DEF LoadedInv
    <3>1. ~cut /\ left = "absent"
      BY <2>2
    <3> QED
      BY <1>0, <2>1, <2>3, <3>1, InstallFacts
         DEF LoadedInv, Rebinds, Stops, Made, Pieces, InstallAt
  <2> QED
    BY <2>1, <2>4, <2>5, StackStopsInv
<1> QED
  BY <1>1, <1>2, <1>3, <1>4 DEF MakePiece

\* What EnsureRunning leaves of the services and of what systemd knows.
LEMMA EnsureRunningIs ==
    ASSUME StackInv, NEW u \in Services, EnsureRunning(u)
    PROVE  /\ svc' \in [Services -> [enabled : BOOLEAN, active : BOOLEAN]]
           /\ On(u)' /\ \A v \in Services : v # u => svc'[v] = svc[v]
           /\ known' \in {known, dropIn} /\ (inst.reload => known' = dropIn)
           /\ IF svc[u].active THEN UNCHANGED conf ELSE Loads(u, dropIn)
<1>1. svc \in [Services -> [enabled : BOOLEAN, active : BOOLEAN]]
  BY InstallFacts DEF InstallTypeOK
<1>2. CASE On(u) /\ known' = (IF inst.reload THEN dropIn ELSE known) /\ UNCHANGED <<svc, conf>>
  BY <1>1, <1>2 DEF On
<1>3. CASE /\ svc' = [svc EXCEPT ![u] = [enabled |-> TRUE, active |-> TRUE]]
           /\ known' = dropIn
           /\ IF svc[u].active THEN UNCHANGED conf ELSE Loads(u, dropIn)
  BY <1>1, <1>3 DEF On
<1> QED
  BY <1>2, <1>3 DEF EnsureRunning, On

LEMMA LoadsIs ==
    ASSUME StackInv, NEW u \in Services, NEW d \in DropIns, Loads(u, d)
    PROVE  /\ conf' \in [job : BOOLEAN, addr : Addrs \cup {"all"}, plugin : BOOLEAN]
           /\ u # "prometheus" => conf'.job = conf.job
           /\ u = "prometheus" => conf'.job = nodeJob
           /\ u # "grafana" => conf'.addr = conf.addr /\ conf'.plugin = conf.plugin
           /\ u = "grafana" => /\ d \in Addrs => conf'.addr = d
                               /\ conf'.plugin = (disk["plugin"] = "whole")
<1>1. /\ conf \in [job : BOOLEAN, addr : Addrs \cup {"all"}, plugin : BOOLEAN]
      /\ nodeJob \in BOOLEAN /\ Bound(d) \in Addrs \cup {"all"}
      /\ d \in Addrs => Bound(d) = d
  BY InstallFacts DEF InstallTypeOK, Bound
<1>2. CASE u = "prometheus"
  <2>1. conf' = [conf EXCEPT !.job = nodeJob]
    BY <1>2 DEF Loads
  <2> QED
    BY <1>1, <1>2, <2>1
<1>3. CASE u = "grafana"
  <2>1. conf' = [conf EXCEPT !.addr = Bound(d), !.plugin = disk["plugin"] = "whole"]
    BY <1>3 DEF Loads
  <2> QED
    BY <1>1, <1>3, <2>1
<1>4. CASE u = "exporter"
  <2>1. conf' = conf
    BY <1>4 DEF Loads
  <2> QED
    BY <1>1, <1>4, <2>1
<1> QED
  BY <1>2, <1>3, <1>4 DEF Services

LEMMA RunServiceInv ==
    ASSUME StackInv, NEW s, NEW u \in Services, RunService(s, u),
           <<s, u>> \in {<<"runExporter", "exporter">>, <<"runPrometheus", "prometheus">>,
                         <<"runGrafana", "grafana">>}
    PROVE  StackInv'
<1>0. /\ UNCHANGED <<disk, nodeJob, dropIn, grafana, installs>>
      /\ InstallAt(s) /\ s \in InstallPCs \ {"dashboards", "idle"}
      /\ s \in {"runExporter", "runPrometheus", "runGrafana"}
      /\ u = "grafana" <=> s = "runGrafana"
      /\ u = "prometheus" <=> s = "runPrometheus"
  BY StepsAre DEF RunService
<1>1. CASE EnsureRunning(u) /\ GoesOn /\ UNCHANGED cut
  <2>1. Advances(s) /\ inst'.reload = inst.reload /\ report' = report /\ ~InstallAt("idle")
    BY <1>0, <1>1, GoingAdvances
  <2>2. /\ svc' \in [Services -> [enabled : BOOLEAN, active : BOOLEAN]]
        /\ On(u)' /\ \A v \in Services : v # u => svc'[v] = svc[v]
        /\ known' \in {known, dropIn} /\ (inst.reload => known' = dropIn)
        /\ IF svc[u].active THEN UNCHANGED conf ELSE Loads(u, dropIn)
    BY <1>1, EnsureRunningIs
  <2>3. /\ conf' \in [job : BOOLEAN, addr : Addrs \cup {"all"}, plugin : BOOLEAN]
        /\ u # "prometheus" => conf'.job = conf.job
        /\ u # "grafana" => conf'.addr = conf.addr /\ conf'.plugin = conf.plugin
        /\ svc[u].active => conf' = conf
        /\ ~svc[u].active => Loads(u, dropIn)
    BY <2>2, LoadsIs, InstallFacts DEF InstallTypeOK
  <2>4. InstallTypeOK'
    BY <1>0, <1>1, <2>1, <2>2, <2>3, InstallFacts DEF InstallTypeOK, Advances, InstallRun
  <2>5. LoadedInv'
    <3> SUFFICES ASSUME ~cut PROVE LoadedInv'
      BY <1>1 DEF LoadedInv
    <3>1. nodeJob /\ svc["prometheus"].active' => conf'.job
      <4>1. u = "prometheus" /\ ~svc[u].active => conf'.job = nodeJob
        BY <2>3, LoadsIs, InstallFacts DEF InstallTypeOK
      <4> QED
        BY <1>0, <2>2, <2>3, <4>1, InstallFacts DEF LoadedInv, Services
    <3>2. dropIn \in Addrs => known' = dropIn
      BY <1>0, <2>2, InstallFacts DEF LoadedInv, Rebinds, InstallAt
    <3>3. ASSUME dropIn \in Addrs, ~Rebinds({"runGrafana", "rebind"})', svc'["grafana"].active
          PROVE  conf'.addr = dropIn
      <4>1. ~Rebinds({"runGrafana", "rebind"})
        BY <1>0, <2>1, <3>3 DEF Rebinds, Advances, InstallAt
      <4>2. CASE u = "grafana" /\ ~svc[u].active
        BY <1>0, <2>3, <3>3, <4>2, LoadsIs, InstallFacts DEF InstallTypeOK
      <4>3. CASE ~(u = "grafana" /\ ~svc[u].active)
        BY <1>0, <2>2, <2>3, <3>3, <4>1, <4>3, InstallFacts DEF LoadedInv, Services
      <4> QED
        BY <4>2, <4>3
    <3> QED
      BY <1>0, <3>1, <3>2, <3>3, InstallFacts DEF LoadedInv
  <2>6. SeenToInv'
    <3>1. s = "runGrafana" => ~Done("ready") /\ ~Done("load")
      BY <1>0, DoneAt
    <3> QED
      BY <1>0, <1>1, <2>1, <2>2, <2>3, <3>1, InstallFacts
         DEF SeenToInv, Advances, On, Reachable, Authenticated, Services, Pieces
  <2> QED
    BY <2>1, <2>4, <2>5, <2>6, AdvancesInv
<1>2. CASE EnsureRunningFails(u)
  <2>1. Stops
    BY <1>2, FailingStops DEF EnsureRunningFails
  <2>2. /\ svc' \in [Services -> [enabled : BOOLEAN, active : BOOLEAN]]
        /\ \A v \in Services : svc'[v].active = svc[v].active
    <3>1. svc \in [Services -> [enabled : BOOLEAN, active : BOOLEAN]]
      BY InstallFacts DEF InstallTypeOK
    <3>2. svc' = svc \/ svc' = [svc EXCEPT ![u].enabled = TRUE]
      BY <1>2 DEF EnsureRunningFails
    <3>3. CASE svc' = svc
      BY <3>1, <3>3
    <3>4. CASE svc' = [svc EXCEPT ![u].enabled = TRUE]
      <4>1. svc' \in [Services -> [enabled : BOOLEAN, active : BOOLEAN]]
        BY <3>1, <3>4
      <4>2. \A v \in Services : svc'[v].active = svc[v].active
        BY <3>1, <3>4
      <4> QED
        BY <4>1, <4>2
    <3> QED
      BY <3>2, <3>3, <3>4
  <2>3. /\ known' \in {known, dropIn} /\ UNCHANGED conf
        /\ cut' \in BOOLEAN
        /\ ~cut' => ~cut /\ ~inst.reload
    BY <1>2 DEF EnsureRunningFails
  <2>4. InstallTypeOK'
    BY <1>0, <2>1, <2>2, <2>3, InstallFacts DEF InstallTypeOK, Stops, InstallRun
  <2>5. LoadedInv'
    BY <1>0, <2>1, <2>2, <2>3, InstallFacts
       DEF LoadedInv, Rebinds, Stops, InstallAt, Services
  <2> QED
    BY <2>1, <2>4, <2>5, StackStopsInv
<1> QED
  BY <1>1, <1>2 DEF RunService

(* Steps that neither write a piece in place nor run a service.            *)
GrafanaOK == grafana \in [password : Passwords \cup {ByHand}, sources : SUBSET Sources,
                          boards : SUBSET Dashboards]
PluginOnly == disk' \in {disk, [disk EXCEPT !["plugin"] = "whole"]}

LEMMA QuietStops ==
    ASSUME StackInv, Stops, UNCHANGED <<nodeJob, dropIn, known, conf, installs, cut>>,
           PluginOnly, GrafanaOK', ~InstallAt("runGrafana"),
           svc' \in [Services -> [enabled : BOOLEAN, active : BOOLEAN]],
           \A u \in Services : svc'[u].active => svc[u].active,
           svc'["grafana"].active => ~InstallAt("rebind")
    PROVE  StackInv'
<1>1. /\ disk' \in [Pieces -> {"absent", "torn", "whole"}]
      /\ \A p \in Pieces : disk'[p] = "torn" => disk[p] = "torn"
  BY InstallFacts DEF PluginOnly, InstallTypeOK, Pieces
<1>2. InstallTypeOK'
  BY <1>1, InstallFacts DEF InstallTypeOK, Stops, InstallRun, GrafanaOK
<1>3. LoadedInv'
  BY <1>1, InstallFacts DEF LoadedInv, Rebinds, Stops, InstallAt, Services
<1> QED
  BY <1>2, <1>3, StackStopsInv

LEMMA QuietAdvances ==
    ASSUME StackInv, UNCHANGED <<nodeJob, dropIn, known, svc, conf, installs, cut>>,
           PluginOnly, GrafanaOK', GoesOn,
           NEW s \in {"job", "dropIn", "rebind", "ready", "secure", "promSource",
                      "plugin", "load", "infinitySource"},
           InstallAt(s),
           s # "secure" => UNCHANGED grafana.password,
           grafana.sources \subseteq grafana'.sources,
           s = "job" => nodeJob,
           s = "dropIn" => dropIn = inst.addr,
           s = "rebind" => ~(inst.reload /\ svc["grafana"].active),
           s = "ready" => Reachable(conf),
           s = "promSource" => Authenticated /\ "Prometheus" \in grafana'.sources,
           s = "plugin" => disk'["plugin"] = "whole",
           s = "load" => conf.plugin,
           s = "infinitySource" => Authenticated /\ "infinity" \in grafana'.sources
    PROVE  StackInv'
<1>0. /\ Advances(s) /\ inst'.reload = inst.reload /\ report' = report
      /\ ~InstallAt("idle")
  BY GoingAdvances, StepsAre
<1>1. /\ disk' \in [Pieces -> {"absent", "torn", "whole"}]
      /\ \A p \in Pieces : /\ disk'[p] = "torn" => disk[p] = "torn"
                           /\ disk'[p] = "absent" => disk[p] = "absent"
  BY InstallFacts DEF PluginOnly, InstallTypeOK, Pieces
<1>2. InstallTypeOK'
  BY <1>0, <1>1, InstallFacts DEF InstallTypeOK, Advances, InstallRun, GrafanaOK
<1>3. LoadedInv'
  <2> SUFFICES ASSUME ~cut PROVE LoadedInv'
    BY DEF LoadedInv
  <2>1. dropIn \in Addrs => known = dropIn
    BY InstallFacts DEF LoadedInv, Rebinds, InstallAt
  <2>2. ASSUME dropIn \in Addrs, ~Rebinds({"runGrafana", "rebind"})', svc["grafana"].active
        PROVE  conf.addr = dropIn
    BY <1>0, <2>2, InstallFacts DEF LoadedInv, Rebinds, InstallAt, Advances
  <2> QED
    BY <1>1, <2>1, <2>2, InstallFacts DEF LoadedInv
<1>4. SeenToInv'
  <2>1. s = "secure" => ~Done("promSource") /\ ~Done("infinitySource")
    BY DoneAt
  <2>2. \A t : Done(t)' <=> Done(t) \/ t = s
    BY <1>0 DEF Advances
  <2>3. Reachable(conf)' = Reachable(conf) /\ (s # "secure" => Authenticated' = Authenticated)
    BY <1>0 DEF Advances, Reachable, Authenticated
  <2> QED
    BY <1>0, <1>1, <2>1, <2>2, <2>3, InstallFacts DEF SeenToInv, Advances, On, Pieces
<1> QED
  BY <1>0, <1>2, <1>3, <1>4, AdvancesInv

LEMMA RestartUnitFailsIs ==
    ASSUME StackInv, NEW u \in Services, RestartUnitFails(u)
    PROVE  /\ Stops /\ UNCHANGED conf
           /\ svc' \in [Services -> [enabled : BOOLEAN, active : BOOLEAN]]
           /\ ~svc'[u].active
           /\ \A v \in Services : svc'[v].active => svc[v].active
<1>1. svc \in [Services -> [enabled : BOOLEAN, active : BOOLEAN]]
  BY InstallFacts DEF InstallTypeOK
<1>2. svc' = [svc EXCEPT ![u].active = FALSE] /\ Stops /\ UNCHANGED conf
  BY FailingStops DEF RestartUnitFails
<1> QED
  BY <1>1, <1>2

LEMMA RestartUnitIs ==
    ASSUME StackInv, NEW u \in Services, RestartUnit(u)
    PROVE  /\ Loads(u, known)
           /\ svc' \in [Services -> [enabled : BOOLEAN, active : BOOLEAN]]
           /\ \A v \in Services : On(v) => On(v)'
           /\ \A v \in Services : v # u => svc'[v] = svc[v]
<1>1. svc \in [Services -> [enabled : BOOLEAN, active : BOOLEAN]]
  BY InstallFacts DEF InstallTypeOK
<1>2. svc' = [svc EXCEPT ![u].active = TRUE] /\ Loads(u, known)
  BY DEF RestartUnit
<1> QED
  BY <1>1, <1>2 DEF On

LEMMA SvcIs ==
    ASSUME StackInv
    PROVE  /\ svc \in [Services -> [enabled : BOOLEAN, active : BOOLEAN]]
           /\ GrafanaOK /\ {"exporter", "prometheus", "grafana"} = Services
BY InstallFacts DEF InstallTypeOK, GrafanaOK, Services

LEMMA AddJobInv ==
    ASSUME StackInv, AddJob
    PROVE  StackInv'
<1>0. UNCHANGED <<disk, dropIn, known, grafana, installs>> /\ InstallAt("job")
  BY DEF AddJob
<1>1. PluginOnly /\ GrafanaOK'
  BY <1>0, SvcIs DEF PluginOnly, GrafanaOK
<1>2. ~InstallAt("runGrafana") /\ ~InstallAt("rebind") /\ ~InstallAt("idle")
  BY <1>0 DEF InstallAt
<1>3. CASE nodeJob /\ GoesOn /\ UNCHANGED <<nodeJob, svc, conf, cut>>
  BY <1>0, <1>1, <1>3, QuietAdvances
<1>4. CASE ~nodeJob /\ StepFails /\ UNCHANGED <<nodeJob, svc, conf, cut>>
  BY <1>0, <1>1, <1>2, <1>4, QuietStops, SvcIs, FailingStops
<1>5. CASE /\ nodeJob' = TRUE
           /\ svc' = [svc EXCEPT !["prometheus"].active = TRUE]
           /\ conf' = [conf EXCEPT !.job = TRUE]
           /\ GoesOn /\ UNCHANGED cut
  <2>1. /\ Advances("job") /\ inst'.reload = inst.reload /\ report' = report
    BY <1>0, <1>5, GoingAdvances, StepsAre
  <2>2. /\ svc' \in [Services -> [enabled : BOOLEAN, active : BOOLEAN]]
        /\ \A u \in Services : On(u) => On(u)'
        /\ \A u \in Services : u # "prometheus" => svc'[u] = svc[u]
    BY <1>5, SvcIs DEF On
  <2>3. /\ conf' \in [job : BOOLEAN, addr : Addrs \cup {"all"}, plugin : BOOLEAN]
        /\ conf'.job /\ conf'.addr = conf.addr /\ conf'.plugin = conf.plugin
    BY <1>5, InstallFacts DEF InstallTypeOK
  <2>4. InstallTypeOK'
    BY <1>0, <1>5, <2>1, <2>2, <2>3, InstallFacts DEF InstallTypeOK, Advances, InstallRun
  <2>5. LoadedInv'
    BY <1>0, <1>5, <2>1, <2>2, <2>3, InstallFacts
       DEF LoadedInv, Rebinds, InstallAt, Advances, Services
  <2>6. SeenToInv'
    <3>1. \A t : Done(t)' <=> Done(t) \/ t = "job"
      BY <2>1 DEF Advances
    <3>2. Reachable(conf)' = Reachable(conf) /\ Authenticated' = Authenticated
      BY <1>0, <2>1, <2>3 DEF Advances, Reachable, Authenticated
    <3> QED
      BY <1>0, <1>2, <1>5, <2>1, <2>2, <2>3, <3>1, <3>2, InstallFacts
         DEF SeenToInv, Advances, Services, Pieces
  <2> QED
    BY <1>2, <2>1, <2>4, <2>5, <2>6, AdvancesInv
<1>6. ASSUME nodeJob' = TRUE, Stops, cut' \in BOOLEAN, ~cut' => ~cut /\ ~svc'["prometheus"].active,
             svc' \in [Services -> [enabled : BOOLEAN, active : BOOLEAN]],
             \A u \in Services : svc'[u].active => svc[u].active, UNCHANGED conf
      PROVE  StackInv'
  <2>1. InstallTypeOK'
    BY <1>0, <1>6, InstallFacts DEF InstallTypeOK, Stops, InstallRun
  <2>2. LoadedInv'
    BY <1>0, <1>2, <1>6, InstallFacts DEF LoadedInv, Rebinds, InstallAt, Stops, Services
  <2> QED
    BY <1>6, <2>1, <2>2, StackStopsInv
<1>7. CASE nodeJob' = TRUE /\ RestartUnitFails("prometheus") /\ UNCHANGED cut
  <2>1. cut' \in BOOLEAN
    BY <1>7, InstallFacts DEF InstallTypeOK
  <2> QED
    BY <1>6, <1>7, <2>1, RestartUnitFailsIs, SvcIs
<1>8. CASE /\ nodeJob' = TRUE
           /\ inst' = [inst EXCEPT !.step = "idle"]
           /\ report' = "died" /\ cut' = TRUE
           /\ UNCHANGED <<svc, conf>>
  BY <1>6, <1>8, EndStops, InstallFacts, SvcIs
<1> QED
  BY <1>3, <1>4, <1>5, <1>7, <1>8 DEF AddJob

LEMMA WriteDropInInv ==
    ASSUME StackInv, WriteDropIn
    PROVE  StackInv'
<1>0. UNCHANGED <<disk, nodeJob, known, svc, conf, grafana, installs>> /\ InstallAt("dropIn")
  BY DEF WriteDropIn
<1>1. PluginOnly /\ GrafanaOK' /\ "dropIn" \in InstallPCs \ {"dashboards", "idle"}
  BY <1>0, SvcIs, StepsAre DEF PluginOnly, GrafanaOK
<1>2. inst.addr \in Addrs /\ ~InstallAt("idle")
  BY <1>0, InstallFacts DEF InstallRun, InstallAt
<1>3. CASE dropIn = inst.addr /\ GoesOn /\ UNCHANGED <<dropIn, cut>>
  BY <1>0, <1>1, <1>3, QuietAdvances
<1>4. CASE /\ dropIn' = inst.addr
           /\ inst' = [inst EXCEPT !.step = "runGrafana", !.reload = TRUE]
           /\ UNCHANGED <<report, cut>>
  <2>1. StepAfter("dropIn") = "runGrafana"
    <3>1. InstallOrder[14] = "dropIn" /\ InstallOrder[15] = "runGrafana"
      BY DEF InstallOrder
    <3>2. StepAfter(InstallOrder[14]) = InstallOrder[14 + 1]
      BY StepAfterIs
    <3> QED
      BY <3>1, <3>2
  <2>2. inst' = [inst EXCEPT !.step = StepAfter("dropIn"), !.reload = TRUE]
    BY <1>4, <2>1
  <2>3. Advances("dropIn") /\ inst'.reload = TRUE
    BY <1>0, <1>1, <2>2, ToAdvances, InstallFacts
  <2>4. InstallTypeOK'
    BY <1>0, <1>2, <1>4, <2>3, InstallFacts DEF InstallTypeOK, Advances, InstallRun, DropIns
  <2>5. inst'.step = "runGrafana"
    BY <2>3 DEF Advances
  <2>6. LoadedInv'
    BY <1>0, <1>4, <2>3, <2>5, InstallFacts DEF LoadedInv, Rebinds
  <2>7. SeenToInv'
    <3>1. \A t : Done(t)' <=> Done(t) \/ t = "dropIn"
      BY <2>3 DEF Advances
    <3>2. Reachable(conf)' = Reachable(conf) /\ Authenticated' = Authenticated
      BY <1>0, <2>3 DEF Advances, Reachable, Authenticated
    <3> QED
      BY <1>0, <1>2, <1>4, <2>3, <3>1, <3>2, InstallFacts
         DEF SeenToInv, Advances, On, Pieces
  <2> QED
    BY <1>2, <1>4, <2>3, <2>4, <2>6, <2>7, AdvancesInv
<1>5. CASE StepFails /\ dropIn' \in {dropIn, "torn"} /\ UNCHANGED cut
  <2>1. Stops
    BY <1>5, FailingStops
  <2>2. InstallTypeOK'
    BY <1>0, <1>5, <2>1, InstallFacts DEF InstallTypeOK, Stops, InstallRun, DropIns
  <2>3. LoadedInv'
    BY <1>0, <1>5, <2>1, InstallFacts DEF LoadedInv, Rebinds, InstallAt, Stops
  <2> QED
    BY <2>1, <2>2, <2>3, StackStopsInv
<1> QED
  BY <1>3, <1>4, <1>5 DEF WriteDropIn

\* A Grafana that was restarted has loaded what systemd knows.
LEMMA GrafanaRestartedInv ==
    ASSUME StackInv, NEW s \in {"rebind", "load"}, InstallAt(s),
           UNCHANGED <<disk, nodeJob, dropIn, known, grafana, cut, installs>>,
           RestartUnit("grafana"),
           \/ GoesOn /\ (s = "load" => Reachable(conf'))
           \/ Stops
    PROVE  StackInv'
<1>1. /\ Loads("grafana", known)
      /\ svc' \in [Services -> [enabled : BOOLEAN, active : BOOLEAN]]
      /\ \A v \in Services : On(v) => On(v)'
      /\ \A v \in Services : v # "grafana" => svc'[v] = svc[v]
  BY RestartUnitIs, SvcIs
<1>2. /\ conf' \in [job : BOOLEAN, addr : Addrs \cup {"all"}, plugin : BOOLEAN]
      /\ conf'.job = conf.job
      /\ known \in Addrs => conf'.addr = known
      /\ conf'.plugin = (disk["plugin"] = "whole")
  BY <1>1, LoadsIs, SvcIs, InstallFacts DEF InstallTypeOK
<1>3. ~cut => /\ \A p \in Pieces : disk[p] # "torn"
              /\ nodeJob /\ svc'["prometheus"].active => conf'.job
              /\ dropIn \in Addrs => known = dropIn /\ conf'.addr = dropIn
  BY <1>1, <1>2, SvcIs, InstallFacts DEF LoadedInv, Rebinds, InstallAt
<1>4. CASE GoesOn /\ (s = "load" => Reachable(conf'))
  <2>1. /\ Advances(s) /\ inst'.reload = inst.reload /\ report' = report
        /\ ~InstallAt("idle")
    BY <1>4, GoingAdvances, StepsAre
  <2>2. InstallTypeOK'
    BY <1>1, <1>2, <2>1, InstallFacts DEF InstallTypeOK, Advances, InstallRun
  <2>3. LoadedInv'
    BY <1>3 DEF LoadedInv
  <2>4. SeenToInv'
    <3>1. \A t : Done(t)' <=> Done(t) \/ t = s
      BY <2>1 DEF Advances
    <3>2. Authenticated' = Authenticated
      BY <2>1 DEF Advances, Authenticated
    <3>3. /\ s = "rebind" => ~Done("ready") /\ ~Done("load")
          /\ s = "load" => Done("plugin") /\ ~Done("load")
      BY DoneAt
    <3>4. s = "load" => Reachable(conf)' /\ conf'.plugin
      <4>1. SUFFICES ASSUME s = "load" PROVE Reachable(conf)' /\ conf'.plugin
        OBVIOUS
      <4>2. disk["plugin"] = "whole"
        BY <3>3, <4>1, InstallFacts DEF SeenToInv, InstallTypeOK, Pieces, InPlace
      <4>3. Reachable(conf)'
        BY <1>4, <2>1, <4>1 DEF Reachable, Advances
      <4> QED
        BY <1>2, <4>2, <4>3
    <3> QED
      BY <1>1, <1>2, <2>1, <3>1, <3>2, <3>3, <3>4, SvcIs, InstallFacts
         DEF SeenToInv, Advances, Pieces
  <2> QED
    BY <2>1, <2>2, <2>3, <2>4, AdvancesInv
<1>5. CASE Stops
  <2>1. InstallTypeOK'
    BY <1>1, <1>2, <1>5, InstallFacts DEF InstallTypeOK, Stops, InstallRun
  <2>2. LoadedInv'
    BY <1>3 DEF LoadedInv
  <2> QED
    BY <1>5, <2>1, <2>2, StackStopsInv
<1> QED
  BY <1>4, <1>5

LEMMA RebindInv ==
    ASSUME StackInv, Rebind
    PROVE  StackInv'
<1>0. /\ UNCHANGED <<disk, nodeJob, dropIn, known, grafana, cut, installs>>
      /\ InstallAt("rebind") /\ ~InstallAt("runGrafana")
  BY DEF Rebind, InstallAt
<1>1. PluginOnly /\ GrafanaOK'
  BY <1>0, SvcIs DEF PluginOnly, GrafanaOK
<1>2. CASE ~(inst.reload /\ svc["grafana"].active) /\ GoesOn /\ UNCHANGED <<svc, conf>>
  BY <1>0, <1>1, <1>2, QuietAdvances
<1>3. CASE RestartUnit("grafana") /\ GoesOn
  BY <1>0, <1>3, GrafanaRestartedInv
<1>4. CASE RestartUnitFails("grafana")
  BY <1>0, <1>1, <1>4, RestartUnitFailsIs, QuietStops, SvcIs
<1> QED
  BY <1>2, <1>3, <1>4 DEF Rebind

LEMMA LoadPluginInv ==
    ASSUME StackInv, LoadPlugin
    PROVE  StackInv'
<1>0. /\ UNCHANGED <<disk, nodeJob, dropIn, known, grafana, cut, installs>>
      /\ InstallAt("load") /\ ~InstallAt("runGrafana") /\ ~InstallAt("rebind")
  BY DEF LoadPlugin, InstallAt
<1>1. PluginOnly /\ GrafanaOK'
  BY <1>0, SvcIs DEF PluginOnly, GrafanaOK
<1>2. CASE conf.plugin /\ GoesOn /\ UNCHANGED <<svc, conf>>
  BY <1>0, <1>1, <1>2, QuietAdvances
<1>3. CASE StepFails /\ UNCHANGED <<svc, conf>>
  BY <1>0, <1>1, <1>3, FailingStops, QuietStops, SvcIs
<1>4. CASE /\ RestartUnit("grafana")
           /\ ((Reachable(conf') /\ GoesOn) \/ (~Reachable(conf') /\ GivesUp) \/ StepFails)
  BY <1>0, <1>4, FailingStops, GrafanaRestartedInv
<1>5. CASE RestartUnitFails("grafana")
  BY <1>0, <1>1, <1>5, RestartUnitFailsIs, QuietStops, SvcIs
<1> QED
  BY <1>2, <1>3, <1>4, <1>5 DEF LoadPlugin

LEMMA AwaitGrafanaInv ==
    ASSUME StackInv, AwaitGrafana
    PROVE  StackInv'
<1>0. /\ UNCHANGED <<disk, nodeJob, dropIn, known, svc, conf, grafana, cut, installs>>
      /\ InstallAt("ready") /\ ~InstallAt("runGrafana") /\ ~InstallAt("rebind")
  BY DEF AwaitGrafana, InstallAt
<1>1. PluginOnly /\ GrafanaOK'
  BY <1>0, SvcIs DEF PluginOnly, GrafanaOK
<1>2. CASE Reachable(conf) /\ GoesOn
  BY <1>0, <1>1, <1>2, QuietAdvances
<1>3. CASE GivesUp \/ StepFails
  BY <1>0, <1>1, <1>3, FailingStops, QuietStops, SvcIs
<1> QED
  BY <1>2, <1>3 DEF AwaitGrafana

LEMMA SecureGrafanaInv ==
    ASSUME StackInv, SecureGrafana
    PROVE  StackInv'
<1>0. /\ UNCHANGED <<disk, nodeJob, dropIn, known, svc, conf, cut, installs>>
      /\ InstallAt("secure") /\ ~InstallAt("runGrafana") /\ ~InstallAt("rebind")
  BY DEF SecureGrafana, InstallAt
<1>1. /\ PluginOnly /\ GrafanaOK' /\ grafana.sources \subseteq grafana'.sources
  <2>1. \/ UNCHANGED grafana
        \/ grafana' = [grafana EXCEPT !.password = inst.password]
    BY DEF SecureGrafana
  <2>2. inst.password \in Passwords
    BY InstallFacts DEF InstallRun
  <2> QED
    BY <1>0, <2>1, <2>2, SvcIs DEF PluginOnly, GrafanaOK
<1>2. CASE GoesOn
  BY <1>0, <1>1, <1>2, QuietAdvances
<1>3. CASE GivesUp \/ StepFails
  BY <1>0, <1>1, <1>3, FailingStops, QuietStops, SvcIs
<1> QED
  BY <1>2, <1>3 DEF SecureGrafana

LEMMA ConfigureInv ==
    ASSUME StackInv, NEW s, NEW name, Configure(s, name),
           <<s, name>> \in {<<"promSource", "Prometheus">>, <<"infinitySource", "infinity">>}
    PROVE  StackInv'
<1>0. /\ UNCHANGED <<disk, nodeJob, dropIn, known, svc, conf, cut, installs>>
      /\ InstallAt(s) /\ ~InstallAt("runGrafana") /\ ~InstallAt("rebind")
      /\ s \in {"promSource", "infinitySource"} /\ name \in Sources
  BY DEF Configure, InstallAt, Sources
<1>2. /\ PluginOnly /\ GrafanaOK' /\ grafana.sources \subseteq grafana'.sources
      /\ UNCHANGED grafana.password
  <2>1. \/ UNCHANGED grafana
        \/ grafana' = [grafana EXCEPT !.sources = @ \cup {name}]
    BY DEF Configure
  <2> QED
    BY <1>0, <2>1, SvcIs DEF PluginOnly, GrafanaOK
<1>3. CASE GoesOn /\ Authenticated /\ name \in grafana'.sources
  BY <1>0, <1>2, <1>3, QuietAdvances
<1>4. CASE GivesUp \/ StepFails
  BY <1>0, <1>2, <1>4, FailingStops, QuietStops, SvcIs
<1>5. ASSUME GoesOn, ~(GivesUp \/ StepFails) PROVE Authenticated /\ name \in grafana'.sources
  BY <1>5, SvcIs DEF Configure, GrafanaOK
<1> QED
  BY <1>3, <1>4, <1>5 DEF Configure

LEMMA InstallPluginInv ==
    ASSUME StackInv, InstallPlugin
    PROVE  StackInv'
<1>0. /\ UNCHANGED <<nodeJob, dropIn, known, svc, conf, grafana, cut, installs>>
      /\ InstallAt("plugin") /\ ~InstallAt("runGrafana") /\ ~InstallAt("rebind")
  BY DEF InstallPlugin, InstallAt
<1>1. PluginOnly /\ GrafanaOK'
  BY <1>0, SvcIs DEF InstallPlugin, PluginOnly, GrafanaOK
<1>2. CASE disk' = [disk EXCEPT !["plugin"] = "whole"] /\ GoesOn
  <2>1. disk'["plugin"] = "whole"
    BY <1>2, InstallFacts DEF InstallTypeOK, Pieces
  <2> QED
    BY <1>0, <1>1, <1>2, <2>1, QuietAdvances
<1>3. CASE StepFails
  BY <1>0, <1>1, <1>3, FailingStops, QuietStops, SvcIs
<1> QED
  BY <1>2, <1>3 DEF InstallPlugin

\* The only step a run succeeds with: all the others are behind it.
LEMMA ImportDashboardsInv ==
    ASSUME StackInv, ImportDashboards
    PROVE  StackInv'
<1>0. /\ UNCHANGED <<disk, nodeJob, dropIn, known, svc, conf, cut, installs>>
      /\ InstallAt("dashboards") /\ ~InstallAt("runGrafana") /\ ~InstallAt("rebind")
      /\ inst' = [inst EXCEPT !.step = "idle"] /\ report' \in {"installed", "warned"}
  BY DEF ImportDashboards, InstallAt
<1>1. /\ GrafanaOK' /\ grafana'.password = grafana.password
      /\ grafana'.sources = grafana.sources
      /\ report' = "installed" => grafana'.boards = Dashboards
  BY SvcIs DEF ImportDashboards, GrafanaOK
<1>2. /\ inst' \in InstallRun /\ inst'.step = "idle" /\ inst'.addr = inst.addr
      /\ inst'.password = inst.password /\ inst'.reload = inst.reload
  BY <1>0, PCsAre, InstallFacts DEF InstallRun
<1>3. InstallTypeOK'
  BY <1>0, <1>1, <1>2, InstallFacts DEF InstallTypeOK, InstallRun, GrafanaOK
<1>4. LoadedInv'
  BY <1>0, <1>2, InstallFacts DEF LoadedInv, Rebinds, InstallAt
<1>5. SeenToInv'
  <2>1. InstallAt("idle")'
    BY <1>2 DEF InstallAt
  <2>2. \A s : ~Done(s)'
    BY <1>2, OrderIs, PCsAre DEF Done
  <2> QED
    BY <2>1, <2>2 DEF SeenToInv
<1>6. \A s \in InstallPCs \ {"dashboards", "idle"} : Done(s)
  BY <1>0, DoneAt, PCsAre
<1>7. /\ On("exporter") /\ On("prometheus") /\ On("grafana")
      /\ nodeJob /\ dropIn = inst.addr /\ Reachable(conf)
      /\ Authenticated /\ {"Prometheus", "infinity"} \subseteq grafana.sources
      /\ conf.plugin
      /\ \A p \in Pieces \ {"key", "list"} : disk[p] # "absent"
  BY <1>6, StepsAre, InstallFacts DEF SeenToInv, Made, Pieces
<1>8. grafana.sources = Sources
  BY <1>7, SvcIs DEF GrafanaOK, Sources
<1>9. ~cut => InEffect
  BY <1>0, <1>7, InstallFacts
     DEF LoadedInv, Rebinds, InEffect, On, InstallTypeOK, InstallAt, Pieces, InstallRun
<1>10. InstallsComplete'
  <2>1. Reachable(conf)'
    BY <1>0, <1>2, <1>7 DEF Reachable
  <2>2. ~cut' => InEffect'
    BY <1>0, <1>2, <1>9 DEF InEffect
  <2>3. \A u \in Services : svc'[u].enabled /\ svc'[u].active
    BY <1>0, <1>7 DEF On, Services
  <2> QED
    BY <1>0, <1>1, <1>2, <1>7, <1>8, <2>1, <2>2, <2>3 DEF InstallsComplete, Authenticated
<1> QED
  BY <1>3, <1>4, <1>5, <1>10 DEF StackInv

LEMMA BeginInstallInv ==
    ASSUME StackInv, BeginInstall
    PROVE  StackInv'
<1>0. /\ UNCHANGED <<disk, nodeJob, dropIn, known, svc, conf, grafana, cut>>
      /\ InstallAt("idle") /\ report' = "none" /\ inst'.step = "tools"
      /\ installs' = installs + 1 /\ installs < MaxInstalls
      /\ inst' \in InstallRun
  <2>1. "tools" \in InstallPCs
    BY StepsAre DEF Made, Pieces
  <2> QED
    BY <2>1 DEF BeginInstall, InstallRun
<1>1. InstallTypeOK'
  BY <1>0, InstallAssumption, InstallFacts DEF InstallTypeOK, InstallRun
<1>2. LoadedInv'
  BY <1>0, InstallFacts DEF LoadedInv, Rebinds, InstallAt
<1>3. \A s : ~Done(s)'
  <2>1. InstallOrder[1] = "tools"
    BY DEF InstallOrder
  <2> QED
    BY <1>0, <2>1, OrderIs DEF Done
<1>4. SeenToInv' /\ ~Succeeded'
  BY <1>0, <1>3 DEF SeenToInv, Succeeded
<1> QED
  BY <1>1, <1>2, <1>4 DEF StackInv, InstallsComplete

LEMMA InstallKilledInv ==
    ASSUME StackInv, InstallKilled
    PROVE  StackInv'
<1>0. /\ UNCHANGED <<nodeJob, known, svc, conf, grafana, installs>>
      /\ ~InstallAt("idle")
  BY DEF InstallKilled
<1>1. Stops
  BY EndStops, InstallFacts DEF InstallKilled
<1>2. CASE /\ inst.step \in InPlace /\ Wanted(inst.step)
           /\ disk' = [disk EXCEPT ![inst.step] = "torn"]
           /\ cut' = TRUE /\ UNCHANGED dropIn
  <2>1. InstallTypeOK'
    BY <1>0, <1>1, <1>2, InstallFacts DEF InstallTypeOK, Stops, InstallRun, InPlace, Pieces
  <2>2. LoadedInv'
    BY <1>2 DEF LoadedInv
  <2> QED
    BY <1>1, <2>1, <2>2, StackStopsInv
<1>3. CASE InstallAt("dropIn") /\ dropIn' = "torn" /\ UNCHANGED <<disk, cut>>
  <2>1. InstallTypeOK'
    BY <1>0, <1>1, <1>3, InstallFacts DEF InstallTypeOK, Stops, InstallRun, DropIns
  <2>2. LoadedInv'
    BY <1>0, <1>3, InstallFacts DEF LoadedInv
  <2> QED
    BY <1>1, <2>1, <2>2, StackStopsInv
<1>4. CASE /\ cut' = (cut \/ (inst.reload /\ inst.step \in {"runGrafana", "rebind"}))
           /\ UNCHANGED <<disk, dropIn>>
  <2>1. InstallTypeOK'
    BY <1>0, <1>1, <1>4, InstallFacts DEF InstallTypeOK, Stops, InstallRun
  <2>2. LoadedInv'
    <3> SUFFICES ASSUME ~cut' PROVE LoadedInv'
      BY DEF LoadedInv
    <3>1. ~cut /\ ~(inst.reload /\ inst.step \in {"runGrafana", "rebind"})
      BY <1>4
    <3> QED
      BY <1>0, <1>4, <3>1, InstallFacts DEF LoadedInv, Rebinds
  <2> QED
    BY <1>1, <2>1, <2>2, StackStopsInv
<1> QED
  BY <1>2, <1>3, <1>4 DEF InstallKilled

LEMMA ServiceDiesInv ==
    ASSUME StackInv, ServiceDies
    PROVE  StackInv'
<1>0. /\ UNCHANGED <<disk, nodeJob, dropIn, known, conf, grafana, inst, cut, installs>>
      /\ InstallAt("idle") /\ report' = "none"
  BY DEF ServiceDies
<1>1. /\ svc' \in [Services -> [enabled : BOOLEAN, active : BOOLEAN]]
      /\ \A u \in Services : svc'[u].active => svc[u].active
  BY SvcIs DEF ServiceDies
<1>2. InstallTypeOK' /\ ~Succeeded'
  BY <1>0, <1>1, InstallFacts DEF InstallTypeOK, Succeeded
<1>3. LoadedInv'
  BY <1>0, <1>1, SvcIs, InstallFacts DEF LoadedInv, Rebinds
<1>4. SeenToInv'
  <2>1. \A s : ~Done(s)'
    BY <1>0, NothingDone DEF Done
  <2> QED
    BY <1>0, <2>1 DEF SeenToInv
<1> QED
  BY <1>2, <1>3, <1>4 DEF StackInv, InstallsComplete

LEMMA InstallInitInv ==
    ASSUME Addrs # {}, InstallInit
    PROVE  StackInv
<1>1. PICK prom, graf, boots \in BOOLEAN, pw \in Passwords \cup {ByHand} :
        /\ graf \/ pw = DefaultPassword
        /\ prom \/ graf \/ boots
        /\ disk = [p \in Pieces |->
                     IF \/ prom /\ p \in {"prometheus", "promYML", "promUnit"}
                        \/ graf /\ p = "package"
                     THEN "whole" ELSE "absent"]
        /\ nodeJob = FALSE
        /\ dropIn = "absent" /\ known = "absent"
        /\ svc = [u \in Services |->
                    LET there == \/ prom /\ u = "prometheus"
                                 \/ graf /\ u = "grafana"
                    IN  [enabled |-> there /\ boots, active |-> there]]
        /\ conf = [job |-> FALSE, addr |-> "all", plugin |-> FALSE]
        /\ grafana = [password |-> pw, sources |-> {}, boards |-> {}]
        /\ inst = [step |-> "idle", addr |-> CHOOSE a \in Addrs : TRUE,
                   password |-> DefaultPassword, reload |-> FALSE]
        /\ report = "none" /\ cut = FALSE /\ installs = 0
  BY Zenon DEF InstallInit
<1>2. /\ inst \in InstallRun /\ InstallAt("idle")
  <2>1. (CHOOSE a \in Addrs : TRUE) \in Addrs
    OBVIOUS
  <2> QED
    BY <1>1, <2>1, PCsAre, InstallAssumption DEF InstallRun, InstallAt, DefaultPassword
<1>3. svc \in [Services -> [enabled : BOOLEAN, active : BOOLEAN]]
  BY <1>1
<1>4. /\ disk \in [Pieces -> {"absent", "torn", "whole"}]
      /\ \A p \in Pieces : disk[p] # "torn"
  BY <1>1
<1>5. InstallTypeOK
  <2>1. nodeJob \in BOOLEAN /\ cut \in BOOLEAN /\ dropIn \in DropIns /\ known \in DropIns
    BY <1>1 DEF DropIns
  <2>2. conf \in [job : BOOLEAN, addr : Addrs \cup {"all"}, plugin : BOOLEAN]
    BY <1>1
  <2>3. grafana \in [password : Passwords \cup {ByHand}, sources : SUBSET Sources,
                     boards : SUBSET Dashboards]
    BY <1>1
  <2>4. installs \in 0 .. MaxInstalls /\ report = "none"
    BY <1>1, InstallAssumption
  <2> QED
    BY <1>2, <1>3, <1>4, <2>1, <2>2, <2>3, <2>4 DEF InstallTypeOK, InstallRun
<1>6. SeenToInv
  BY <1>2, NothingDone DEF SeenToInv
<1>7. LoadedInv
  BY <1>1, <1>4, InstallAssumption DEF LoadedInv
<1>8. ~Succeeded
  BY <1>1 DEF Succeeded
<1> QED
  BY <1>5, <1>6, <1>7, <1>8 DEF StackInv, InstallsComplete

LEMMA InstallNextInv ==
    ASSUME StackInv, [InstallNext]_installVars
    PROVE  StackInv'
<1>1. CASE UNCHANGED installVars
  <2>1. UNCHANGED <<disk, nodeJob, dropIn, known, svc, conf, grafana, inst, report, cut, installs>>
    BY <1>1 DEF installVars
  <2>2. InstallTypeOK'
    BY <2>1 DEF StackInv, InstallTypeOK
  <2>3. SeenToInv'
    <3>1. SeenToInv
      BY DEF StackInv
    <3>2. \A t : Done(t)' <=> Done(t)
      BY <2>1 DEF Done
    <3>3. /\ \A u : On(u)' <=> On(u)
          /\ Reachable(conf)' <=> Reachable(conf)
          /\ Authenticated' <=> Authenticated
          /\ InstallAt("idle")' <=> InstallAt("idle")
      BY <2>1 DEF On, Reachable, Authenticated, InstallAt
    <3>4. /\ nodeJob' = nodeJob /\ dropIn' = dropIn /\ inst' = inst /\ grafana' = grafana
          /\ conf' = conf /\ disk' = disk /\ report' = report
      BY <2>1
    <3> QED
      BY <3>1, <3>2, <3>3, <3>4, Zenon DEF SeenToInv
  <2>4. LoadedInv'
    <3>1. LoadedInv
      BY DEF StackInv
    <3> QED
      BY <2>1, <3>1 DEF LoadedInv, Rebinds
  <2>5. InstallsComplete'
    BY <2>1 DEF StackInv, InstallsComplete, Succeeded, InEffect, Reachable
  <2> QED
    BY <2>2, <2>3, <2>4, <2>5 DEF StackInv
<1>2. CASE InstallStep
  <2>1. CASE InstallPrerequisites \/ InstallNodeExporter
    BY <2>1, MakePieceInv, RunServiceInv
       DEF InstallPrerequisites, InstallNodeExporter, Made, Pieces, Services
  <2>2. CASE InstallPrometheus
    BY <2>2, MakePieceInv, RunServiceInv, AddJobInv
       DEF InstallPrometheus, Made, Pieces, Services
  <2>3. CASE InstallGrafana
    BY <2>3, MakePieceInv, RunServiceInv, WriteDropInInv, RebindInv, AwaitGrafanaInv
       DEF InstallGrafana, Made, Pieces, Services
  <2>4. CASE ConfigurePrometheusDatasource \/ ConfigureInfinityDatasource
    BY <2>4, ConfigureInv DEF ConfigurePrometheusDatasource, ConfigureInfinityDatasource
  <2> QED
    BY <1>2, <2>1, <2>2, <2>3, <2>4, SecureGrafanaInv, InstallPluginInv, LoadPluginInv,
       ImportDashboardsInv DEF InstallStep
<1> QED
  BY <1>1, <1>2, BeginInstallInv, InstallKilledInv, ServiceDiesInv DEF InstallNext

(***************************************************************************)
(* However many runs failed or were killed before it, a run that reports   *)
(* success leaves running, enabled services, a Grafana that answers with   *)
(* the password, the plugin and both datasources and, if no run was ever   *)
(* cut between a write and what makes it effective, whole files that are   *)
(* in effect (Install).  For every set of addresses and passwords, every   *)
(* number of runs and every choice of faults.                              *)
(***************************************************************************)
THEOREM InstallsAreComplete ==
    ASSUME Addrs # {}
    PROVE  InstallSpec => []InstallsComplete
<1>1. StackInv /\ [InstallNext]_installVars => StackInv'
  BY InstallNextInv
<1>2. StackInv => InstallsComplete
  BY DEF StackInv
<1>3. InstallInit => StackInv
  BY InstallInitInv
<1> QED
  BY <1>1, <1>2, <1>3, PTL DEF InstallSpec

(***************************************************************************)
(* A piece that is written aside and renamed is never seen torn, and what  *)
(* Grafana, Prometheus and systemd hold is what some run gave them.        *)
(***************************************************************************)
THEOREM StackTypes ==
    ASSUME Addrs # {}
    PROVE  InstallSpec => []InstallTypeOK
<1>1. StackInv /\ [InstallNext]_installVars => StackInv'
  BY InstallNextInv
<1>2. StackInv => InstallTypeOK
  BY DEF StackInv
<1>3. InstallInit => StackInv
  BY InstallInitInv
<1> QED
  BY <1>1, <1>2, <1>3, PTL DEF InstallSpec

-----------------------------------------------------------------------------
(***************************************************************************)
(* BackupTimer.  As long as every run succeeds, the newest archive was,    *)
(* when the timer last fired, younger than the cadence or not there yet;   *)
(* from one firing to the next is a day.                                   *)
(***************************************************************************)
\* Ticks since the timer's time of day.
Elapsed(t) == IF t % Day >= Hour THEN (t % Day) - Hour ELSE (t % Day) + Day - Hour

TimedInv ==
    /\ TimerTypeOK
    /\ backups # {} => /\ Newest \in backups /\ Newest <= time
                       /\ \A b \in backups : b <= Newest
    /\ cadence # NoTimer => backups # {}
    /\ attempt # NoAttempt => /\ attempt.ends - attempt.began \in Takes
                              /\ attempt.began <= time /\ time <= attempt.ends
    /\ smooth => hostUp
    /\ smooth /\ cadence # NoTimer =>
         IF attempt # NoAttempt THEN attempt.began - Newest <= Limit
         ELSE IF due THEN time - Newest <= Limit
         ELSE \/ time - Elapsed(time) - Newest < cadence * Day
              \/ time - Elapsed(time) <= Newest

(* Days.                                                                   *)
LEMMA Multiples ==
    ASSUME NEW p \in Int, NEW q \in Int, p < q
    PROVE  Day * p + Day <= Day * q
BY TimerAssumption, SMT

LEMMA Quotient ==
    ASSUME NEW d \in Nat \ {0}, NEW t \in Int
    PROVE  t = d * (t \div d) + (t % d)
BY Z3

LEMMA Divided ==
    ASSUME NEW d \in Nat \ {0}, NEW t \in Nat
    PROVE  t % d \in 0 .. d - 1 /\ t \div d \in Nat /\ t = d * (t \div d) + (t % d)
<1>1. t % d \in 0 .. d - 1
  BY SMT
<1>2. t \div d \in Nat
  BY SMT
<1> QED
  BY <1>1, <1>2, Quotient

LEMMA DayIs ==
    ASSUME NEW t \in Nat
    PROVE  \E q \in Nat, r \in 0 .. Day - 1 :
             q = t \div Day /\ r = t % Day /\ t = Day * q + r
<1>1. Day \in Nat \ {0}
  BY TimerAssumption
<1>2. t % Day \in 0 .. Day - 1 /\ t \div Day \in Nat /\ t = Day * (t \div Day) + (t % Day)
  BY <1>1, Divided
<1> QED
  BY <1>2

LEMMA NextOfDay ==
    ASSUME NEW t \in Nat
    PROVE  (t + 1) % Day = IF t % Day = Day - 1 THEN 0 ELSE (t % Day) + 1
<1>0. PICK u \in Nat : u = t + 1
  OBVIOUS
<1>1. PICK q \in Nat, r \in 0 .. Day - 1 : q = t \div Day /\ r = t % Day /\ t = Day * q + r
  BY DayIs
<1>11. PICK p \in Nat, s \in 0 .. Day - 1 : p = u \div Day /\ s = u % Day /\ u = Day * p + s
  BY DayIs
<1>2. t = Day * q + r /\ t + 1 = Day * p + s
  BY <1>0, <1>1, <1>11
<1>3. Day \in Nat \ {0} /\ Day * q \in Nat /\ Day * p \in Nat
  BY TimerAssumption
<1>4. p < q => Day * p + Day <= Day * q
  BY Multiples
<1>5. q < p => Day * q + Day <= Day * p
  BY Multiples
<1>6. q + 1 < p => Day * (q + 1) + Day <= Day * p
  BY Multiples
<1>7. Day * (q + 1) = Day * q + Day
  BY <1>3
<1>8. s = IF r = Day - 1 THEN 0 ELSE r + 1
  <2>1. ~(p < q)
    BY <1>1, <1>2, <1>3, <1>4
  <2>2. CASE p = q
    BY <1>1, <1>2, <1>3, <2>2
  <2>3. CASE q < p
    BY <1>1, <1>2, <1>3, <1>5, <2>3
  <2> QED
    BY <1>1, <2>1, <2>2, <2>3
<1> QED
  BY <1>0, <1>1, <1>11, <1>8, Zenon

LEMMA ElapsedIs ==
    ASSUME NEW t \in Nat
    PROVE  /\ Elapsed(t) \in 0 .. Day - 1
           /\ (t + 1) % Day = Hour => Elapsed(t) = Day - 1
           /\ (t + 1) % Day # Hour => Elapsed(t + 1) = Elapsed(t) + 1
<1>1. PICK r, s \in 0 .. Day - 1 : r = t % Day /\ s = (t + 1) % Day
  <2>1. PICK u \in Nat : u = t + 1
    OBVIOUS
  <2>2. t % Day \in 0 .. Day - 1 /\ u % Day \in 0 .. Day - 1
    BY DayIs
  <2> QED
    BY <2>1, <2>2, Zenon
<1>2. s = IF r = Day - 1 THEN 0 ELSE r + 1
  BY <1>1, NextOfDay
<1>3. /\ Elapsed(t) = IF r >= Hour THEN r - Hour ELSE r + Day - Hour
      /\ Elapsed(t + 1) = IF s >= Hour THEN s - Hour ELSE s + Day - Hour
  BY <1>1, Zenon DEF Elapsed
<1>4. Day \in Nat \ {0} /\ Hour \in 0 .. Day - 1
  BY TimerAssumption
<1>5. Elapsed(t) \in 0 .. Day - 1
  BY <1>3, <1>4
<1>6. s = Hour => Elapsed(t) = Day - 1
  BY <1>2, <1>3, <1>4
<1>7. s # Hour => Elapsed(t + 1) = Elapsed(t) + 1
  BY <1>2, <1>3, <1>4
<1> QED
  BY <1>1, <1>5, <1>6, <1>7

\* What a cadence that is not reached says of the newest archive.
LEMMA NotReached ==
    ASSUME NEW days \in Nat, NEW last \in Int, last <= time, time \in Nat,
           ~CadenceReached(last, days)
    PROVE  time - last < days * Day
<1>1. PICK age \in Nat : age = time - last
  OBVIOUS
<1>2. PICK q \in Nat, r \in 0 .. Day - 1 : q = age \div Day /\ age = Day * q + r
  BY DayIs
<1>3. q < days
  BY <1>1, <1>2 DEF CadenceReached
<1>4. Day * q + Day <= Day * days
  BY <1>3, Multiples
<1>5. Day \in Nat \ {0} /\ Day * days = days * Day /\ days * Day \in Nat /\ Day * q \in Nat
  BY TimerAssumption
<1> QED
  BY <1>1, <1>2, <1>4, <1>5

LEMMA Ticks ==
    ASSUME NEW days \in Nat
    PROVE  days * Day \in Nat /\ (days + 1) * Day = days * Day + Day
BY TimerAssumption, SMT

LEMMA LimitIs ==
    ASSUME cadence \in Nat
    PROVE  cadence * Day \in Nat /\ Limit = cadence * Day + Day /\ Limit \in Nat
BY TimerAssumption, SMT DEF Limit

LEMMA TimerFacts ==
    ASSUME TimedInv
    PROVE  /\ TimerTypeOK /\ time \in Nat /\ Day \in Nat \ {0}
           /\ cadence # NoTimer => cadence \in Nat
           /\ backups # {} => Newest \in Nat /\ Newest <= time
           /\ attempt # NoAttempt => /\ attempt.began \in Nat /\ attempt.ends \in Nat
                                     /\ attempt.then \in Cadences \cup {NoTimer}
<1>1. TimerTypeOK /\ Day \in Nat \ {0} /\ Cadences \subseteq Nat
  BY TimerAssumption DEF TimedInv
<1>2. time \in Nat /\ backups \subseteq 0 .. LastTick /\ LastTick \in Nat
  BY <1>1, TimerAssumption DEF TimerTypeOK
<1>3. cadence # NoTimer => cadence \in Nat
  BY <1>1 DEF TimerTypeOK
<1>4. backups # {} => Newest \in Nat /\ Newest <= time
  <2> SUFFICES ASSUME backups # {} PROVE Newest \in Nat /\ Newest <= time
    OBVIOUS
  <2>1. PICK n : n = Newest /\ n \in backups /\ n <= time
    BY Zenon DEF TimedInv
  <2> QED
    BY <1>2, <2>1
<1>5. attempt # NoAttempt =>
        attempt \in [began : 0 .. LastTick, ends : Nat, then : Cadences \cup {NoTimer},
                     timed : BOOLEAN]
  BY <1>1 DEF TimerTypeOK
<1> QED
  BY <1>1, <1>2, <1>3, <1>4, <1>5

\* Between two runs no archive is older than the limit.
LEMMA InTime ==
    ASSUME TimedInv, smooth, cadence # NoTimer, attempt = NoAttempt
    PROVE  time - Newest <= Limit
<1>1. /\ time \in Nat /\ Newest \in Nat /\ Newest <= time /\ Day \in Nat \ {0}
      /\ cadence * Day \in Nat /\ Limit = cadence * Day + Day
  BY TimerFacts, LimitIs DEF TimedInv
<1>2. CASE due
  BY <1>2 DEF TimedInv
<1>3. CASE ~due
  <2>1. PICK e \in 0 .. Day - 1 : e = Elapsed(time)
    BY <1>1, ElapsedIs
  <2>2. time - e - Newest < cadence * Day \/ time - e <= Newest
    BY <1>3, <2>1 DEF TimedInv
  <2> QED
    BY <1>1, <2>1, <2>2
<1> QED
  BY <1>2, <1>3 DEF TimedInv, TimerTypeOK

LEMMA TimerInitInv == TimerInit => TimedInv
<1> SUFFICES ASSUME TimerInit PROVE TimedInv
  OBVIOUS
<1>1. /\ time = 0 /\ cadence = NoTimer /\ hostUp = TRUE /\ due = FALSE
      /\ attempt = NoAttempt /\ backups = {} /\ smooth = TRUE
  BY DEF TimerInit
<1>2. TimerTypeOK
  <2>1. time \in 0 .. LastTick /\ backups \subseteq 0 .. LastTick
    BY <1>1, TimerAssumption
  <2> QED
    BY <1>1, <2>1, Zenon DEF TimerTypeOK
<1> QED
  BY <1>1, <1>2 DEF TimedInv

\* A run that begins.
LEMMA StartsInv ==
    ASSUME TimedInv, Idle, NEW then \in Cadences \cup {NoTimer}, NEW timed \in BOOLEAN,
           Starts(then, timed), UNCHANGED <<time, cadence, hostUp, backups, smooth>>,
           due' \in BOOLEAN
    PROVE  TimedInv'
<1>1. PICK d \in Takes :
        attempt' = [began |-> time, ends |-> time + d, then |-> then, timed |-> timed]
  BY DEF Starts
<1>2. time \in 0 .. LastTick /\ d \in Nat /\ time \in Nat
  BY TimerFacts, TimerAssumption DEF TimerTypeOK
<1>3. /\ attempt'.began = time /\ attempt'.ends - attempt'.began \in Takes
      /\ attempt'.began <= time' /\ time' <= attempt'.ends /\ attempt' # NoAttempt
      /\ attempt' \in [began : 0 .. LastTick, ends : Nat, then : Cadences \cup {NoTimer},
                       timed : BOOLEAN]
  <2>1. time + d \in Nat /\ (time + d) - time = d /\ time <= time + d
    BY <1>2
  <2>2. attempt'.began # -1
    BY <1>1, <1>2
  <2> QED
    BY <1>1, <1>2, <2>1, <2>2 DEF NoAttempt
<1>4. TimerTypeOK'
  BY <1>3, TimerFacts DEF TimerTypeOK
<1>5. smooth /\ cadence # NoTimer => attempt'.began - Newest <= Limit
  BY <1>3, InTime DEF Idle
<1> QED
  BY <1>3, <1>4, <1>5 DEF TimedInv, Newest, Limit

\* A cadence under which the newest archive is young enough to do without a run.
LEMMA SkipsInv ==
    ASSUME TimedInv, Idle, cadence' \in Cadences, backups # {},
           ~CadenceReached(Newest, cadence'), due' \in BOOLEAN,
           UNCHANGED <<time, attempt, hostUp, backups, smooth>>
    PROVE  TimedInv'
<1>1. /\ cadence' \in Nat /\ time \in Nat /\ Newest \in Nat /\ Newest <= time
      /\ Day \in Nat \ {0} /\ attempt = NoAttempt
  <2>1. Cadences \subseteq Nat
    BY TimerAssumption
  <2> QED
    BY <2>1, TimerFacts DEF Idle
<1>2. time - Newest < cadence' * Day
  <2>1. PICK days \in Nat, last \in Nat : days = cadence' /\ last = Newest
    BY <1>1
  <2>2. ~CadenceReached(last, days) /\ last <= time
    BY <1>1, <2>1
  <2>3. time - last < days * Day
    BY <1>1, <2>2, NotReached
  <2> QED
    BY <2>1, <2>3
<1>3. PICK m \in Nat, e \in 0 .. Day - 1 : m = cadence' * Day /\ e = Elapsed(time)
  <2>1. cadence' * Day \in Nat
    BY <1>1, Ticks, Zenon
  <2>2. Elapsed(time) \in 0 .. Day - 1
    BY <1>1, ElapsedIs, Zenon
  <2> QED
    BY <2>1, <2>2
<1>4. Limit' = m + Day
  BY <1>1, <1>3, SMT DEF Limit
<1>5. time - e - Newest < m /\ time - Newest <= Limit'
  <2>1. PICK n \in Nat : n = Newest
    BY <1>1
  <2>2. time - n < m /\ n <= time
    BY <1>1, <1>2, <1>3, <2>1
  <2>3. m \in Nat /\ e \in 0 .. Day - 1 /\ time \in Nat /\ Day \in Nat \ {0}
    BY <1>1, <1>3, Zenon
  <2>4. time - e - n < m /\ time - n <= m + Day
    BY <2>1, <2>2, <2>3
  <2> QED
    BY <1>4, <2>1, <2>4
<1>6. TimerTypeOK'
  BY TimerFacts, Zenon DEF TimerTypeOK
<1>7. time - Elapsed(time) - Newest < cadence' * Day
  BY <1>3, <1>5
<1>8. Newest' = Newest /\ Elapsed(time)' = Elapsed(time)
  BY DEF Newest, Elapsed
<1> QED
  BY <1>1, <1>5, <1>6, <1>7, <1>8 DEF TimedInv, Idle

LEMMA ScheduleInv ==
    ASSUME TimedInv, Schedule \/ TimedRun \/ HandRun
    PROVE  TimedInv'
<1>0. /\ Idle /\ UNCHANGED <<time, hostUp, backups, smooth>> /\ due' \in BOOLEAN
  BY TimerFacts DEF Schedule, TimedRun, HandRun, TimerTypeOK
<1>1. CASE Schedule
  <2>1. PICK days \in Cadences :
          IF Skips(days) THEN cadence' = days /\ UNCHANGED attempt
          ELSE Starts(days, FALSE) /\ UNCHANGED cadence
    BY <1>1 DEF Schedule
  <2>2. CASE Skips(days)
    BY <1>0, <2>1, <2>2, SkipsInv DEF Skips
  <2>3. CASE ~Skips(days)
    BY <1>0, <2>1, <2>3, StartsInv
  <2> QED
    BY <2>2, <2>3
<1>2. CASE TimedRun
  <2>1. CASE Skips(cadence)
    <3>1. cadence \in Cadences
      BY <2>1, TimerFacts DEF Skips, TimerTypeOK, NoTimer
    <3> QED
      BY <1>0, <1>2, <2>1, <3>1, SkipsInv DEF TimedRun, Skips
  <2>2. CASE ~Skips(cadence)
    BY <1>0, <1>2, <2>2, StartsInv DEF TimedRun
  <2> QED
    BY <2>1, <2>2
<1>3. CASE HandRun
  BY <1>0, <1>3, StartsInv DEF HandRun
<1> QED
  BY <1>1, <1>2, <1>3

\* The archive that was just made is the newest, and is kept.
LEMMA FinishesInv ==
    ASSUME TimedInv, Finishes
    PROVE  TimedInv'
<1>1. /\ hostUp /\ attempt # NoAttempt /\ attempt' = NoAttempt /\ smooth' = TRUE
      /\ backups' = Retain(backups \cup {time})
      /\ cadence' = IF attempt.then = NoTimer THEN cadence ELSE attempt.then
      /\ UNCHANGED <<time, hostUp, due>>
  BY DEF Finishes
<1>2. /\ backups \subseteq 0 .. LastTick /\ time \in 0 .. LastTick /\ time \in Nat
      /\ \A b \in backups : b <= time
  <2>1. /\ backups \subseteq 0 .. LastTick /\ time \in 0 .. LastTick /\ time \in Nat
        /\ LastTick \in Nat
    BY TimerFacts, TimerAssumption DEF TimerTypeOK
  <2>2. ASSUME NEW b \in backups PROVE b <= time
    <3>1. PICK n : n \in backups /\ n <= time /\ b <= n
      BY <2>2, Zenon DEF TimedInv
    <3> QED
      BY <2>1, <3>1
  <2> QED
    BY <2>1, <2>2
<1>3. time \in backups' /\ backups' \subseteq backups \cup {time}
  <2>1. {b \in backups \cup {time} : b > time} = {}
    <3>1. ASSUME NEW b \in backups \cup {time} PROVE ~(b > time)
      <4>1. b \in Nat /\ b <= time
        BY <1>2
      <4> QED
        BY <1>2, <4>1
    <3> QED
      BY <3>1
  <2>2. Cardinality({}) < MaxBackups
    BY FS_EmptySet, TimerAssumption
  <2> QED
    BY <1>1, <2>1, <2>2 DEF Retain
<1>4. \A b \in backups' : b <= time /\ b \in Int
  BY <1>2, <1>3
<1>5. Newest' = time
  <2>1. \A b \in backups' : (\A c \in backups' : b >= c) => b = time
    BY <1>2, <1>3, <1>4
  <2>2. \A c \in backups' : time >= c
    BY <1>2, <1>4
  <2> QED
    BY <1>3, <2>1, <2>2 DEF Newest, Max
<1>6. TimerTypeOK' /\ (cadence' # NoTimer => cadence' \in Nat)
  BY <1>1, <1>2, <1>3, TimerFacts, TimerAssumption DEF TimerTypeOK
<1>7. ASSUME cadence' # NoTimer
      PROVE  time - Newest' <= Limit' /\ time - Elapsed(time) <= Newest'
  <2>1. PICK m \in Nat, e \in 0 .. Day - 1 : m = cadence' * Day /\ e = Elapsed(time)
    BY <1>2, <1>6, <1>7, TimerFacts, ElapsedIs, SMT
  <2>2. Limit' = m + Day
    BY <1>6, <1>7, <2>1, TimerFacts, SMT DEF Limit
  <2>3. time - time <= m + Day /\ time - e <= time
    BY <1>2, <2>1, TimerFacts
  <2> QED
    BY <1>5, <2>1, <2>2, <2>3
<1>8. Elapsed(time)' = Elapsed(time)
  BY <1>1 DEF Elapsed
<1> QED
  BY <1>1, <1>3, <1>4, <1>5, <1>6, <1>7, <1>8, <1>2 DEF TimedInv

LEMMA TroubleInv ==
    ASSUME TimedInv, Fails \/ Off \/ Boots
    PROVE  TimedInv'
<1>1. /\ UNCHANGED <<time, cadence, due, backups>>
      /\ attempt' = NoAttempt \/ attempt' = attempt
      /\ hostUp' \in BOOLEAN /\ smooth' \in BOOLEAN
      /\ ~smooth'
  <2>1. hostUp \in BOOLEAN /\ smooth \in BOOLEAN /\ (smooth => hostUp)
    BY DEF TimedInv, TimerTypeOK
  <2>2. CASE Fails
    BY <2>1, <2>2 DEF Fails
  <2>3. CASE Off
    BY <2>1, <2>3 DEF Off
  <2>4. CASE Boots
    BY <2>1, <2>4 DEF Boots
  <2> QED
    BY <2>2, <2>3, <2>4
<1>2. TimerTypeOK'
  BY <1>1, TimerFacts DEF TimerTypeOK
<1> QED
  BY <1>1, <1>2 DEF TimedInv, Newest

LEMMA ClockInv ==
    ASSUME TimedInv, Clock
    PROVE  TimedInv'
<1>1. /\ time < LastTick /\ time' = time + 1
      /\ attempt # NoAttempt => time < attempt.ends
      /\ due => ~Idle
      /\ due' = (due \/ (cadence # NoTimer /\ (time + 1) % Day = Hour))
      /\ UNCHANGED <<cadence, hostUp, attempt, backups, smooth>>
  BY DEF Clock
<1>2. TimerTypeOK'
  <2>1. time' \in 0 .. LastTick
    BY <1>1, TimerFacts, TimerAssumption
  <2>2. due' \in BOOLEAN
    BY <1>1
  <2> QED
    BY <1>1, <2>1, <2>2, TimerFacts DEF TimerTypeOK
<1>3. Newest' = Newest /\ Limit' = Limit
  BY <1>1 DEF Newest, Limit
<1>4. /\ backups # {} => Newest <= time'
      /\ attempt # NoAttempt => attempt.began <= time' /\ time' <= attempt.ends
  BY <1>1, TimerFacts DEF TimedInv
<1>5. ASSUME smooth, cadence # NoTimer, attempt = NoAttempt
      PROVE  IF due' THEN time' - Newest <= Limit
             ELSE \/ time' - Elapsed(time') - Newest < cadence * Day
                  \/ time' - Elapsed(time') <= Newest
  <2>1. ~due /\ due' = ((time + 1) % Day = Hour)
    BY <1>1, <1>5 DEF Idle, TimedInv
  <2>2. PICK t \in Nat, n \in Nat, m \in Nat : t = time /\ n = Newest /\ m = cadence * Day
    BY <1>5, TimerFacts, LimitIs DEF TimedInv
  <2>3. PICK e \in 0 .. Day - 1 : e = Elapsed(t)
    BY ElapsedIs
  <2>4. Limit = m + Day /\ (t - e - n < m \/ t - e <= n) /\ Day \in Nat \ {0}
    BY <1>5, <2>1, <2>2, <2>3, TimerFacts, LimitIs DEF TimedInv
  <2>5. CASE (t + 1) % Day = Hour
    <3>1. e = Day - 1
      BY <2>3, <2>5, ElapsedIs
    <3>2. t + 1 - n <= m + Day
      BY <2>2, <2>3, <2>4, <3>1
    <3>3. due'
      BY <2>1, <2>2, <2>5
    <3>4. time' - Newest <= Limit
      BY <1>1, <2>2, <2>4, <3>2
    <3> QED
      BY <3>3, <3>4
  <2>6. CASE (t + 1) % Day # Hour
    <3>1. PICK u \in Nat : u = t + 1
      OBVIOUS
    <3>2. Elapsed(u) = e + 1
      BY <2>3, <2>6, <3>1, ElapsedIs
    <3>3. u - Elapsed(u) - n < m \/ u - Elapsed(u) <= n
      BY <2>3, <2>4, <3>1, <3>2
    <3>4. ~due'
      BY <2>1, <2>2, <2>6
    <3> QED
      BY <1>1, <2>2, <3>1, <3>3, <3>4
  <2> QED
    BY <2>5, <2>6
<1> QED
  BY <1>1, <1>2, <1>3, <1>4, <1>5 DEF TimedInv

LEMMA TimerNextInv ==
    ASSUME TimedInv, [TimerNext]_timerVars
    PROVE  TimedInv'
<1>1. CASE UNCHANGED timerVars
  BY <1>1 DEF timerVars, TimedInv, TimerTypeOK, Newest, Limit, Elapsed
<1> QED
  BY <1>1, ScheduleInv, FinishesInv, TroubleInv, ClockInv DEF TimerNext

(***************************************************************************)
(* On a host that stays up and whose runs succeed, backup_stale never      *)
(* fires between runs, and a new archive follows within the cadence, a day *)
(* and the longest run (rules.go:274-292, backup.go:117-122): for every    *)
(* length of a day, hour of the timer, set of cadences and retention.      *)
(***************************************************************************)
THEOREM StaleMeansTrouble ==
    ASSUME NEW longest \in Takes, \A d \in Takes : d <= longest
    PROVE  TimerSpec => []StaleNeedsTrouble
<1>1. TimedInv /\ [TimerNext]_timerVars => TimedInv'
  BY TimerNextInv
<1>2. TimedInv => StaleNeedsTrouble
  <2> SUFFICES ASSUME TimedInv, smooth, hostUp
               PROVE  /\ BackupStale => attempt # NoAttempt
                      /\ cadence # NoTimer => time - Newest <= Limit + Longest
    BY DEF StaleNeedsTrouble
  <2>1. Longest = longest /\ longest \in Nat
    <3>1. Takes \subseteq Nat
      BY TimerAssumption
    <3>2. \A m \in Takes : (\A d \in Takes : m >= d) => m = longest
      BY <3>1
    <3>3. \A d \in Takes : longest >= d
      BY <3>1
    <3> QED
      BY <3>1, <3>2, <3>3 DEF Longest, Max
  <2>2. ASSUME cadence # NoTimer
        PROVE  /\ time \in Nat /\ Newest \in Nat /\ Limit \in Nat /\ backups # {}
    BY <2>2, TimerFacts, LimitIs DEF TimedInv
  <2>3. CASE attempt = NoAttempt
    <3>1. cadence # NoTimer => time - Newest <= Limit
      BY <2>3, InTime
    <3> QED
      BY <2>1, <2>2, <3>1 DEF BackupStale
  <2>4. CASE attempt # NoAttempt
    <3> SUFFICES ASSUME cadence # NoTimer PROVE time - Newest <= Limit + Longest
      BY <2>4
    <3>1. PICK d \in Takes : d = attempt.ends - attempt.began
      BY <2>4 DEF TimedInv
    <3>2. /\ attempt.began - Newest <= Limit /\ time <= attempt.ends
          /\ attempt.began \in Nat /\ attempt.ends \in Nat /\ d <= longest /\ d \in Nat
      BY <2>4, <3>1, TimerFacts, TimerAssumption DEF TimedInv
    <3> QED
      BY <2>1, <2>2, <3>1, <3>2
  <2> QED
    BY <2>3, <2>4
<1> QED
  BY <1>1, <1>2, TimerInitInv, PTL DEF TimerSpec

(***************************************************************************)
(* What the timer, a hand-made backup and prune leave is a schedule and    *)
(* archives of the past.                                                   *)
(***************************************************************************)
THEOREM TimerTypes == TimerSpec => []TimerTypeOK
<1>1. TimedInv /\ [TimerNext]_timerVars => TimedInv'
  BY TimerNextInv
<1>2. TimedInv => TimerTypeOK
  BY DEF TimedInv
<1> QED
  BY <1>1, <1>2, TimerInitInv, PTL DEF TimerSpec
-----------------------------------------------------------------------------
(***************************************************************************)
(* AlertRules.  The samples are in the order of their times, so what is    *)
(* kept of them, and every window of it, are the last ones of all that     *)
(* were taken; what a rule counts can be compared from any sample of the   *)
(* past to any later one.                                                  *)
(***************************************************************************)
NodeStates == {"synced", "syncing", "notEnoughPeers", "unknown"}
Samples ==
    [at : Nat, active : BOOLEAN, restarts : Nat, crashes : Nat, reach : BOOLEAN,
     state : NodeStates, stalled : BOOLEAN, fewPeers : BOOLEAN, behind : Nat, height : Nat,
     found : BOOLEAN, expected : Nat, produced : Nat, missed : Nat]
NodeCounters == [restarts : Nat, crashes : Nat, height : Nat, expected : Nat, produced : Nat,
          missed : Nat]

LEMMA LeastNumber ==
    ASSUME NEW S \in SUBSET Nat, S # {}
    PROVE  \E n \in S : \A m \in S : n <= m
<1>1. PICK R : R = {p \in Nat \X Nat : p[1] < p[2]}
  OBVIOUS
<1>2. IsWellFoundedOn(R, Nat)
  BY <1>1, NatLessThanWellFounded DEF OpToRel
<1>3. PICK n \in S : \A m \in S : <<m, n>> \notin R
  BY <1>2, WFMin
<1>4. ASSUME NEW m \in S PROVE n <= m
  <2>1. m \in Nat /\ n \in Nat /\ ~(m < n)
    BY <1>1, <1>3
  <2> QED
    BY <2>1
<1> QED
  BY <1>4

(* Windows.                                                                *)
LEMMA SampleAts ==
    ASSUME NEW h \in Seq(Samples)
    PROVE  Len(h) \in Nat /\ \A i \in 1 .. Len(h) : h[i] \in Samples /\ h[i].at \in Nat
<1>1. Len(h) \in Nat /\ \A i \in 1 .. Len(h) : h[i] \in Samples
  OBVIOUS
<1>2. \A s \in Samples : s.at \in Nat
  BY DEF Samples
<1> QED
  BY <1>1, <1>2

IsFirst(h, t, i) ==
    /\ i \in 1 .. Len(h) + 1
    /\ \A j \in 1 .. i - 1 : h[j].at < t
    /\ i <= Len(h) => h[i].at >= t

LEMMA FirstFromIs ==
    ASSUME NEW h \in Seq(Samples), NEW t \in Int
    PROVE  IsFirst(h, t, FirstFrom(h, t))
<1> DEFINE S == {i \in 1 .. Len(h) + 1 : i <= Len(h) => h[i].at >= t}
<1>1. Len(h) \in Nat /\ \A i \in 1 .. Len(h) : h[i] \in Samples /\ h[i].at \in Nat
  BY SampleAts
<1>2. PICK i \in S : \A j \in S : i <= j
  <2>1. S \in SUBSET Nat /\ Len(h) + 1 \in S
    BY <1>1
  <2> HIDE DEF S
  <2> QED
    BY <2>1, LeastNumber
<1>3. \A j \in 1 .. i - 1 : h[j].at < t
  <2> SUFFICES ASSUME NEW j \in 1 .. i - 1 PROVE h[j].at < t
    OBVIOUS
  <2>1. j \in 1 .. Len(h) /\ j \notin S
    BY <1>1, <1>2
  <2> QED
    BY <1>1, <2>1
<1>4. IsFirst(h, t, i)
  BY <1>2, <1>3 DEF IsFirst
<1>5. FirstFrom(h, t) = CHOOSE k \in 1 .. Len(h) + 1 :
                          /\ \A j \in 1 .. k - 1 : h[j].at < t
                          /\ k <= Len(h) => h[k].at >= t
  BY DEF FirstFrom
<1> QED
  BY <1>4, <1>5 DEF IsFirst

LEMMA OneFirst ==
    ASSUME NEW h \in Seq(Samples), NEW t \in Int, NEW i, NEW k,
           IsFirst(h, t, i), IsFirst(h, t, k)
    PROVE  i = k
<1>1. Len(h) \in Nat /\ \A j \in 1 .. Len(h) : h[j].at \in Nat
  BY SampleAts
<1>2. i \in Nat /\ k \in Nat
  BY <1>1 DEF IsFirst
<1>3. ~(i < k)
  <2> SUFFICES ASSUME i < k PROVE FALSE
    OBVIOUS
  <2>1. i \in 1 .. Len(h) /\ h[i].at >= t /\ h[i].at < t
    BY <1>1, <1>2 DEF IsFirst
  <2> QED
    BY <1>1, <2>1
<1>4. ~(k < i)
  <2> SUFFICES ASSUME k < i PROVE FALSE
    OBVIOUS
  <2>1. k \in 1 .. Len(h) /\ h[k].at >= t /\ h[k].at < t
    BY <1>1, <1>2 DEF IsFirst
  <2> QED
    BY <1>1, <2>1
<1> QED
  BY <1>2, <1>3, <1>4

Suffix(h, b) == SubSeq(h, b, Len(h))

LEMMA SuffixIs ==
    ASSUME NEW h \in Seq(Samples), NEW b \in 1 .. Len(h) + 1
    PROVE  /\ Suffix(h, b) \in Seq(Samples) /\ Len(Suffix(h, b)) = Len(h) - b + 1
           /\ \A i \in 1 .. Len(h) - b + 1 : Suffix(h, b)[i] = h[b + i - 1]
<1>1. Len(h) \in Nat /\ b \in Int /\ \A i \in b .. Len(h) : h[i] \in Samples
  OBVIOUS
<1> QED
  BY <1>1, SubSeqProperties DEF Suffix

LEMMA SuffixOfSuffix ==
    ASSUME NEW h \in Seq(Samples), NEW b \in 1 .. Len(h) + 1,
           NEW c \in 1 .. Len(h) - b + 2
    PROVE  Suffix(Suffix(h, b), c) = Suffix(h, b + c - 1)
<1> DEFINE one == Suffix(Suffix(h, b), c)
           two == Suffix(h, b + c - 1)
<1>1. /\ Len(h) \in Nat /\ Suffix(h, b) \in Seq(Samples)
      /\ Len(Suffix(h, b)) = Len(h) - b + 1
      /\ \A i \in 1 .. Len(h) - b + 1 : Suffix(h, b)[i] = h[b + i - 1]
  BY SuffixIs
<1>2. c \in 1 .. Len(Suffix(h, b)) + 1 /\ b + c - 1 \in 1 .. Len(h) + 1
  BY <1>1
<1>3. /\ one \in Seq(Samples) /\ Len(one) = Len(Suffix(h, b)) - c + 1
      /\ \A i \in 1 .. Len(Suffix(h, b)) - c + 1 : one[i] = Suffix(h, b)[c + i - 1]
  BY <1>1, <1>2, SuffixIs
<1>4. /\ two \in Seq(Samples) /\ Len(two) = Len(h) - (b + c - 1) + 1
      /\ \A i \in 1 .. Len(h) - (b + c - 1) + 1 : two[i] = h[(b + c - 1) + i - 1]
  BY <1>2, SuffixIs
<1> HIDE DEF one, two
<1>5. Len(one) = Len(two)
  BY <1>1, <1>3, <1>4
<1>6. ASSUME NEW i \in 1 .. Len(one) PROVE one[i] = two[i]
  <2>1. one[i] = Suffix(h, b)[c + i - 1]
    BY <1>1, <1>3
  <2>2. c + i - 1 \in 1 .. Len(h) - b + 1
    BY <1>1, <1>2, <1>3
  <2>3. one[i] = h[b + (c + i - 1) - 1]
    BY <1>1, <2>1, <2>2
  <2>4. two[i] = h[(b + c - 1) + i - 1]
    BY <1>4, <1>5
  <2>5. b + (c + i - 1) - 1 = (b + c - 1) + i - 1
    BY <1>1
  <2> QED
    BY <2>3, <2>4, <2>5
<1>7. one = two
  BY <1>3, <1>4, <1>5, <1>6, SeqEqual
<1> QED
  BY <1>7 DEF one, two

\* What was dropped before is dropped again.
LEMMA FromSuffix ==
    ASSUME NEW h \in Seq(Samples), NEW b \in 1 .. Len(h) + 1, NEW t \in Int,
           \A j \in 1 .. b - 1 : h[j].at < t
    PROVE  From(Suffix(h, b), t) = From(h, t)
<1> DEFINE s == Suffix(h, b)
           c == FirstFrom(s, t)
<1>1. /\ Len(h) \in Nat /\ s \in Seq(Samples) /\ Len(s) = Len(h) - b + 1
      /\ \A i \in 1 .. Len(h) - b + 1 : s[i] = h[b + i - 1]
  <2>1. /\ Suffix(h, b) \in Seq(Samples) /\ Len(Suffix(h, b)) = Len(h) - b + 1
        /\ \A i \in 1 .. Len(h) - b + 1 : Suffix(h, b)[i] = h[b + i - 1]
    BY SuffixIs, Zenon
  <2>2. Len(h) \in Nat
    OBVIOUS
  <2> QED
    BY <2>1, <2>2, Zenon
<1>2. IsFirst(s, t, c)
  BY <1>1, FirstFromIs
<1> HIDE DEF s, c
<1>3. /\ c \in 1 .. Len(h) - b + 2
      /\ \A j \in 1 .. c - 1 : s[j].at < t
      /\ c <= Len(h) - b + 1 => s[c].at >= t
  BY <1>1, <1>2 DEF IsFirst
<1>4. IsFirst(h, t, b + c - 1)
  <2>1. b + c - 1 \in 1 .. Len(h) + 1
    BY <1>1, <1>3
  <2>2. ASSUME NEW j \in 1 .. (b + c - 1) - 1 PROVE h[j].at < t
    <3>1. CASE j < b
      BY <1>1, <3>1
    <3>2. CASE j >= b
      <4>1. j - b + 1 \in 1 .. c - 1 /\ j - b + 1 \in 1 .. Len(h) - b + 1
        BY <1>1, <1>3, <3>2
      <4>2. s[j - b + 1] = h[b + (j - b + 1) - 1] /\ b + (j - b + 1) - 1 = j
        BY <1>1, <4>1
      <4> QED
        BY <1>3, <4>1, <4>2
    <3> QED
      BY <1>1, <1>3, <3>1, <3>2
  <2>3. ASSUME b + c - 1 <= Len(h) PROVE h[b + c - 1].at >= t
    <3>1. c \in 1 .. Len(h) - b + 1
      BY <1>1, <1>3, <2>3
    <3> QED
      BY <1>1, <1>3, <3>1
  <2> QED
    BY <2>1, <2>2, <2>3 DEF IsFirst
<1>5. FirstFrom(h, t) = b + c - 1
  BY <1>4, FirstFromIs, OneFirst
<1>6. From(s, t) = Suffix(s, c) /\ From(h, t) = Suffix(h, FirstFrom(h, t))
  BY DEF From, Suffix, c
<1>7. Suffix(s, c) = Suffix(h, b + c - 1)
  BY <1>1, <1>3, SuffixOfSuffix DEF s
<1> QED
  BY <1>5, <1>6, <1>7 DEF s

(* Times.                                                                  *)
WindowsHold ==
    /\ SystemdAnswers
    /\ Interval <= MaxWindow /\ \A d \in Delays : d <= MaxWindow
    /\ MaxSamples < Word

LEMMA GapIs ==
    ASSUME WindowsHold
    PROVE  /\ LongestGap \in Nat /\ Interval <= LongestGap /\ LongestGap <= MaxWindow
           /\ \A d \in Delays : d <= LongestGap
<1> DEFINE longest == {d \in Delays : \A e \in Delays : e <= d}
<1>1. /\ Interval \in Nat /\ MaxWindow \in Nat /\ Delays \subseteq Nat /\ Interval <= MaxWindow
      /\ \A d \in Delays : d \in Nat /\ d <= MaxWindow
  BY RulesAssumption DEF WindowsHold
<1>2. ASSUME Delays # {} PROVE \E d \in Delays : \A e \in Delays : e <= d
  <2> DEFINE S == {MaxWindow - d : d \in Delays}
  <2>1. S \in SUBSET Nat /\ S # {}
    <3>1. \A d \in Delays : MaxWindow - d \in Nat
      BY <1>1
    <3> QED
      BY <1>2, <3>1
  <2> HIDE DEF S
  <2>2. PICK m \in S : \A k \in S : m <= k
    BY <2>1, LeastNumber
  <2>3. PICK d \in Delays : m = MaxWindow - d
    BY <2>2 DEF S
  <2>4. ASSUME NEW e \in Delays PROVE e <= d
    <3>1. MaxWindow - e \in S
      BY DEF S
    <3> QED
      BY <1>1, <2>2, <2>3, <3>1
  <2> QED
    BY <2>4
<1>3. LongestGap = IF \E d \in longest : d > Interval THEN CHOOSE d \in longest : TRUE
                   ELSE Interval
  BY DEF LongestGap
<1>4. \A d \in longest : d \in Delays /\ \A e \in Delays : e <= d
  OBVIOUS
<1>5. ASSUME NEW d \in Delays PROVE \E m \in longest : d <= m
  BY <1>2
<1> HIDE DEF longest
<1>6. CASE \E d \in longest : d > Interval
  <2>1. LongestGap \in longest
    BY <1>3, <1>6
  <2>2. PICK d \in longest : d > Interval
    BY <1>6
  <2>3. LongestGap \in Nat /\ d \in Nat /\ d <= LongestGap
    BY <1>1, <1>4, <2>1, <2>2
  <2> QED
    BY <1>1, <1>4, <2>1, <2>2, <2>3
<1>7. CASE ~\E d \in longest : d > Interval
  <2>1. LongestGap = Interval
    BY <1>3, <1>7
  <2>2. ASSUME NEW d \in Delays PROVE d <= Interval
    <3>1. PICK m \in longest : d <= m
      BY <1>5
    <3>2. m \in Delays /\ ~(m > Interval)
      BY <1>4, <1>7
    <3>3. m \in Nat /\ d \in Nat /\ m <= Interval
      BY <1>1, <3>2
    <3> QED
      BY <1>1, <3>1, <3>3
  <2> QED
    BY <1>1, <2>1, <2>2
<1> QED
  BY <1>6, <1>7

LEMMA AfterIs ==
    ASSUME WindowsHold, NEW t \in Nat, NEW delay \in Delays
    PROVE  After(t, delay) \in Nat /\ t < After(t, delay) /\ After(t, delay) <= t + LongestGap
<1>1. Interval \in Nat \ {0} /\ delay \in Nat /\ delay <= LongestGap
      /\ LongestGap \in Nat /\ Interval <= LongestGap
  BY GapIs, RulesAssumption
<1>2. PICK q \in Nat, r \in 0 .. Interval - 1 : q = t \div Interval /\ t = Interval * q + r
  BY <1>1, Divided
<1>3. NextTick(t) = (q + 1) * Interval
  BY <1>2 DEF NextTick
<1>4. (q + 1) * Interval = Interval * q + Interval /\ Interval * q \in Nat
  BY <1>1
<1>5. PICK n \in Nat : n = NextTick(t) /\ t < n /\ n <= t + Interval
  BY <1>1, <1>2, <1>3, <1>4
<1>6. After(t, delay) = IF t + delay <= n THEN n ELSE t + delay
  BY <1>5 DEF After
<1> QED
  BY <1>1, <1>5, <1>6

(* What a sample shows.                                                    *)
LEMMA SlotIs ==
    ASSUME NEW m \in NodeCounters, NEW took \in BOOLEAN
    PROVE  /\ Slot(m, took) \in NodeCounters
           /\ Slot(m, took).restarts = m.restarts /\ Slot(m, took).crashes = m.crashes
           /\ Slot(m, took).expected = m.expected + 1
           /\ \/ Slot(m, took).produced = m.produced + 1 /\ Slot(m, took).missed = m.missed
              \/ Slot(m, took).produced = m.produced /\ Slot(m, took).missed = m.missed + 1
<1>1. PICK e \in Nat, p \in Nat, x \in Nat :
        /\ e = m.expected + 1
        /\ p = IF took THEN m.produced + 1 ELSE m.produced
        /\ x = IF took THEN m.missed ELSE m.missed + 1
  BY DEF NodeCounters
<1>2. Slot(m, took) = [m EXCEPT !.expected = e, !.produced = p, !.missed = x]
  BY <1>1, Zenon DEF Slot
<1>3. /\ Slot(m, took) \in NodeCounters
      /\ Slot(m, took).restarts = m.restarts /\ Slot(m, took).crashes = m.crashes
      /\ Slot(m, took).expected = e /\ Slot(m, took).produced = p /\ Slot(m, took).missed = x
  BY <1>2 DEF NodeCounters
<1> QED
  BY <1>1, <1>3

LEMMA LivesAre ==
    ASSUME view \in ViewNames, node \in NodeCounters, NEW n \in Lives(node),
           node.produced <= node.expected
    PROVE  /\ n \in NodeCounters /\ n.produced <= n.expected /\ n.expected <= node.expected + 1
           /\ n.restarts - node.restarts <= n.crashes - node.crashes
           /\ node.missed <= n.missed
           /\ (n.expected - n.produced) - (node.expected - node.produced)
                <= n.missed - node.missed
<1>1. n \in {node, Crashed(node), ResetByHand(node), Grew(node), Slot(node, TRUE),
             Slot(node, FALSE), NewEpoch(node), Slot(NewEpoch(node), TRUE),
             Slot(NewEpoch(node), FALSE)}
  BY DEF Lives, ViewNames
<1>2. /\ node.restarts \in Nat /\ node.crashes \in Nat /\ node.height \in Nat
      /\ node.expected \in Nat /\ node.produced \in Nat /\ node.missed \in Nat
  BY DEF NodeCounters
<1>3. CASE n \in {node, Crashed(node), ResetByHand(node), Grew(node)}
  <2>1. /\ Crashed(node) \in NodeCounters /\ Crashed(node).expected = node.expected
        /\ Crashed(node).produced = node.produced /\ Crashed(node).missed = node.missed
        /\ Crashed(node).restarts = node.restarts + 1
        /\ Crashed(node).crashes = node.crashes + 1
    <3>1. PICK r \in Nat, c \in Nat : r = node.restarts + 1 /\ c = node.crashes + 1
      BY <1>2
    <3>2. Crashed(node) = [node EXCEPT !.restarts = r, !.crashes = c]
      BY <3>1, Zenon DEF Crashed
    <3> QED
      BY <3>1, <3>2 DEF NodeCounters
  <2>2. /\ ResetByHand(node) \in NodeCounters /\ ResetByHand(node).expected = node.expected
        /\ ResetByHand(node).produced = node.produced /\ ResetByHand(node).missed = node.missed
        /\ ResetByHand(node).restarts = 0 /\ ResetByHand(node).crashes = node.crashes
    BY <1>2 DEF ResetByHand, NodeCounters
  <2>3. /\ Grew(node) \in NodeCounters /\ Grew(node).expected = node.expected
        /\ Grew(node).produced = node.produced /\ Grew(node).missed = node.missed
        /\ Grew(node).restarts = node.restarts /\ Grew(node).crashes = node.crashes
    <3>1. PICK g \in Nat : g = node.height + 1
      BY <1>2
    <3>2. Grew(node) = [node EXCEPT !.height = g]
      BY <3>1, Zenon DEF Grew
    <3> QED
      BY <3>2 DEF NodeCounters
  <2>4. CASE n = node
    BY <1>2, <2>4
  <2>5. CASE n = Crashed(node)
    BY <1>2, <2>1, <2>5
  <2>6. CASE n = ResetByHand(node)
    BY <1>2, <2>2, <2>6
  <2>7. CASE n = Grew(node)
    BY <1>2, <2>3, <2>7
  <2> QED
    BY <1>3, <2>4, <2>5, <2>6, <2>7
<1>4. CASE n \in {Slot(node, TRUE), Slot(node, FALSE)}
  <2>1. PICK took \in BOOLEAN : n = Slot(node, took)
    BY <1>4
  <2> QED
    BY <1>2, <2>1, SlotIs
<1>5. CASE n \in {NewEpoch(node), Slot(NewEpoch(node), TRUE), Slot(NewEpoch(node), FALSE)}
  <2> DEFINE fresh == NewEpoch(node)
  <2>1. /\ fresh \in NodeCounters /\ fresh.expected = 0 /\ fresh.produced = 0
        /\ fresh.missed = node.missed /\ fresh.restarts = node.restarts
        /\ fresh.crashes = node.crashes
    BY <1>2 DEF NewEpoch, NodeCounters
  <2> HIDE DEF fresh
  <2>2. n \in {fresh, Slot(fresh, TRUE), Slot(fresh, FALSE)}
    BY <1>5 DEF fresh
  <2>3. CASE n = fresh
    BY <1>2, <2>1, <2>3
  <2>4. CASE n \in {Slot(fresh, TRUE), Slot(fresh, FALSE)}
    <3>1. PICK took \in BOOLEAN : n = Slot(fresh, took)
      BY <2>4
    <3>2. /\ n \in NodeCounters /\ n.restarts = node.restarts /\ n.crashes = node.crashes
          /\ n.expected = 1
          /\ \/ n.produced = 1 /\ n.missed = node.missed
             \/ n.produced = 0 /\ n.missed = node.missed + 1
      BY <1>2, <2>1, <3>1, SlotIs
    <3> QED
      BY <1>2, <3>2
  <2> QED
    BY <2>2, <2>3, <2>4
<1> QED
  BY <1>1, <1>3, <1>4, <1>5

LEMMA ShownIs ==
    ASSUME SystemdAnswers, view \in ViewNames, NEW at \in Nat, NEW n \in NodeCounters,
           n.produced <= n.expected, NEW s \in Shows(Healthy(at, n))
    PROVE  /\ s \in Samples /\ s.at = at
           /\ s.restarts = n.restarts /\ s.crashes = n.crashes /\ s.missed = n.missed
           /\ s.produced <= s.expected /\ s.expected <= n.expected
           /\ s.found => s.expected = n.expected /\ s.produced = n.produced
<1> DEFINE h == Healthy(at, n)
           Fine(x) == /\ x \in Samples /\ x.at = at
                      /\ x.restarts = n.restarts /\ x.crashes = n.crashes /\ x.missed = n.missed
                      /\ x.produced <= x.expected /\ x.expected <= n.expected
                      /\ x.found => x.expected = n.expected /\ x.produced = n.produced
<1>1. /\ n.restarts \in Nat /\ n.crashes \in Nat /\ n.height \in Nat
      /\ n.expected \in Nat /\ n.produced \in Nat /\ n.missed \in Nat
  BY DEF NodeCounters
<1>2. Fine(h)
  BY <1>1 DEF Healthy, Samples, NodeStates
<1>3. ASSUME NEW x, Fine(x) PROVE Fine(Unreachable(x))
  <2> DEFINE u == Unreachable(x)
  <2>1. x \in Samples
    BY <1>3
  <2>2. u \in Samples
    BY <2>1 DEF Unreachable, Samples, NodeStates
  <2>3. /\ u.at = x.at /\ u.restarts = x.restarts /\ u.crashes = x.crashes
        /\ u.missed = x.missed
    BY <2>1 DEF Unreachable, Samples
  <2>4. u.expected = 0 /\ u.produced = 0 /\ u.found = FALSE
    BY <2>1 DEF Unreachable, Samples
  <2> HIDE DEF u
  <2>5. Fine(u)
    BY <1>1, <1>3, <2>2, <2>3, <2>4
  <2> QED
    BY <2>5 DEF u
<1>4. ASSUME NEW x, Fine(x) PROVE Fine([x EXCEPT !.active = FALSE])
  BY <1>4 DEF Samples
<1>5. ASSUME NEW x, Fine(x) PROVE Fine([x EXCEPT !.stalled = TRUE])
  BY <1>5 DEF Samples
<1>6. ASSUME NEW x, Fine(x), NEW g \in 1 .. 2, NEW few \in BOOLEAN
      PROVE  Fine([x EXCEPT !.state = "syncing", !.behind = g, !.fewPeers = few])
  <2> DEFINE y == [x EXCEPT !.state = "syncing", !.behind = g, !.fewPeers = few]
  <2>1. x \in Samples /\ g \in Nat
    BY <1>6
  <2>2. y \in Samples
    BY <2>1 DEF Samples, NodeStates
  <2>3. /\ y.at = x.at /\ y.restarts = x.restarts /\ y.crashes = x.crashes
        /\ y.missed = x.missed /\ y.expected = x.expected /\ y.produced = x.produced
        /\ y.found = x.found
    BY <2>1 DEF Samples
  <2> HIDE DEF y
  <2>4. Fine(y)
    BY <1>6, <2>2, <2>3
  <2> QED
    BY <2>4 DEF y
<1>7. ASSUME NEW x, Fine(x) PROVE Fine([x EXCEPT !.state = "notEnoughPeers"])
  BY <1>7 DEF Samples, NodeStates
<1> HIDE DEF h, Fine
<1>8. s \in {h, Unreachable(h), Unreachable([h EXCEPT !.active = FALSE]),
             [h EXCEPT !.stalled = TRUE], [h EXCEPT !.state = "notEnoughPeers"]}
        \cup {[h EXCEPT !.state = "syncing", !.behind = g, !.fewPeers = (g = 2)] : g \in 1 .. 2}
  BY DEF Shows, ViewNames, h
<1>9. CASE s \in {h, Unreachable(h), Unreachable([h EXCEPT !.active = FALSE]),
                 [h EXCEPT !.stalled = TRUE], [h EXCEPT !.state = "notEnoughPeers"]}
  <2>1. Fine(Unreachable(h)) /\ Fine([h EXCEPT !.active = FALSE])
    BY <1>2, <1>3, <1>4
  <2>2. Fine(Unreachable([h EXCEPT !.active = FALSE]))
    BY <1>3, <2>1
  <2>3. Fine([h EXCEPT !.stalled = TRUE]) /\ Fine([h EXCEPT !.state = "notEnoughPeers"])
    BY <1>2, <1>5, <1>7
  <2> QED
    <3>1. Fine(s)
      BY <1>2, <1>9, <2>1, <2>2, <2>3, Zenon
    <3> QED
      BY <3>1 DEF Fine
<1>10. CASE s \in {[h EXCEPT !.state = "syncing", !.behind = g, !.fewPeers = (g = 2)] : g \in 1 .. 2}
  <2>1. PICK g \in 1 .. 2 : s = [h EXCEPT !.state = "syncing", !.behind = g, !.fewPeers = (g = 2)]
    BY <1>10
  <2>2. (g = 2) \in BOOLEAN
    BY Zenon
  <2>3. PICK few \in BOOLEAN : few = (g = 2)
    BY <2>2, Zenon
  <2>4. s = [h EXCEPT !.state = "syncing", !.behind = g, !.fewPeers = few]
    BY <2>1, <2>3, Zenon
  <2>5. Fine([h EXCEPT !.state = "syncing", !.behind = g, !.fewPeers = few])
    BY <1>2, <1>6
  <2> QED
    <3>1. Fine(s)
      BY <2>4, <2>5, Zenon
    <3> QED
      BY <3>1 DEF Fine
<1> QED
  BY <1>8, <1>9, <1>10 DEF Fine

(* The invariant.                                                          *)
RulesTypes ==
    /\ view \in ViewNames /\ written \in Int /\ node \in NodeCounters
    /\ past \in Seq(Samples) /\ Len(past) <= MaxSamples

InOrder ==
    /\ \A i, j \in 1 .. Len(past) : i < j => past[i].at < past[j].at
    /\ \A i \in 2 .. Len(past) : past[i].at <= past[i - 1].at + LongestGap

KeptIsTrimmed == kept = IF past = <<>> THEN <<>> ELSE Trim(past, Last(past).at)

\* Between two samples systemd's counter grows by no more than the crashes, the
\* missed slots only grow, and the pillar's shortfall by no more than those.
LivedOn(a, b) ==
    b.restarts - a.restarts <= b.crashes - a.crashes /\ a.missed <= b.missed
NoMoreMisses(a, b) ==
    (b.expected - b.produced) - (a.expected - a.produced) <= b.missed - a.missed

CountInv ==
    /\ node.produced <= node.expected /\ node.expected <= Len(past)
    /\ \A i \in 1 .. Len(past) :
         /\ past[i].produced <= past[i].expected /\ past[i].expected <= Len(past)
         /\ LivedOn(past[i], node)
         /\ past[i].found => NoMoreMisses(past[i], node)
    /\ \A i, j \in 1 .. Len(past) : i <= j =>
         /\ LivedOn(past[i], past[j])
         /\ past[i].found /\ past[j].found => NoMoreMisses(past[i], past[j])

RulesInv == RulesTypes /\ InOrder /\ KeptIsTrimmed /\ CountInv

LEMMA SampleFields ==
    ASSUME NEW s \in Samples
    PROVE  /\ s.at \in Nat /\ s.restarts \in Nat /\ s.crashes \in Nat /\ s.height \in Nat
           /\ s.expected \in Nat /\ s.produced \in Nat /\ s.missed \in Nat
           /\ s.active \in BOOLEAN /\ s.reach \in BOOLEAN /\ s.found \in BOOLEAN
BY DEF Samples

LEMMA LivesOn ==
    ASSUME NEW a \in Samples, NEW m \in NodeCounters, NEW n \in NodeCounters, LivedOn(a, m),
           n.restarts - m.restarts <= n.crashes - m.crashes, m.missed <= n.missed,
           (n.expected - n.produced) - (m.expected - m.produced) <= n.missed - m.missed
    PROVE  LivedOn(a, n) /\ (NoMoreMisses(a, m) => NoMoreMisses(a, n))
<1>1. /\ a.restarts \in Nat /\ a.crashes \in Nat /\ a.missed \in Nat
      /\ a.expected \in Nat /\ a.produced \in Nat
  BY SampleFields
<1>2. /\ m.restarts \in Nat /\ m.crashes \in Nat /\ m.missed \in Nat
      /\ m.expected \in Nat /\ m.produced \in Nat
      /\ n.restarts \in Nat /\ n.crashes \in Nat /\ n.missed \in Nat
      /\ n.expected \in Nat /\ n.produced \in Nat
  BY DEF NodeCounters
<1>3. LivedOn(a, n)
  BY <1>1, <1>2 DEF LivedOn
<1>4. NoMoreMisses(a, m) => NoMoreMisses(a, n)
  BY <1>1, <1>2 DEF NoMoreMisses
<1> QED
  BY <1>3, <1>4

LEMMA AppendSuffix ==
    ASSUME NEW h \in Seq(Samples), NEW b \in 1 .. Len(h) + 1, NEW s \in Samples
    PROVE  Append(Suffix(h, b), s) = Suffix(Append(h, s), b)
<1> DEFINE all == Append(h, s)
           end == Suffix(h, b)
           one == Append(end, s)
           two == Suffix(all, b)
<1>1. /\ Len(h) \in Nat /\ end \in Seq(Samples) /\ Len(end) = Len(h) - b + 1
      /\ \A i \in 1 .. Len(h) - b + 1 : end[i] = h[b + i - 1]
  <2>1. /\ Suffix(h, b) \in Seq(Samples) /\ Len(Suffix(h, b)) = Len(h) - b + 1
        /\ \A i \in 1 .. Len(h) - b + 1 : Suffix(h, b)[i] = h[b + i - 1]
    BY SuffixIs, Zenon
  <2>2. Len(h) \in Nat
    OBVIOUS
  <2> QED
    BY <2>1, <2>2, Zenon
<1>2. /\ all \in Seq(Samples) /\ Len(all) = Len(h) + 1
      /\ \A i \in 1 .. Len(h) : all[i] = h[i]
      /\ all[Len(h) + 1] = s
  BY AppendProperties
<1> HIDE DEF all, end
<1>3. /\ one \in Seq(Samples) /\ Len(one) = Len(end) + 1
      /\ \A i \in 1 .. Len(end) : one[i] = end[i]
      /\ one[Len(end) + 1] = s
  <2>1. end \in Seq(Samples)
    BY <1>1
  <2> QED
    BY <2>1, AppendProperties
<1>4. b \in 1 .. Len(all) + 1
  BY <1>1, <1>2
<1>5. /\ two \in Seq(Samples) /\ Len(two) = Len(all) - b + 1
      /\ \A i \in 1 .. Len(all) - b + 1 : two[i] = all[b + i - 1]
  BY <1>2, <1>4, SuffixIs
<1> HIDE DEF one, two
<1>6. Len(one) = Len(two) /\ Len(one) = Len(h) - b + 2
  BY <1>1, <1>2, <1>3, <1>5
<1>7. ASSUME NEW i \in 1 .. Len(one) PROVE one[i] = two[i]
  <2>1. two[i] = all[b + i - 1] /\ b + i - 1 \in 1 .. Len(h) + 1
    BY <1>1, <1>2, <1>5, <1>6
  <2>2. CASE i <= Len(end)
    <3>1. one[i] = h[b + i - 1] /\ b + i - 1 \in 1 .. Len(h)
      BY <1>1, <1>3, <2>2
    <3> QED
      BY <1>2, <2>1, <3>1
  <2>3. CASE i > Len(end)
    <3>1. i = Len(end) + 1 /\ b + i - 1 = Len(h) + 1
      BY <1>1, <1>6, <2>3
    <3> QED
      BY <1>2, <1>3, <2>1, <3>1
  <2> QED
    BY <1>1, <1>6, <2>2, <2>3
<1>8. one = two
  BY <1>3, <1>5, <1>6, <1>7, SeqEqual
<1> QED
  BY <1>8 DEF one, two, all, end

\* Where the kept history begins: the newest sample is in it.
LEMMA KeptFrom ==
    ASSUME RulesTypes, InOrder, KeptIsTrimmed, past # <<>>
    PROVE  \E b \in 1 .. Len(past) :
             /\ kept = Suffix(past, b)
             /\ \A j \in 1 .. b - 1 : past[j].at < Last(past).at - MaxWindow
<1> DEFINE t == Last(past).at - MaxWindow
           b == FirstFrom(past, t)
<1>1. /\ past \in Seq(Samples) /\ Len(past) \in Nat /\ Len(past) # 0
  BY DEF RulesTypes
<1>2. /\ Last(past) = past[Len(past)] /\ Len(past) \in 1 .. Len(past)
      /\ Last(past) \in Samples /\ Last(past).at \in Nat
  BY <1>1, SampleAts DEF Last
<1>3. t \in Int /\ Last(past).at >= t /\ MaxWindow \in Nat
  BY <1>2, RulesAssumption
<1>4. IsFirst(past, t, b)
  BY <1>1, <1>3, FirstFromIs
<1>5. kept = Suffix(past, b)
  BY DEF KeptIsTrimmed, Trim, From, Suffix
<1> HIDE DEF t, b
<1>6. ~(b = Len(past) + 1)
  <2>1. ASSUME b = Len(past) + 1 PROVE FALSE
    <3>1. past[Len(past)].at < t
      BY <1>1, <1>4, <2>1 DEF IsFirst
    <3> QED
      BY <1>2, <1>3, <3>1
  <2> QED
    BY <2>1
<1>7. b \in 1 .. Len(past) /\ \A j \in 1 .. b - 1 : past[j].at < t
  BY <1>1, <1>4, <1>6 DEF IsFirst
<1> QED
  BY <1>5, <1>7 DEF t

LEMMA RulesInitInv == RulesInit /\ WindowsHold => RulesInv
<1> SUFFICES ASSUME RulesInit PROVE RulesInv
  OBVIOUS
<1>1. /\ past = <<>> /\ kept = <<>> /\ node = NewNode /\ view \in ViewNames /\ written \in Int
  BY RulesAssumption DEF RulesInit
<1>2. Len(past) = 0 /\ past \in Seq(Samples) /\ 0 <= MaxSamples
  BY <1>1, RulesAssumption
<1>3. node \in NodeCounters /\ node.produced = 0 /\ node.expected = 0
  BY <1>1 DEF NewNode, NodeCounters
<1> QED
  BY <1>1, <1>2, <1>3 DEF RulesInv, RulesTypes, InOrder, KeptIsTrimmed, CountInv

\* A sample is taken: after the others, and of a node that has lived on.
LEMMA SampleInv ==
    ASSUME WindowsHold, RulesInv, Len(past) < MaxSamples, NEW n \in Lives(node), NEW at \in Nat,
           past # <<>> => Last(past).at < at /\ at <= Last(past).at + LongestGap,
           NEW s, Sample(at, n, s)
    PROVE  RulesInv'
<1> DEFINE k == Len(past)
<1>1. /\ past \in Seq(Samples) /\ k \in Nat /\ MaxSamples \in Nat /\ MaxWindow \in Nat
      /\ LongestGap \in Nat /\ view \in ViewNames /\ node \in NodeCounters
      /\ node.produced <= node.expected /\ node.expected <= k
  BY GapIs, RulesAssumption DEF RulesInv, RulesTypes, CountInv
<1>2. /\ n \in NodeCounters /\ n.produced <= n.expected /\ n.expected <= node.expected + 1
      /\ n.restarts - node.restarts <= n.crashes - node.crashes
      /\ node.missed <= n.missed
      /\ (n.expected - n.produced) - (node.expected - node.produced) <= n.missed - node.missed
  BY <1>1, LivesAre
<1>3. /\ s \in Samples /\ s.at = at
      /\ s.restarts = n.restarts /\ s.crashes = n.crashes /\ s.missed = n.missed
      /\ s.produced <= s.expected /\ s.expected <= n.expected
      /\ s.found => s.expected = n.expected /\ s.produced = n.produced
  BY <1>1, <1>2, ShownIs DEF Sample, WindowsHold
<1>4. /\ past' = Append(past, s) /\ node' = n /\ view' = view /\ written' = written
      /\ kept' = Trim(Append(kept, s), at)
  BY DEF Sample
<1>5. /\ past' \in Seq(Samples) /\ Len(past') = k + 1
      /\ \A i \in 1 .. k : past'[i] = past[i]
      /\ past'[k + 1] = s
  BY <1>1, <1>3, <1>4, AppendProperties
<1> HIDE DEF k
<1>6. RulesTypes'
  BY <1>1, <1>2, <1>4, <1>5 DEF RulesInv, RulesTypes, k
<1>7. \A i \in 1 .. k : past[i] \in Samples /\ past[i].at \in Nat
  BY <1>1, SampleAts DEF k
<1>8. /\ past = <<>> <=> k = 0
      /\ k # 0 => Last(past) = past[k] /\ k \in 1 .. k
  BY <1>1 DEF k, Last
<1>9. InOrder'
  <2>1. InOrder
    BY DEF RulesInv
  <2>2. ASSUME NEW i \in 1 .. k PROVE past[i].at < at
    <3>1. k # 0 /\ past[k].at < at /\ past[k].at \in Nat /\ past[i].at \in Nat
      BY <1>1, <1>7, <1>8
    <3>2. i < k => past[i].at < past[k].at
      BY <1>1, <1>8, <2>1 DEF InOrder, k
    <3> QED
      BY <1>1, <3>1, <3>2
  <2>3. ASSUME NEW i \in 1 .. k + 1, NEW j \in 1 .. k + 1, i < j
        PROVE  past'[i].at < past'[j].at
    <3>1. i \in 1 .. k /\ past'[i] = past[i]
      BY <1>1, <1>5, <2>3
    <3>2. CASE j = k + 1
      BY <1>3, <1>5, <2>2, <3>1, <3>2
    <3>3. CASE j \in 1 .. k
      BY <1>5, <2>1, <2>3, <3>1, <3>3 DEF InOrder, k
    <3> QED
      BY <1>1, <3>2, <3>3
  <2>4. ASSUME NEW i \in 2 .. k + 1
        PROVE  past'[i].at <= past'[i - 1].at + LongestGap
    <3>1. i - 1 \in 1 .. k /\ past'[i - 1] = past[i - 1]
      BY <1>1, <1>5
    <3>2. CASE i = k + 1
      <4>1. i - 1 = k /\ k # 0
        BY <1>1, <3>1, <3>2
      <4> QED
        BY <1>3, <1>5, <1>8, <3>1, <3>2, <4>1
    <3>3. CASE i \in 2 .. k
      BY <1>1, <1>5, <2>1, <3>1, <3>3 DEF InOrder, k
    <3> QED
      BY <1>1, <3>2, <3>3
  <2> QED
    BY <1>5, <2>3, <2>4 DEF InOrder
<1>10. KeptIsTrimmed'
  <2>1. past' # <<>> /\ Last(past)' = s
    BY <1>1, <1>5 DEF Last
  <2>2. CASE past = <<>>
    <3>1. kept = past
      BY <2>2 DEF RulesInv, KeptIsTrimmed
    <3> QED
      BY <1>3, <1>4, <2>1, <3>1 DEF KeptIsTrimmed
  <2>3. CASE past # <<>>
    <3>1. PICK b \in 1 .. k :
            /\ kept = Suffix(past, b)
            /\ \A j \in 1 .. b - 1 : past[j].at < Last(past).at - MaxWindow
      BY <2>3, KeptFrom DEF RulesInv, k
    <3>2. Append(kept, s) = Suffix(past', b)
      BY <1>1, <1>3, <1>4, <3>1, AppendSuffix DEF k
    <3>3. b \in 1 .. Len(past') + 1 /\ at - MaxWindow \in Int
      BY <1>1, <1>5
    <3>4. ASSUME NEW j \in 1 .. b - 1 PROVE past'[j].at < at - MaxWindow
      <4>1. j \in 1 .. k /\ past[j].at < Last(past).at - MaxWindow /\ past'[j] = past[j]
        BY <1>1, <1>5, <3>1
      <4>2. Last(past).at \in Nat /\ Last(past).at < at
        BY <1>1, <1>7, <1>8, <2>3
      <4> QED
        BY <1>1, <1>7, <4>1, <4>2
    <3>5. From(Suffix(past', b), at - MaxWindow) = From(past', at - MaxWindow)
      BY <1>5, <3>3, <3>4, FromSuffix
    <3> QED
      BY <1>3, <1>4, <2>1, <3>2, <3>5 DEF KeptIsTrimmed, Trim
  <2> QED
    BY <2>2, <2>3
<1>11. CountInv'
  <2>1. /\ node.restarts \in Nat /\ node.crashes \in Nat /\ node.missed \in Nat
        /\ node.expected \in Nat /\ node.produced \in Nat
        /\ n.restarts \in Nat /\ n.crashes \in Nat /\ n.missed \in Nat
        /\ n.expected \in Nat /\ n.produced \in Nat
    BY <1>1, <1>2 DEF NodeCounters
  <2>2. ASSUME NEW i \in 1 .. k
        PROVE  /\ past[i].produced <= past[i].expected /\ past[i].expected <= k + 1
               /\ LivedOn(past[i], n) /\ (past[i].found => NoMoreMisses(past[i], n))
    <3>1. past[i] \in Samples
      BY <1>7
    <3>2. /\ past[i].produced <= past[i].expected /\ past[i].expected <= k
          /\ LivedOn(past[i], node) /\ (past[i].found => NoMoreMisses(past[i], node))
      BY DEF RulesInv, CountInv, k
    <3>3. /\ past[i].restarts \in Nat /\ past[i].crashes \in Nat /\ past[i].missed \in Nat
          /\ past[i].expected \in Nat /\ past[i].produced \in Nat
      BY <3>1, SampleFields
    <3>4. past[i].expected <= k + 1
      BY <1>1, <3>2, <3>3
    <3>5. LivedOn(past[i], n) /\ (past[i].found => NoMoreMisses(past[i], n))
      BY <1>1, <1>2, <3>1, <3>2, LivesOn
    <3> QED
      BY <3>2, <3>4, <3>5
  <2>3. /\ LivedOn(s, n) /\ LivedOn(s, s) /\ NoMoreMisses(s, s)
        /\ s.found => NoMoreMisses(s, n)
        /\ s.produced <= s.expected /\ s.expected <= k + 1
    <3>1. /\ s.restarts \in Nat /\ s.crashes \in Nat /\ s.missed \in Nat
          /\ s.expected \in Nat /\ s.produced \in Nat
      BY <1>3, SampleFields
    <3>2. LivedOn(s, n) /\ LivedOn(s, s)
      BY <1>3, <3>1 DEF LivedOn
    <3>3. NoMoreMisses(s, s) /\ (s.found => NoMoreMisses(s, n))
      BY <1>3, <3>1 DEF NoMoreMisses
    <3>4. s.expected <= k + 1
      <4>1. k \in Nat /\ node.expected <= k
        BY <1>1
      <4>2. s.expected <= n.expected /\ n.expected <= node.expected + 1
        BY <1>2, <1>3
      <4>3. PICK x \in Nat, y \in Nat, z \in Nat :
              x = s.expected /\ y = n.expected /\ z = node.expected
        BY <2>1, <3>1
      <4>4. x <= y /\ y <= z + 1 /\ z <= k
        BY <4>1, <4>2, <4>3
      <4>5. x <= k + 1
        BY <4>1, <4>4
      <4> QED
        BY <4>3, <4>5
    <3> QED
      BY <1>3, <3>2, <3>3, <3>4
  <2>4. ASSUME NEW i \in 1 .. k
        PROVE  LivedOn(past[i], s) /\ (past[i].found /\ s.found => NoMoreMisses(past[i], s))
    BY <1>3, <2>2 DEF LivedOn, NoMoreMisses
  <2>5. ASSUME NEW i \in 1 .. k + 1
        PROVE  /\ past'[i].produced <= past'[i].expected /\ past'[i].expected <= k + 1
               /\ LivedOn(past'[i], n) /\ (past'[i].found => NoMoreMisses(past'[i], n))
    <3>1. CASE i \in 1 .. k
      BY <1>5, <2>2, <3>1
    <3>2. CASE i = k + 1
      BY <1>5, <2>3, <3>2
    <3> QED
      BY <1>1, <3>1, <3>2
  <2>6. ASSUME NEW i \in 1 .. k + 1, NEW j \in 1 .. k + 1, i <= j
        PROVE  /\ LivedOn(past'[i], past'[j])
               /\ past'[i].found /\ past'[j].found => NoMoreMisses(past'[i], past'[j])
    <3>1. CASE j \in 1 .. k
      <4>1. i \in 1 .. k /\ past'[i] = past[i] /\ past'[j] = past[j]
        BY <1>1, <1>5, <2>6, <3>1
      <4>2. /\ LivedOn(past[i], past[j])
            /\ past[i].found /\ past[j].found => NoMoreMisses(past[i], past[j])
        BY <2>6, <3>1, <4>1 DEF RulesInv, CountInv, k
      <4> QED
        BY <4>1, <4>2
    <3>2. CASE j = k + 1 /\ i \in 1 .. k
      BY <1>5, <2>4, <3>2
    <3>3. CASE j = k + 1 /\ i = k + 1
      BY <1>5, <2>3, <3>3
    <3>4. k \in Nat
      BY <1>1
    <3>5. j \in 1 .. k \/ (j = k + 1 /\ i \in 1 .. k) \/ (j = k + 1 /\ i = k + 1)
      BY <3>4
    <3> QED
      BY <3>1, <3>2, <3>3, <3>5, Zenon
  <2>7. node'.produced <= node'.expected /\ node'.expected <= k + 1
    <3>1. n.produced <= n.expected /\ n.expected <= node.expected + 1
      BY <1>2
    <3>2. k \in Nat /\ node.expected <= k
      BY <1>1
    <3>3. n.expected <= k + 1
      BY <2>1, <3>1, <3>2
    <3> QED
      BY <1>4, <3>1, <3>3
  <2> QED
    BY <1>4, <1>5, <2>5, <2>6, <2>7 DEF CountInv, LivedOn, NoMoreMisses
<1> QED
  BY <1>6, <1>9, <1>10, <1>11 DEF RulesInv

LEMMA RulesNextInv ==
    ASSUME WindowsHold, RulesInv, [RulesNext]_rulesVars
    PROVE  RulesInv'
<1>1. CASE UNCHANGED rulesVars
  BY <1>1 DEF rulesVars, RulesInv, RulesTypes, InOrder, KeptIsTrimmed, Trim, CountInv,
              LivedOn, NoMoreMisses
<1>2. CASE RulesNext
  <2>1. PICK n \in Lives(node), delay \in Delays :
          LET at == IF past = <<>> THEN 0 ELSE After(Last(past).at, delay)
          IN  \E s \in Shows(Healthy(at, n)) : Sample(at, n, s)
    BY <1>2 DEF RulesNext
  <2> DEFINE at == IF past = <<>> THEN 0 ELSE After(Last(past).at, delay)
  <2>2. PICK s : Sample(at, n, s)
    BY <2>1
  <2>3. at \in Nat /\ (past # <<>> => Last(past).at < at /\ at <= Last(past).at + LongestGap)
    <3>1. CASE past = <<>>
      BY <3>1
    <3>2. CASE past # <<>>
      <4>1. past \in Seq(Samples) /\ Len(past) \in 1 .. Len(past)
        BY <3>2 DEF RulesInv, RulesTypes
      <4>2. Last(past).at \in Nat
        BY <4>1, SampleAts DEF Last
      <4> QED
        BY <3>2, <4>2, AfterIs
    <3> QED
      BY <3>1, <3>2
  <2>4. Len(past) < MaxSamples
    BY <1>2 DEF RulesNext
  <2> HIDE DEF at
  <2> QED
    BY <2>2, <2>3, <2>4, SampleInv
<1> QED
  BY <1>1, <1>2

(* Verdicts.                                                               *)
LEMMA MinutesAre ==
    ASSUME RulesTypes
    PROVE  Minutes \in 0 .. MaxWindow
BY RulesAssumption DEF RulesTypes, Minutes, Clamp

LEMMA PastIs ==
    ASSUME RulesTypes, past # <<>>
    PROVE  /\ past \in Seq(Samples) /\ Len(past) \in Nat /\ Len(past) \in 1 .. Len(past)
           /\ Last(past) = past[Len(past)] /\ Last(past) \in Samples /\ Last(past).at \in Nat
           /\ \A i \in 1 .. Len(past) : past[i] \in Samples /\ past[i].at \in Nat
<1>1. past \in Seq(Samples) /\ Len(past) \in Nat /\ Len(past) # 0
  BY DEF RulesTypes
<1> QED
  BY <1>1, SampleAts DEF Last

\* A window is the end of the past, and not empty.
LEMMA WindowIs ==
    ASSUME RulesTypes, past # <<>>, NEW d \in 0 .. MaxWindow
    PROVE  \E b \in 1 .. Len(past) :
             /\ Since(past, d) = Suffix(past, b)
             /\ \A j \in 1 .. b - 1 : past[j].at < Last(past).at - d
             /\ past[b].at >= Last(past).at - d
<1> DEFINE t == Last(past).at - d
           b == FirstFrom(past, t)
<1>1. /\ past \in Seq(Samples) /\ Len(past) \in Nat /\ Len(past) \in 1 .. Len(past)
      /\ Last(past) = past[Len(past)] /\ Last(past).at \in Nat
  BY PastIs
<1>2. t \in Int /\ Last(past).at >= t /\ d \in Nat
  BY <1>1, RulesAssumption
<1>3. IsFirst(past, t, b)
  BY <1>1, <1>2, FirstFromIs
<1>4. Since(past, d) = Suffix(past, b)
  BY DEF Since, From, Suffix
<1> HIDE DEF t, b
<1>5. ~(b = Len(past) + 1)
  <2>1. ASSUME b = Len(past) + 1 PROVE FALSE
    <3>1. past[Len(past)].at < t
      BY <1>1, <1>3, <2>1 DEF IsFirst
    <3> QED
      BY <1>1, <1>2, <3>1
  <2> QED
    BY <2>1
<1>6. b \in 1 .. Len(past) /\ past[b].at >= t /\ \A j \in 1 .. b - 1 : past[j].at < t
  <2>1. b \in 1 .. Len(past)
    BY <1>1, <1>3, <1>5 DEF IsFirst
  <2> QED
    BY <1>1, <1>3, <2>1 DEF IsFirst
<1> QED
  BY <1>4, <1>6 DEF t

\* No rule asks for more than is kept.
LEMMA KeptIsEnough ==
    ASSUME WindowsHold, RulesInv, past # <<>>
    PROVE  /\ Last(kept) = Last(past) /\ kept # <<>>
           /\ Len(kept) >= 2 <=> Len(past) >= 2
           /\ LastN(kept, 2) = LastN(past, 2)
           /\ \A d \in 0 .. MaxWindow : Since(kept, d) = Since(past, d)
<1> DEFINE n == Len(past)
<1>0. RulesTypes /\ InOrder /\ KeptIsTrimmed
  BY DEF RulesInv
<1>1. /\ past \in Seq(Samples) /\ n \in Nat /\ n \in 1 .. n
      /\ Last(past) = past[n] /\ Last(past).at \in Nat
      /\ \A i \in 1 .. n : past[i] \in Samples /\ past[i].at \in Nat
  BY <1>0, PastIs
<1>2. PICK b \in 1 .. n :
        /\ kept = Suffix(past, b)
        /\ \A j \in 1 .. b - 1 : past[j].at < Last(past).at - MaxWindow
  BY <1>0, KeptFrom
<1> HIDE DEF n
<1>3. b \in 1 .. Len(past) + 1 /\ MaxWindow \in Nat
  BY <1>1, RulesAssumption DEF n
<1>4. /\ kept \in Seq(Samples) /\ Len(kept) = n - b + 1
      /\ \A i \in 1 .. n - b + 1 : kept[i] = past[b + i - 1]
  BY <1>1, <1>2, <1>3, SuffixIs DEF n
<1>5. Last(kept) = Last(past) /\ kept # <<>>
  <2>1. n - b + 1 \in 1 .. n - b + 1 /\ b + (n - b + 1) - 1 = n
    BY <1>1
  <2>2. kept[n - b + 1] = past[n]
    BY <1>4, <2>1
  <2> QED
    BY <1>1, <1>4, <2>1, <2>2 DEF Last
<1>6. ASSUME n >= 2 PROVE b <= n - 1
  <2>1. n \in 2 .. n /\ n - 1 \in 1 .. n
    BY <1>1, <1>6
  <2>2. past[n].at <= past[n - 1].at + LongestGap
    BY <1>0, <2>1 DEF InOrder, n
  <2>3. LongestGap \in Nat /\ LongestGap <= MaxWindow
    BY GapIs
  <2>4. ~(b = n)
    <3>1. ASSUME b = n PROVE FALSE
      <4>1. past[n - 1].at < Last(past).at - MaxWindow
        BY <1>1, <1>2, <2>1, <3>1
      <4> QED
        BY <1>1, <1>3, <2>1, <2>2, <2>3, <4>1
    <3> QED
      BY <3>1
  <2> QED
    BY <1>1, <2>4
<1>7. Len(kept) >= 2 <=> n >= 2
  BY <1>1, <1>4, <1>6
<1>8. LastN(kept, 2) = LastN(past, 2)
  <2>1. CASE n <= 2
    <3>1. b = 1
      BY <1>1, <1>6, <2>1
    <3>2. kept = past
      BY <1>1, <1>2, <3>1, SubSeqFull DEF Suffix
    <3> QED
      BY <3>2
  <2>2. CASE n > 2
    <3>1. LastN(past, 2) = Suffix(past, n - 1)
      <4>1. n - 2 + 1 = n - 1 /\ ~(n <= 2)
        BY <1>1, <2>2
      <4> QED
        BY <4>1 DEF LastN, Suffix, n
    <3>2. CASE Len(kept) <= 2
      <4>1. b = n - 1 /\ LastN(kept, 2) = kept
        BY <1>1, <1>4, <1>7, <2>2, <3>2 DEF LastN
      <4> QED
        BY <1>2, <3>1, <4>1
    <3>3. CASE Len(kept) > 2
      <4>1. LastN(kept, 2) = Suffix(kept, Len(kept) - 2 + 1)
        BY <1>1, <1>4, <3>3 DEF LastN, Suffix
      <4>2. Len(kept) - 2 + 1 \in 1 .. Len(past) - b + 2
        BY <1>1, <1>4, <3>3 DEF n
      <4>3. Suffix(kept, Len(kept) - 2 + 1) = Suffix(past, b + (Len(kept) - 2 + 1) - 1)
        BY <1>1, <1>2, <1>3, <4>2, SuffixOfSuffix
      <4>4. b + (Len(kept) - 2 + 1) - 1 = n - 1
        BY <1>1, <1>4
      <4> QED
        BY <3>1, <4>1, <4>3, <4>4
    <3> QED
      BY <1>1, <1>4, <3>2, <3>3
  <2> QED
    BY <1>1, <2>1, <2>2
<1>9. ASSUME NEW d \in 0 .. MaxWindow PROVE Since(kept, d) = Since(past, d)
  <2>1. Last(past).at - d \in Int
    BY <1>1, <1>3
  <2>2. ASSUME NEW j \in 1 .. b - 1 PROVE past[j].at < Last(past).at - d
    <3>1. j \in 1 .. n /\ past[j].at < Last(past).at - MaxWindow
      BY <1>1, <1>2
    <3> QED
      BY <1>1, <1>3, <3>1
  <2>3. From(kept, Last(past).at - d) = From(past, Last(past).at - d)
    BY <1>1, <1>2, <1>3, <2>1, <2>2, FromSuffix
  <2> QED
    BY <1>5, <2>3 DEF Since
<1> QED
  BY <1>5, <1>7, <1>8, <1>9 DEF n

LEMMA FiresAre ==
    ASSUME NEW h
    PROVE  /\ Fires("service_down", h) <=> ServiceDown(h)
           /\ Fires("crash_loop", h) <=> CrashLoop(h, Minutes)
           /\ Fires("sync_stalled", h) <=> SyncStalled(h)
           /\ Fires("sync_behind", h) <=> SyncBehind(h, Minutes)
           /\ Fires("not_enough_peers", h) <=> NotEnoughPeers(h, Minutes)
           /\ Fires("rpc_unreachable", h) <=> RpcUnreachable(h, Minutes)
           /\ Fires("momentums_stalled", h) <=> MomentumsStalled(h, Minutes)
           /\ Fires("pillar_missed", h) <=> PillarMissed(h, Minutes)
BY DEF Fires

LEMMA TrimIsHarmless ==
    ASSUME WindowsHold, RulesInv
    PROVE  TrimHarmless
<1>1. CASE past = <<>>
  <2>1. kept = past
    BY <1>1 DEF RulesInv, KeptIsTrimmed
  <2> QED
    BY <2>1 DEF TrimHarmless
<1>2. CASE past # <<>>
  <2> DEFINE d == Minutes
  <2>1. /\ Last(kept) = Last(past) /\ (Len(kept) >= 2 <=> Len(past) >= 2)
        /\ LastN(kept, 2) = LastN(past, 2) /\ Since(kept, d) = Since(past, d)
    BY <1>2, MinutesAre, KeptIsEnough DEF RulesInv
  <2> HIDE DEF d
  <2>2. (ServiceDown(kept) <=> ServiceDown(past)) /\ (SyncStalled(kept) <=> SyncStalled(past))
    BY <2>1, Zenon DEF ServiceDown, SyncStalled
  <2>3. CrashLoop(kept, d) <=> CrashLoop(past, d)
    BY <2>1, Zenon DEF CrashLoop
  <2>4. SyncBehind(kept, d) <=> SyncBehind(past, d)
    BY <2>1, Zenon DEF SyncBehind, Throughout
  <2>5. NotEnoughPeers(kept, d) <=> NotEnoughPeers(past, d)
    BY <2>1, Zenon DEF NotEnoughPeers, Throughout
  <2>6. RpcUnreachable(kept, d) <=> RpcUnreachable(past, d)
    BY <2>1, Zenon DEF RpcUnreachable, Throughout
  <2>7. MomentumsStalled(kept, d) <=> MomentumsStalled(past, d)
    BY <2>1, Zenon DEF MomentumsStalled, Throughout, All, Covers, Span
  <2>8. PillarMissed(kept, d) <=> PillarMissed(past, d)
    BY <2>1, Zenon DEF PillarMissed
  <2> QED
    BY <2>2, <2>3, <2>4, <2>5, <2>6, <2>7, <2>8, FiresAre DEF TrimHarmless, RuleNames, d
<1> QED
  BY <1>1, <1>2

\* What a rule fires on.
LEMMA InWindow ==
    ASSUME RulesTypes, past # <<>>
    PROVE  \E b \in 1 .. Len(past) :
             LET w == Since(past, Minutes)
             IN  /\ w = Suffix(past, b) /\ w \in Seq(Samples)
                 /\ Len(w) = Len(past) - b + 1 /\ DOMAIN w = 1 .. Len(w)
                 /\ \A i \in 1 .. Len(w) : w[i] = past[b + i - 1]
                 /\ w[1] = past[b] /\ Last(w) = Last(past)
                 /\ 1 \in DOMAIN w /\ Len(w) \in DOMAIN w /\ w[Len(w)] = Last(past)
<1> DEFINE w == Since(past, Minutes)
<1>1. /\ past \in Seq(Samples) /\ Len(past) \in Nat /\ Len(past) \in 1 .. Len(past)
      /\ Last(past) = past[Len(past)]
  BY PastIs
<1>2. PICK b \in 1 .. Len(past) : w = Suffix(past, b)
  BY MinutesAre, WindowIs
<1>3. /\ w \in Seq(Samples) /\ Len(w) = Len(past) - b + 1
      /\ \A i \in 1 .. Len(w) : w[i] = past[b + i - 1]
  <2>1. b \in 1 .. Len(past) + 1
    BY <1>1
  <2>2. /\ Suffix(past, b) \in Seq(Samples) /\ Len(Suffix(past, b)) = Len(past) - b + 1
        /\ \A i \in 1 .. Len(past) - b + 1 : Suffix(past, b)[i] = past[b + i - 1]
    BY <1>1, <2>1, SuffixIs, Zenon
  <2> QED
    BY <1>2, <2>2, Zenon
<1> HIDE DEF w
<1>4. /\ DOMAIN w = 1 .. Len(w) /\ 1 \in 1 .. Len(w) /\ Len(w) \in 1 .. Len(w)
      /\ b + 1 - 1 = b /\ b + Len(w) - 1 = Len(past)
  BY <1>1, <1>3
<1>5. w[1] = past[b] /\ w[Len(w)] = past[Len(past)] /\ Last(w) = w[Len(w)]
  BY <1>3, <1>4 DEF Last
<1>6. /\ w = Suffix(past, b) /\ w \in Seq(Samples)
      /\ Len(w) = Len(past) - b + 1 /\ DOMAIN w = 1 .. Len(w)
      /\ \A i \in 1 .. Len(w) : w[i] = past[b + i - 1]
      /\ w[1] = past[b] /\ Last(w) = Last(past)
      /\ 1 \in DOMAIN w /\ Len(w) \in DOMAIN w /\ w[Len(w)] = Last(past)
  BY <1>1, <1>2, <1>3, <1>4, <1>5
<1> QED
  BY <1>6 DEF w

LEMMA LastOfTwo ==
    ASSUME RulesTypes, Len(past) >= 2
    PROVE  \E i \in DOMAIN LastN(past, 2) : LastN(past, 2)[i] = Last(past)
<1>0. past # <<>>
  <2>1. Len(<<>>) = 0
    OBVIOUS
  <2> QED
    BY <2>1
<1>1. /\ past \in Seq(Samples) /\ Len(past) \in Nat /\ Len(past) \in 1 .. Len(past)
      /\ Last(past) = past[Len(past)]
  BY <1>0, PastIs
<1>2. CASE Len(past) <= 2
  <2>1. LastN(past, 2) = past
    BY <1>2 DEF LastN
  <2> QED
    BY <1>1, <2>1
<1>3. CASE Len(past) > 2
  <2>1. LastN(past, 2) = Suffix(past, Len(past) - 2 + 1)
    BY <1>1, <1>3 DEF LastN, Suffix
  <2>2. Len(past) - 2 + 1 \in 1 .. Len(past) + 1
    BY <1>1, <1>3
  <2>3. /\ LastN(past, 2) \in Seq(Samples)
        /\ Len(LastN(past, 2)) = Len(past) - (Len(past) - 2 + 1) + 1
        /\ \A i \in 1 .. Len(past) - (Len(past) - 2 + 1) + 1 :
              LastN(past, 2)[i] = past[(Len(past) - 2 + 1) + i - 1]
    BY <1>1, <2>1, <2>2, SuffixIs
  <2>4. /\ Len(past) - (Len(past) - 2 + 1) + 1 = 2
        /\ (Len(past) - 2 + 1) + 2 - 1 = Len(past)
    BY <1>1
  <2>5. 2 \in DOMAIN LastN(past, 2) /\ LastN(past, 2)[2] = past[Len(past)]
    BY <2>3, <2>4
  <2> QED
    BY <1>1, <2>5
<1> QED
  BY <1>1, <1>2, <1>3

LEMMA MaxIs ==
    ASSUME NEW n \in Nat, NEW R \in SUBSET (1 .. n), R # {}
    PROVE  Max(R) \in R /\ \A y \in R : Max(R) >= y
<1> DEFINE S == {n - i : i \in R}
<1>1. S \in SUBSET Nat /\ S # {}
  <2>1. \A i \in R : n - i \in Nat
    OBVIOUS
  <2> QED
    BY <2>1
<1> HIDE DEF S
<1>2. PICK m \in S : \A k \in S : m <= k
  BY <1>1, LeastNumber
<1>3. PICK x \in R : m = n - x
  BY <1>2 DEF S
<1>4. ASSUME NEW y \in R PROVE x >= y
  <2>1. n - y \in S
    BY DEF S
  <2>2. n - x <= n - y
    BY <1>2, <1>3, <2>1
  <2> QED
    BY <2>2
<1> QED
  BY <1>4 DEF Max

\* What pillar_missed counts over: from the newest rollover of the window on.
LEMMA RolloverIs ==
    ASSUME RulesTypes, past # <<>>, NEW b \in 1 .. Len(past),
           NEW w, w = Suffix(past, b)
    PROVE  \E c \in b .. Len(past) :
             /\ SinceRollover(w) = Suffix(past, c)
             /\ \A i \in c + 1 .. Len(past) : past[i].expected >= past[i - 1].expected
<1> DEFINE n == Len(past)
           R == Rollovers(w)
<1>1. past \in Seq(Samples) /\ n \in Nat /\ \A i \in 1 .. n : past[i].expected \in Nat
  <2>1. past \in Seq(Samples) /\ n \in Nat /\ \A i \in 1 .. n : past[i] \in Samples
    BY PastIs
  <2> QED
    BY <2>1, SampleFields
<1>2. /\ w \in Seq(Samples) /\ Len(w) = n - b + 1
      /\ \A i \in 1 .. n - b + 1 : w[i] = past[b + i - 1]
  <2>1. b \in 1 .. n + 1
    BY <1>1
  <2> QED
    BY <1>1, <2>1, SuffixIs
<1> HIDE DEF n
<1>3. R = {i \in 2 .. n - b + 1 : w[i].expected < w[i - 1].expected}
  BY <1>2 DEF Rollovers
<1>4. ASSUME NEW i \in b + 1 .. n, i - b + 1 \notin R
      PROVE  past[i].expected >= past[i - 1].expected
  <2>1. i - b + 1 \in 2 .. n - b + 1 /\ (i - b + 1) - 1 \in 1 .. n - b + 1
    BY <1>1
  <2>2. /\ w[i - b + 1] = past[b + (i - b + 1) - 1]
        /\ w[(i - b + 1) - 1] = past[b + ((i - b + 1) - 1) - 1]
    BY <1>1, <1>2, <2>1
  <2>3. /\ b + (i - b + 1) - 1 = i /\ b + ((i - b + 1) - 1) - 1 = i - 1
        /\ i \in 1 .. n /\ i - 1 \in 1 .. n
    BY <1>1
  <2>4. ~(w[i - b + 1].expected < w[(i - b + 1) - 1].expected)
    BY <1>3, <1>4, <2>1
  <2>5. ~(past[i].expected < past[i - 1].expected)
    BY <2>2, <2>3, <2>4
  <2> QED
    BY <1>1, <2>3, <2>5
<1>5. CASE R = {}
  <2>1. SinceRollover(w) = Suffix(past, b)
    BY <1>5 DEF SinceRollover
  <2>2. \A i \in b + 1 .. n : past[i].expected >= past[i - 1].expected
    BY <1>4, <1>5
  <2>3. b \in b .. n
    BY <1>1 DEF n
  <2> QED
    BY <2>1, <2>2, <2>3 DEF n
<1>6. CASE R # {}
  <2>1. R \in SUBSET (1 .. n - b + 1) /\ n - b + 1 \in Nat
    BY <1>1, <1>3 DEF n
  <2>2. Max(R) \in R /\ \A y \in R : Max(R) >= y
    BY <1>6, <2>1, MaxIs
  <2>3. PICK m \in 2 .. n - b + 1 : m = Max(R) /\ \A y \in R : m >= y
    BY <1>3, <2>2
  <2>4. SinceRollover(w) = Suffix(w, m)
    BY <1>6, <2>3 DEF SinceRollover, Suffix
  <2>5. Suffix(w, m) = Suffix(past, b + m - 1)
    <3>1. b \in 1 .. Len(past) + 1 /\ m \in 1 .. Len(past) - b + 2
      BY <1>1, <2>3 DEF n
    <3> QED
      BY <1>1, <3>1, SuffixOfSuffix
  <2>6. ASSUME NEW i \in (b + m - 1) + 1 .. n
        PROVE  past[i].expected >= past[i - 1].expected
    <3>1. i \in b + 1 .. n /\ i - b + 1 \in Nat /\ i - b + 1 > m
      BY <1>1, <2>3
    <3>2. i - b + 1 \notin R
      BY <2>3, <3>1
    <3> QED
      BY <1>4, <3>1, <3>2
  <2>7. b + m - 1 \in b .. n
    BY <1>1, <2>3
  <2> QED
    BY <2>4, <2>5, <2>6, <2>7 DEF n
<1> QED
  BY <1>5, <1>6

\* Every rule that fires speaks of the newest sample.
LEMMA LastSpeaks ==
    ASSUME RulesTypes, past # <<>>
    PROVE  /\ Fires("service_down", past) => Down(Last(past))
           /\ Fires("sync_stalled", past) => Stalled(Last(past))
           /\ Fires("sync_behind", past) => Syncing(Last(past))
           /\ Fires("not_enough_peers", past) => Lonely(Last(past))
           /\ Fires("rpc_unreachable", past) => Deaf(Last(past))
           /\ Fires("momentums_stalled", past) => Answers(Last(past))
           /\ Fires("pillar_missed", past) => Produces(Last(past))
<1> DEFINE w == Since(past, Minutes)
<1>1. PICK b \in 1 .. Len(past) :
        /\ w = Suffix(past, b)
        /\ Len(w) \in DOMAIN w /\ w[Len(w)] = Last(past)
  BY InWindow
<1> HIDE DEF w
<1>2. Fires("service_down", past) => Down(Last(past))
  BY FiresAre, LastOfTwo DEF ServiceDown, All
<1>3. Fires("sync_stalled", past) => Stalled(Last(past))
  BY FiresAre, LastOfTwo DEF SyncStalled, All
<1>4. Fires("sync_behind", past) => Syncing(Last(past))
  BY <1>1, FiresAre DEF SyncBehind, Throughout, All, w
<1>5. Fires("not_enough_peers", past) => Lonely(Last(past))
  BY <1>1, FiresAre DEF NotEnoughPeers, Throughout, All, w
<1>6. Fires("rpc_unreachable", past) => Deaf(Last(past))
  BY <1>1, FiresAre DEF RpcUnreachable, Throughout, All, w
<1>7. Fires("momentums_stalled", past) => Answers(Last(past))
  BY <1>1, FiresAre DEF MomentumsStalled, Throughout, All, w
<1>8. Fires("pillar_missed", past) => Produces(Last(past))
  <2>1. PICK c \in b .. Len(past) : SinceRollover(w) = Suffix(past, c)
    BY <1>1, RolloverIs
  <2>2. /\ past \in Seq(Samples) /\ Len(past) \in Nat /\ Last(past) = past[Len(past)]
    BY PastIs
  <2>3. c \in 1 .. Len(past) + 1 /\ c <= Len(past)
    BY <2>2
  <2>4. /\ SinceRollover(w) \in Seq(Samples) /\ Len(SinceRollover(w)) = Len(past) - c + 1
        /\ \A i \in 1 .. Len(past) - c + 1 : SinceRollover(w)[i] = past[c + i - 1]
    BY <2>1, <2>2, <2>3, SuffixIs
  <2>5. /\ Len(past) - c + 1 \in 1 .. Len(past) - c + 1
        /\ c + (Len(past) - c + 1) - 1 = Len(past)
    BY <2>2, <2>3
  <2>6. /\ Len(past) - c + 1 \in DOMAIN SinceRollover(w)
        /\ SinceRollover(w)[Len(past) - c + 1] = Last(past)
    BY <2>2, <2>4, <2>5
  <2>7. Fires("pillar_missed", past) => \A i \in DOMAIN SinceRollover(w) : Produces(SinceRollover(w)[i])
    BY FiresAre, Zenon DEF PillarMissed, All, w
  <2> QED
    BY <2>6, <2>7
<1> QED
  BY <1>2, <1>3, <1>4, <1>5, <1>6, <1>7, <1>8

LEMMA NothingFiresYet ==
    ASSUME NEW rule \in RuleNames, past = <<>>
    PROVE  ~Fires(rule, past)
<1>1. Len(past) = 0 /\ Since(past, Minutes) = past
  BY DEF Since
<1>2. ~(Len(past) >= 2) /\ ~Covers(Since(past, Minutes), Minutes)
  BY <1>1 DEF Covers
<1>3. ~ServiceDown(past) /\ ~SyncStalled(past) /\ ~CrashLoop(past, Minutes)
  BY <1>1, <1>2 DEF ServiceDown, SyncStalled, CrashLoop
<1>4. /\ ~SyncBehind(past, Minutes) /\ ~NotEnoughPeers(past, Minutes)
      /\ ~RpcUnreachable(past, Minutes) /\ ~MomentumsStalled(past, Minutes)
      /\ ~PillarMissed(past, Minutes)
  BY <1>2, Zenon DEF SyncBehind, NotEnoughPeers, RpcUnreachable, MomentumsStalled, PillarMissed,
     Throughout
<1> QED
  BY <1>3, <1>4, FiresAre DEF RuleNames

LEMMA OneCauseOnly ==
    ASSUME WindowsHold, RulesInv
    PROVE  OneCause
<1>1. \A rule \in RuleNames : Fires(rule, kept) <=> Fires(rule, past)
  BY TrimIsHarmless DEF TrimHarmless
<1>2. CASE past = <<>>
  BY <1>1, <1>2, NothingFiresYet DEF OneCause, RuleNames, NodeRules
<1>3. CASE past # <<>>
  <2>1. RulesTypes
    BY DEF RulesInv
  <2> QED
    BY <1>1, <1>3, <2>1, LastSpeaks DEF OneCause, RuleNames, NodeRules, Down, Stalled, Syncing,
       Lonely, Deaf, Answers, Produces
<1> QED
  BY <1>2, <1>3

\* crash_loop: the counter cannot have grown by more than the crashes.
LEMMA CrashesHappened ==
    ASSUME WindowsHold, RulesInv
    PROVE  CrashesAreReal
<1>0. RulesTypes /\ CountInv
  BY DEF RulesInv
<1>1. Fires("crash_loop", kept) <=> Fires("crash_loop", past)
  BY TrimIsHarmless DEF TrimHarmless, RuleNames
<1>2. CASE past = <<>>
  BY <1>1, <1>2, NothingFiresYet DEF CrashesAreReal, RuleNames
<1>3. CASE past # <<>>
  <2> DEFINE w == Since(past, Minutes)
             n == Len(past)
  <2>1. /\ n \in 1 .. n /\ Last(past) = past[n]
        /\ \A i \in 1 .. n : past[i] \in Samples
    BY <1>0, <1>3, PastIs
  <2>2. PICK b \in 1 .. n : w[1] = past[b] /\ Last(w) = Last(past)
    BY <1>0, <1>3, InWindow
  <2> HIDE DEF w
  <2>3. LivedOn(past[b], past[n])
    <3>1. b <= n
      BY <2>1
    <3> QED
      BY <1>0, <2>1, <3>1 DEF CountInv
  <2>4. past[b] \in Samples /\ past[n] \in Samples
    BY <2>1
  <2>5. /\ past[b].restarts \in Nat /\ past[b].crashes \in Nat
        /\ past[n].restarts \in Nat /\ past[n].crashes \in Nat /\ Count \in Nat
    BY <2>4, SampleFields, RulesAssumption
  <2>6. ASSUME Fires("crash_loop", kept) PROVE TrueCrashes(past, Minutes) >= Count
    <3>1. past[n].restarts - past[b].restarts >= Count
      BY <1>1, <2>1, <2>2, <2>6, FiresAre DEF CrashLoop, w
    <3>2. TrueCrashes(past, Minutes) = past[n].crashes - past[b].crashes
      BY <2>1, <2>2 DEF TrueCrashes, w
    <3> QED
      BY <2>3, <2>5, <3>1, <3>2 DEF LivedOn
  <2> QED
    BY <2>6 DEF CrashesAreReal
<1> QED
  BY <1>2, <1>3

\* pillar_missed: unsigned differences that do not wrap are what they seem,
\* and one that does is larger than any count of slots.
LEMMA Unwrapped ==
    ASSUME NEW m \in Nat \ {0}, NEW x \in 0 .. m - 1
    PROVE  x % m = x
<1>1. PICK q \in Nat, r \in 0 .. m - 1 : q = x \div m /\ r = x % m /\ x = m * q + r
  BY Divided
<1>2. q = 0
  <2> SUFFICES ASSUME q # 0 PROVE FALSE
    OBVIOUS
  <2>1. PICK p \in Nat : q = p + 1
    <3>1. q - 1 \in Nat /\ q = (q - 1) + 1
      BY <1>1
    <3> QED
      BY <3>1
  <2>2. m * q = m * p + m /\ m * p \in Nat
    BY <2>1
  <2> QED
    BY <1>1, <2>2
<1> QED
  BY <1>1, <1>2

LEMMA Wrapped ==
    ASSUME NEW m \in Nat \ {0}, NEW x \in Int, x < 0, x > -m
    PROVE  x % m = x + m
<1>1. PICK q \in Int, r \in 0 .. m - 1 : q = x \div m /\ r = x % m /\ x = m * q + r
  <2>1. x % m \in 0 .. m - 1
    BY SMT
  <2>2. x \div m \in Int
    BY SMT
  <2> QED
    BY <2>1, <2>2, Quotient
<1>2. ~(q >= 0)
  <2> SUFFICES ASSUME q >= 0 PROVE FALSE
    OBVIOUS
  <2>1. m * q >= 0 /\ m * q \in Int
    BY Z3
  <2> QED
    BY <1>1, <2>1
<1>3. ~(q <= -2)
  <2> SUFFICES ASSUME q <= -2 PROVE FALSE
    OBVIOUS
  <2>1. PICK p \in Nat : q = -2 - p
    <3>1. -2 - q \in Nat /\ q = -2 - (-2 - q)
      BY <1>1
    <3> QED
      BY <3>1
  <2>2. m * q = -(2 * m) - m * p /\ m * p \in Nat
    BY <2>1
  <2> QED
    BY <1>1, <2>2
<1>4. q = -1
  BY <1>1, <1>2, <1>3
<1>5. m * q = -m
  BY <1>4
<1> QED
  BY <1>1, <1>5

LEMMA UnsignedShortfall ==
    ASSUME NEW x \in Nat, NEW y \in Int, x < Word, y < Word, y > -Word, x <= y + Word,
           x % Word > y % Word
    PROVE  x % Word = x /\ y % Word = y
<1>1. Word \in Nat \ {0} /\ x \in 0 .. Word - 1
  BY RulesAssumption
<1>2. x % Word = x
  BY <1>1, Unwrapped
<1>3. y >= 0
  <2> SUFFICES ASSUME ~(y >= 0) PROVE FALSE
    OBVIOUS
  <2>1. y % Word = y + Word
    BY <1>1, Wrapped
  <2>2. x > y + Word
    BY <1>2, <2>1
  <2> QED
    BY <1>1, <2>2
<1>4. y \in 0 .. Word - 1
  BY <1>1, <1>3
<1>5. y % Word = y
  BY <1>1, <1>4, Unwrapped
<1> QED
  BY <1>2, <1>5

\* Counters that never fall from one sample to the next have not fallen since.
LEMMA NeverFallen ==
    ASSUME RulesTypes, past # <<>>, NEW c \in 1 .. Len(past),
           \A i \in c + 1 .. Len(past) : past[i].expected >= past[i - 1].expected
    PROVE  past[c].expected <= past[Len(past)].expected
<1> DEFINE n == Len(past)
           R == {j \in c .. n : past[j].expected > past[n].expected}
<1>1. n \in Nat /\ n \in 1 .. n /\ \A j \in 1 .. n : past[j].expected \in Nat
  <2>1. n \in Nat /\ n \in 1 .. n /\ \A j \in 1 .. n : past[j] \in Samples
    BY PastIs
  <2> QED
    BY <2>1, SampleFields
<1> HIDE DEF n
<1>2. R = {}
  <2> SUFFICES ASSUME R # {} PROVE FALSE
    OBVIOUS
  <2>1. R \in SUBSET (1 .. n)
    BY <1>1 DEF n
  <2>2. PICK j \in R : \A k \in R : j >= k
    <3> HIDE DEF R
    <3> QED
      BY <1>1, <2>1, MaxIs
  <2>3. j \in c .. n /\ j \in 1 .. n /\ past[j].expected > past[n].expected
    BY <2>1, <2>2
  <2>4. j # n
    BY <1>1, <2>3
  <2>5. j + 1 \in c + 1 .. n /\ (j + 1) - 1 = j /\ j + 1 \in 1 .. n /\ j + 1 \in c .. n
    BY <1>1, <2>3, <2>4 DEF n
  <2>6. past[j + 1].expected >= past[j].expected
    BY <2>5 DEF n
  <2>7. past[j + 1].expected > past[n].expected
    BY <1>1, <2>3, <2>5, <2>6
  <2>8. j + 1 \in R
    BY <2>5, <2>7
  <2> QED
    BY <2>2, <2>3, <2>8
<1>3. c \in c .. n
  BY <1>1 DEF n
<1>4. ~(past[c].expected > past[n].expected)
  BY <1>2, <1>3
<1> QED
  BY <1>1, <1>4 DEF n

LEMMA MissesHappened ==
    ASSUME WindowsHold, RulesInv
    PROVE  MissesAreReal
<1>0. RulesTypes /\ CountInv
  BY DEF RulesInv
<1>1. Fires("pillar_missed", kept) <=> Fires("pillar_missed", past)
  BY TrimIsHarmless DEF TrimHarmless, RuleNames
<1>2. CASE past = <<>>
  BY <1>1, <1>2, NothingFiresYet DEF MissesAreReal, RuleNames
<1>3. CASE past # <<>>
  <2> DEFINE w == Since(past, Minutes)
             v == SinceRollover(w)
             n == Len(past)
  <2>1. /\ past \in Seq(Samples) /\ n \in Nat /\ n \in 1 .. n /\ Last(past) = past[n]
        /\ \A i \in 1 .. n : past[i] \in Samples
    BY <1>0, <1>3, PastIs
  <2>2. PICK b \in 1 .. n : w = Suffix(past, b) /\ w[1] = past[b]
    BY <1>0, <1>3, InWindow
  <2> HIDE DEF w
  <2>3. PICK c \in b .. n :
          /\ v = Suffix(past, c)
          /\ \A i \in c + 1 .. n : past[i].expected >= past[i - 1].expected
    BY <1>0, <1>3, <2>2, RolloverIs
  <2> HIDE DEF v, n
  <2>4. c \in 1 .. n /\ c \in 1 .. Len(past) + 1 /\ b <= c /\ c <= n
    BY <2>1, <2>3 DEF n
  <2>5. /\ v \in Seq(Samples) /\ Len(v) = n - c + 1
        /\ \A i \in 1 .. n - c + 1 : v[i] = past[c + i - 1]
    BY <2>1, <2>3, <2>4, SuffixIs DEF n
  <2>6. /\ 1 \in 1 .. n - c + 1 /\ n - c + 1 \in 1 .. n - c + 1
        /\ c + 1 - 1 = c /\ c + (n - c + 1) - 1 = n
    BY <2>1, <2>4
  <2>7. v[1] = past[c] /\ Last(v) = past[n] /\ 1 \in DOMAIN v /\ Len(v) \in DOMAIN v /\ v[Len(v)] = past[n]
    BY <2>5, <2>6 DEF Last
  <2>8. past[c].expected <= past[n].expected
    BY <1>0, <1>3, <2>3, <2>4, NeverFallen DEF n
  <2>9. ASSUME Fires("pillar_missed", kept) PROVE TrueMisses(past, Minutes) >= MinMissed
    <3>1. /\ \A i \in DOMAIN v : Produces(v[i])
          /\ (Last(v).expected - v[1].expected) % Word > (Last(v).produced - v[1].produced) % Word
          /\ ((Last(v).expected - v[1].expected) % Word)
               - ((Last(v).produced - v[1].produced) % Word) >= MinMissed
      BY <1>1, <2>9, FiresAre, Zenon DEF PillarMissed, All, w, v
    <3>2. past[c].found /\ past[n].found
      BY <2>7, <3>1 DEF Produces
    <3>3. /\ past[b] \in Samples /\ past[c] \in Samples /\ past[n] \in Samples
      BY <2>1, <2>4
    <3>4. PICK e \in Nat, p \in Nat, f \in Nat, q \in Nat :
            /\ e = past[c].expected /\ p = past[c].produced
            /\ f = past[n].expected /\ q = past[n].produced
      BY <3>3, SampleFields
    <3>5. /\ p <= e /\ q <= f /\ f <= n /\ NoMoreMisses(past[c], past[n])
          /\ past[b].missed <= past[c].missed
      <4>1. b \in 1 .. n /\ c \in 1 .. n /\ n \in 1 .. n /\ b <= c /\ c <= n
        BY <2>1, <2>4
      <4> QED
        BY <1>0, <3>2, <3>4, <4>1 DEF CountInv, LivedOn, n
    <3>6. (f - q) - (e - p) <= past[n].missed - past[c].missed
      BY <3>4, <3>5 DEF NoMoreMisses
    <3>7. e <= f /\ f < Word /\ MinMissed \in Nat
      <4>1. n < Word /\ Word \in Nat
        BY <1>0, <2>1, RulesAssumption DEF WindowsHold, RulesTypes, n
      <4>2. e <= f /\ f <= n
        BY <2>8, <3>4, <3>5
      <4>3. f < Word
        BY <2>1, <4>1, <4>2
      <4> QED
        BY <4>2, <4>3, RulesAssumption
    <3>8. /\ ((f - e) % Word) > ((q - p) % Word)
          /\ ((f - e) % Word) - ((q - p) % Word) >= MinMissed
      BY <2>7, <3>1, <3>4
    <3>9. ((f - e) % Word) - ((q - p) % Word) = (f - q) - (e - p)
      <4>1. p <= e /\ q <= f /\ e <= f /\ f < Word /\ Word \in Nat
        BY <3>5, <3>7, RulesAssumption
      <4>2. PICK x \in Nat, y \in Int : x = f - e /\ y = q - p
        BY <4>1
      <4>3. x < Word /\ y < Word /\ y > -Word /\ x <= y + Word
        BY <4>1, <4>2
      <4>4. x % Word > y % Word
        BY <3>8, <4>2
      <4>5. x % Word = x /\ y % Word = y
        BY <4>3, <4>4, UnsignedShortfall
      <4>6. x - y = (f - q) - (e - p)
        BY <4>2
      <4>7. (f - e) % Word = x /\ (q - p) % Word = y
        BY <4>2, <4>5, Zenon
      <4> QED
        BY <4>6, <4>7, Zenon
    <3>10. (f - q) - (e - p) >= MinMissed
      BY <3>8, <3>9
    <3>11. TrueMisses(past, Minutes) = past[n].missed - past[b].missed
      BY <2>1, <2>2 DEF TrueMisses, w
    <3>12. /\ past[b].missed \in Nat /\ past[c].missed \in Nat /\ past[n].missed \in Nat
      BY <3>3, SampleFields
    <3> QED
      BY <3>5, <3>6, <3>7, <3>10, <3>11, <3>12
  <2> QED
    BY <2>9 DEF MissesAreReal
<1> QED
  BY <1>2, <1>3

\* A window that covers its minutes lacks at most one gap of them.
LEMMA LongWindow ==
    ASSUME WindowsHold, RulesInv, past # <<>>, Covers(Since(past, Minutes), Minutes)
    PROVE  \E b \in DOMAIN past :
             LET w == Since(past, Minutes)
             IN  /\ past[b].at <= Last(past).at - (Minutes - LongestGap)
                 /\ b < Len(past)
                 /\ w[1].height = past[b].height
                 /\ \A j \in b .. Len(past) : \E i \in DOMAIN w : w[i] = past[j]
                 /\ \E i \in DOMAIN w : w[i] = Last(past)
<1> DEFINE w == Since(past, Minutes)
           n == Len(past)
<1>0. RulesTypes /\ InOrder
  BY DEF RulesInv
<1>1. /\ past \in Seq(Samples) /\ n \in Nat /\ n \in 1 .. n /\ Last(past) = past[n]
      /\ \A i \in 1 .. n : past[i] \in Samples /\ past[i].at \in Nat
  BY <1>0, PastIs
<1>2. PICK b \in 1 .. n :
        /\ Len(w) = n - b + 1 /\ DOMAIN w = 1 .. Len(w)
        /\ \A i \in 1 .. Len(w) : w[i] = past[b + i - 1]
        /\ w[1] = past[b] /\ Last(w) = past[n]
        /\ Len(w) \in DOMAIN w /\ w[Len(w)] = Last(past)
  BY <1>0, <1>1, InWindow
<1>3. Len(w) >= 2 /\ (Last(w).at - w[1].at) + (w[2].at - w[1].at) >= Minutes
  BY DEF Covers, Span
<1> HIDE DEF w, n
<1>4. b < n /\ b + 1 \in 2 .. n /\ b + 1 \in 1 .. n /\ 2 \in 1 .. Len(w) /\ b + 2 - 1 = b + 1
      /\ (b + 1) - 1 = b
  BY <1>1, <1>2, <1>3
<1>5. w[2] = past[b + 1]
  BY <1>2, <1>4
<1>6. past[b + 1].at <= past[b].at + LongestGap
  BY <1>0, <1>4 DEF InOrder, n
<1>7. past[b].at <= past[n].at - (Minutes - LongestGap)
  <2>1. Minutes \in Nat
    BY <1>0, MinutesAre, RulesAssumption
  <2>2. LongestGap \in Nat
    BY GapIs
  <2>3. past[b].at \in Nat /\ past[b + 1].at \in Nat /\ past[n].at \in Nat
    BY <1>1, <1>4
  <2>4. (past[n].at - past[b].at) + (past[b + 1].at - past[b].at) >= Minutes
    BY <1>2, <1>3, <1>5
  <2>5. PICK x \in Nat, y \in Nat, z \in Nat :
          x = past[b].at /\ y = past[b + 1].at /\ z = past[n].at
    BY <2>3
  <2>6. (z - x) + (y - x) >= Minutes /\ y <= x + LongestGap
    BY <1>6, <2>4, <2>5
  <2>7. x <= z - (Minutes - LongestGap)
    BY <2>1, <2>2, <2>6
  <2> QED
    BY <2>5, <2>7
<1>8. ASSUME NEW j \in b .. n PROVE \E i \in DOMAIN w : w[i] = past[j]
  <2>1. j - b + 1 \in 1 .. Len(w) /\ b + (j - b + 1) - 1 = j
    BY <1>1, <1>2
  <2>2. w[j - b + 1] = past[b + (j - b + 1) - 1]
    BY <1>2, <2>1
  <2> QED
    BY <1>2, <2>1, <2>2
<1>9. /\ b \in DOMAIN past /\ past[b].at <= Last(past).at - (Minutes - LongestGap)
      /\ b < n /\ w[1].height = past[b].height
      /\ \A j \in b .. n : \E i \in DOMAIN w : w[i] = past[j]
      /\ \E i \in DOMAIN w : w[i] = Last(past)
  <2>1. DOMAIN past = 1 .. n
    BY <1>1 DEF n
  <2> QED
    BY <1>1, <1>2, <1>4, <1>7, <1>8, <2>1
<1> QED
  BY <1>9 DEF w, n

LEMMA EvidenceWasThere ==
    ASSUME WindowsHold, RulesInv
    PROVE  EvidenceLasted
<1> SUFFICES ASSUME NEW rule \in Windowed, Fires(rule, kept)
             PROVE  \E i \in DOMAIN past :
                      /\ past[i].at <= Last(past).at - (Minutes - LongestGap)
                      /\ i < Len(past)
                      /\ \A j \in i .. Len(past) : Symptom(rule, past[j])
  BY DEF EvidenceLasted
<1> DEFINE w == Since(past, Minutes)
<1>1. rule \in RuleNames /\ Windowed \subseteq RuleNames
  BY DEF Windowed, RuleNames
<1>2. Fires(rule, past)
  BY <1>1, TrimIsHarmless DEF TrimHarmless
<1>3. past # <<>>
  BY <1>1, <1>2, NothingFiresYet
<1>4. /\ rule = "sync_behind" => Covers(w, Minutes) /\ \A i \in DOMAIN w : Syncing(w[i])
      /\ rule = "not_enough_peers" => Covers(w, Minutes) /\ \A i \in DOMAIN w : Lonely(w[i])
      /\ rule = "rpc_unreachable" => Covers(w, Minutes) /\ \A i \in DOMAIN w : Deaf(w[i])
      /\ rule = "momentums_stalled" =>
           /\ Covers(w, Minutes)
           /\ \A i \in DOMAIN w : Answers(w[i]) /\ w[i].height = w[1].height
  <2>1. rule = "sync_behind" => Covers(w, Minutes) /\ \A i \in DOMAIN w : Syncing(w[i])
    BY <1>2, FiresAre, Zenon DEF SyncBehind, Throughout, All
  <2>2. rule = "not_enough_peers" => Covers(w, Minutes) /\ \A i \in DOMAIN w : Lonely(w[i])
    BY <1>2, FiresAre, Zenon DEF NotEnoughPeers, Throughout, All
  <2>3. rule = "rpc_unreachable" => Covers(w, Minutes) /\ \A i \in DOMAIN w : Deaf(w[i])
    BY <1>2, FiresAre, Zenon DEF RpcUnreachable, Throughout, All
  <2>4. rule = "momentums_stalled" =>
           /\ Covers(w, Minutes)
           /\ \A i \in DOMAIN w : Answers(w[i]) /\ w[i].height = w[1].height
    BY <1>2, FiresAre, Zenon DEF MomentumsStalled, Throughout, All
  <2> QED
    BY <2>1, <2>2, <2>3, <2>4
<1>5. Covers(w, Minutes)
  BY <1>4 DEF Windowed
<1>6. PICK b \in DOMAIN past :
        /\ past[b].at <= Last(past).at - (Minutes - LongestGap)
        /\ b < Len(past)
        /\ w[1].height = past[b].height
        /\ \A j \in b .. Len(past) : \E i \in DOMAIN w : w[i] = past[j]
        /\ \E i \in DOMAIN w : w[i] = Last(past)
  BY <1>3, <1>5, LongWindow
<1> HIDE DEF w
<1>7. ASSUME NEW j \in b .. Len(past) PROVE Symptom(rule, past[j])
  <2>1. PICK i \in DOMAIN w : w[i] = past[j]
    BY <1>6
  <2>2. CASE rule = "sync_behind"
    BY <1>4, <2>1, <2>2 DEF Symptom
  <2>3. CASE rule = "not_enough_peers"
    BY <1>4, <2>1, <2>3 DEF Symptom
  <2>4. CASE rule = "rpc_unreachable"
    BY <1>4, <2>1, <2>4 DEF Symptom
  <2>5. CASE rule = "momentums_stalled"
    <3>1. PICK k \in DOMAIN w : w[k] = Last(past)
      BY <1>6
    <3>2. Answers(past[j]) /\ past[j].height = Last(past).height
      BY <1>4, <2>1, <2>5, <3>1
    <3> QED
      BY <2>5, <3>2 DEF Symptom
  <2> QED
    BY <2>2, <2>3, <2>4, <2>5 DEF Windowed
<1> QED
  BY <1>6, <1>7

(***************************************************************************)
(* However long the daemon runs, an alarm is of what happened: the trimmed *)
(* history gives every rule the verdict of the whole one, the causes do    *)
(* not overlap, the crashes and the missed slots counted are real, and a   *)
(* rule with a window has seen all of it but one gap (rules.go).           *)
(***************************************************************************)
THEOREM AlarmsAreTrue ==
    ASSUME SystemdAnswers, Interval <= MaxWindow, \A d \in Delays : d <= MaxWindow,
           MaxSamples < Word
    PROVE  RulesSpec => []AlarmsAreReal
<1>1. WindowsHold
  BY DEF WindowsHold
<1>2. RulesInit => RulesInv
  BY <1>1, RulesInitInv
<1>3. RulesInv /\ [RulesNext]_rulesVars => RulesInv'
  BY <1>1, RulesNextInv
<1>4. RulesInv => AlarmsAreReal
  BY <1>1, TrimIsHarmless, OneCauseOnly, CrashesHappened, MissesHappened, EvidenceWasThere
     DEF AlarmsAreReal
<1> QED
  BY <1>2, <1>3, <1>4, PTL DEF RulesSpec

\* One more sample, as far from the last as those before it: the window moves
\* on by one and still covers its minutes.
LEMMA StillCovered ==
    ASSUME WindowsHold, RulesInv, RulesInv', Minutes + Interval <= MaxWindow, past # <<>>,
           NEW s \in Samples, past' = Append(past, s),
           Covers(Since(past, Minutes), Minutes), Even(kept')
    PROVE  LET w == Since(past, Minutes)
               v == Since(kept', Minutes)
           IN  Covers(v, Minutes) /\ \A i \in DOMAIN v : v[i] = s \/ \E j \in DOMAIN w : v[i] = w[j]
<1> DEFINE n == Len(past)
           d == Minutes
           g == Append(past, s)
           t == past[n].at
           u == s.at
           w == Since(past, d)
           v == Since(kept', d)
           k == kept'
<1>0. RulesTypes /\ InOrder
  BY DEF RulesInv
<1>1. /\ past \in Seq(Samples) /\ n \in Nat /\ n \in 1 .. n /\ Last(past) = past[n] /\ t \in Nat
      /\ \A i \in 1 .. n : past[i] \in Samples /\ past[i].at \in Nat
  BY <1>0, PastIs
<1>2. /\ g \in Seq(Samples) /\ Len(g) = n + 1 /\ g[n + 1] = s
      /\ \A i \in 1 .. n : g[i] = past[i]
  BY <1>1, AppendProperties
<1>3. /\ d \in Nat /\ d <= MaxWindow /\ d + Interval <= MaxWindow
      /\ MaxWindow \in Nat /\ Interval \in Nat /\ Interval # 0 /\ u \in Nat
      /\ LongestGap \in Nat /\ LongestGap <= MaxWindow
  BY <1>0, MinutesAre, GapIs, RulesAssumption, SampleFields
<1>4. g # <<>> /\ Last(g) = s
  BY <1>1, <1>2 DEF Last
<1>5. k = Trim(g, u)
  <2>1. past' = g /\ KeptIsTrimmed'
    BY DEF RulesInv
  <2> HIDE DEF g
  <2> QED
    BY <1>4, <2>1 DEF KeptIsTrimmed
<1>6. t < u /\ u <= t + LongestGap
  <2>1. past' = g /\ InOrder'
    BY DEF RulesInv
  <2> HIDE DEF g
  <2>2. n \in 1 .. n + 1 /\ n + 1 \in 2 .. n + 1 /\ n + 1 \in 1 .. n + 1 /\ n < n + 1
        /\ (n + 1) - 1 = n
    BY <1>1
  <2>3. g[n].at < g[n + 1].at /\ g[n + 1].at <= g[n].at + LongestGap
    BY <1>2, <2>1, <2>2 DEF InOrder
  <2> QED
    BY <1>1, <1>2, <2>3
<1>7. PICK b \in 1 .. n :
        /\ w = Suffix(past, b)
        /\ \A j \in 1 .. b - 1 : past[j].at < t - d
        /\ past[b].at >= t - d
  <2>1. d \in 0 .. MaxWindow
    BY <1>3
  <2> HIDE DEF d
  <2> QED
    BY <1>0, <1>1, <2>1, WindowIs
<1>8. Covers(w, d) /\ Even(k)
  OBVIOUS
<1> HIDE DEF n, d, g, t, u, w, v, k
<1>9. /\ w \in Seq(Samples) /\ Len(w) = n - b + 1
      /\ \A i \in 1 .. n - b + 1 : w[i] = past[b + i - 1]
  <2>1. b \in 1 .. Len(past) + 1
    BY <1>1 DEF n
  <2> QED
    BY <1>1, <1>7, <2>1, SuffixIs DEF n
<1>10. b + 1 \in 2 .. n /\ b + 1 \in 1 .. n
       /\ (t - past[b].at) + (past[b + 1].at - past[b].at) >= d
  <2>1. Len(w) >= 2 /\ (Last(w).at - w[1].at) + (w[2].at - w[1].at) >= d
    BY <1>8 DEF Covers, Span
  <2>2. /\ 1 \in 1 .. n - b + 1 /\ 2 \in 1 .. n - b + 1 /\ n - b + 1 \in 1 .. n - b + 1
        /\ b + 1 - 1 = b /\ b + 2 - 1 = b + 1 /\ b + (n - b + 1) - 1 = n
    BY <1>1, <1>9, <2>1
  <2>3. w[1] = past[b] /\ w[2] = past[b + 1] /\ Last(w) = past[n]
    BY <1>9, <2>2 DEF Last
  <2> QED
    BY <1>1, <1>9, <2>1, <2>3 DEF t
<1>11. PICK a : IsFirst(g, u - MaxWindow, a) /\ k = Suffix(g, a)
  <2>1. u - MaxWindow \in Int
    BY <1>3
  <2> QED
    BY <1>2, <1>5, <2>1, FirstFromIs DEF Trim, From, Suffix
<1>12. a \in 1 .. n
  <2>1. a \in 1 .. n + 2 /\ \A j \in 1 .. a - 1 : g[j].at < u - MaxWindow
    BY <1>1, <1>2, <1>11 DEF IsFirst
  <2>2. ASSUME a > n PROVE FALSE
    <3>1. g[n].at < u - MaxWindow
      BY <1>1, <2>1, <2>2
    <3>2. g[n].at = t
      BY <1>1, <1>2 DEF t
    <3> QED
      BY <1>1, <1>3, <1>6, <3>1, <3>2
  <2> QED
    BY <1>1, <2>1, <2>2
<1>13. /\ k \in Seq(Samples) /\ Len(k) = n + 1 - a + 1
       /\ \A i \in 1 .. n + 1 - a + 1 : k[i] = g[a + i - 1]
  <2>1. a \in 1 .. Len(g) + 1
    BY <1>1, <1>2, <1>12
  <2>2. /\ k \in Seq(Samples) /\ Len(k) = Len(g) - a + 1
        /\ \A i \in 1 .. Len(g) - a + 1 : k[i] = g[a + i - 1]
    BY <1>2, <1>11, <2>1, SuffixIs, Zenon
  <2>3. Len(g) = n + 1 /\ n \in Nat /\ a \in Nat
    BY <1>1, <1>2, <1>12
  <2> QED
    BY <2>2, <2>3
<1>14. ASSUME NEW j \in a + 1 .. n + 1 PROVE g[j].at - g[j - 1].at = Interval
  <2>1. /\ j - a + 1 \in 2 .. Len(k) /\ j - a + 1 \in 1 .. n + 1 - a + 1
        /\ (j - a + 1) - 1 \in 1 .. n + 1 - a + 1
        /\ a + (j - a + 1) - 1 = j /\ a + ((j - a + 1) - 1) - 1 = j - 1
    BY <1>1, <1>12, <1>13
  <2>2. k[j - a + 1].at - k[(j - a + 1) - 1].at = Interval
    BY <1>8, <2>1 DEF Even
  <2>3. k[j - a + 1] = g[j] /\ k[(j - a + 1) - 1] = g[j - 1]
    BY <1>13, <2>1
  <2> QED
    BY <2>2, <2>3
<1>15. u = t + Interval
  <2>1. n + 1 \in a + 1 .. n + 1 /\ (n + 1) - 1 = n
    BY <1>1, <1>12
  <2>2. g[n + 1].at - g[n].at = Interval
    BY <1>14, <2>1
  <2>3. g[n + 1].at = u /\ g[n].at = t
    BY <1>1, <1>2 DEF t, u
  <2> QED
    BY <1>1, <1>3, <2>2, <2>3
<1>16. a <= b
  <2>1. past[b].at \in Nat /\ past[b].at >= u - MaxWindow /\ g[b] = past[b]
    BY <1>1, <1>2, <1>3, <1>7, <1>15
  <2>2. ASSUME b < a PROVE FALSE
    <3>1. b \in 1 .. a - 1
      BY <1>1, <1>12, <2>2
    <3>2. g[b].at < u - MaxWindow
      BY <1>11, <3>1 DEF IsFirst
    <3> QED
      BY <1>3, <2>1, <3>2
  <2> QED
    BY <1>1, <1>12, <2>2
<1>17. Interval <= d /\ past[b + 1].at - past[b].at = Interval
  <2>1. b + 1 \in a + 1 .. n + 1 /\ (b + 1) - 1 = b
    BY <1>1, <1>10, <1>12, <1>16
  <2>2. g[b + 1].at - g[b].at = Interval
    BY <1>14, <2>1
  <2>3. g[b + 1] = past[b + 1] /\ g[b] = past[b]
    BY <1>2, <1>10
  <2>4. past[b + 1].at <= t /\ past[b + 1].at \in Nat /\ past[b].at \in Nat
    <3>1. b + 1 < n => past[b + 1].at < past[n].at
      BY <1>0, <1>1, <1>10 DEF InOrder, n
    <3> QED
      BY <1>1, <1>10, <3>1 DEF t
  <2>5. PICK x \in Nat, y \in Nat : x = past[b].at /\ y = past[b + 1].at
    BY <2>4
  <2>6. y - x = Interval
    BY <2>2, <2>3, <2>5
  <2>7. x >= t - d /\ y <= t
    BY <1>7, <2>4, <2>5
  <2>8. Interval <= d
    BY <1>1, <1>3, <2>6, <2>7
  <2> QED
    BY <2>5, <2>6, <2>8
<1>18. PICK c : IsFirst(g, u - d, c) /\ v = Suffix(g, c)
  <2>1. u - d \in Int /\ a \in 1 .. Len(g) + 1
    BY <1>1, <1>2, <1>3, <1>12
  <2>2. ASSUME NEW j \in 1 .. a - 1 PROVE g[j].at < u - d
    <3>1. g[j].at < u - MaxWindow
      BY <1>11 DEF IsFirst
    <3>2. g[j].at \in Nat
      <4>1. j \in 1 .. n
        BY <1>1, <1>12
      <4> QED
        BY <1>1, <1>2, <4>1
    <3> QED
      BY <1>3, <3>1, <3>2
  <2>3. From(k, u - d) = From(g, u - d)
    BY <1>2, <1>11, <2>1, <2>2, FromSuffix
  <2>4. k # <<>> /\ Last(k) = s
    <3>1. n + 1 - a + 1 \in 1 .. n + 1 - a + 1 /\ a + (n + 1 - a + 1) - 1 = n + 1
      BY <1>1, <1>12
    <3>2. k[Len(k)] = s /\ Len(k) # 0
      BY <1>2, <1>13, <3>1
    <3> QED
      BY <3>2 DEF Last
  <2>5. v = From(k, u - d)
    BY <2>4 DEF v, k, u, Since
  <2> QED
    BY <1>2, <2>1, <2>3, <2>5, FirstFromIs DEF From, Suffix
<1>19. c \in b .. n
  <2>1. /\ c \in 1 .. n + 2 /\ (c <= n + 1 => g[c].at >= u - d)
        /\ \A j \in 1 .. c - 1 : g[j].at < u - d
    BY <1>1, <1>2, <1>18 DEF IsFirst
  <2>2. ASSUME c < b PROVE FALSE
    <3>1. c \in 1 .. b - 1 /\ c \in 1 .. n /\ c <= n + 1
      BY <1>1, <2>1, <2>2
    <3>2. PICK x \in Nat : x = past[c].at
      BY <1>1, <3>1
    <3>3. g[c] = past[c]
      BY <1>2, <3>1
    <3>4. x >= u - d /\ x < t - d
      BY <1>7, <2>1, <3>1, <3>2, <3>3
    <3> QED
      BY <1>1, <1>3, <1>6, <3>4
  <2>3. ASSUME c > n PROVE FALSE
    <3>1. n \in 1 .. c - 1
      BY <1>1, <2>1, <2>3
    <3>2. g[n].at < u - d /\ g[n].at = t
      BY <1>1, <1>2, <2>1, <3>1 DEF t
    <3> QED
      BY <1>1, <1>3, <1>15, <1>17, <3>2
  <2> QED
    BY <1>1, <2>1, <2>2, <2>3
<1>20. /\ v \in Seq(Samples) /\ Len(v) = n + 1 - c + 1 /\ DOMAIN v = 1 .. n + 1 - c + 1
       /\ \A i \in 1 .. n + 1 - c + 1 : v[i] = g[c + i - 1]
  <2>1. c \in 1 .. Len(g) + 1
    BY <1>1, <1>2, <1>19
  <2>2. /\ v \in Seq(Samples) /\ Len(v) = Len(g) - c + 1
        /\ \A i \in 1 .. Len(g) - c + 1 : v[i] = g[c + i - 1]
    BY <1>2, <1>18, <2>1, SuffixIs, Zenon
  <2>3. /\ v \in Seq(Samples) /\ Len(v) = n + 1 - c + 1
        /\ \A i \in 1 .. n + 1 - c + 1 : v[i] = g[c + i - 1]
    <3>1. Len(g) = n + 1 /\ n \in Nat /\ c \in Nat
      BY <1>1, <1>2, <1>19
    <3> QED
      BY <2>2, <3>1
  <2>4. DOMAIN v = 1 .. Len(v)
    BY <2>3
  <2> QED
    BY <2>3, <2>4
<1>21. Covers(v, d)
  <2>1. /\ 1 \in 1 .. n + 1 - c + 1 /\ 2 \in 1 .. n + 1 - c + 1
        /\ n + 1 - c + 1 \in 1 .. n + 1 - c + 1
        /\ c + 1 - 1 = c /\ c + 2 - 1 = c + 1 /\ c + (n + 1 - c + 1) - 1 = n + 1
    BY <1>1, <1>19
  <2>2. v[1] = g[c] /\ v[2] = g[c + 1] /\ Last(v) = s
    BY <1>2, <1>20, <2>1 DEF Last
  <2>3. g[c + 1].at - g[c].at = Interval
    <3>1. c + 1 \in a + 1 .. n + 1 /\ (c + 1) - 1 = c
      BY <1>1, <1>12, <1>16, <1>19
    <3> QED
      BY <1>14, <3>1
  <2>4. g[c].at \in Nat /\ (u - g[c].at) + Interval >= d
    <3>1. c \in 1 .. n /\ g[c] = past[c] /\ g[c].at \in Nat
      BY <1>1, <1>2, <1>19
    <3>2. CASE c = b
      <4>1. PICK x \in Nat : x = past[b].at
        BY <1>1
      <4>2. PICK y \in Nat : y = past[b + 1].at
        BY <1>1, <1>10
      <4>3. (t - x) + (y - x) >= d /\ y - x = Interval /\ g[c].at = x
        BY <1>10, <1>17, <3>1, <3>2, <4>1, <4>2
      <4>4. (u - x) + Interval >= d
        BY <1>1, <1>3, <1>6, <4>3
      <4> QED
        BY <3>1, <4>3, <4>4
    <3>3. CASE c # b
      <4>1. c - 1 \in 1 .. c - 1 /\ c - 1 \in 1 .. n /\ c \in a + 1 .. n + 1
        BY <1>1, <1>12, <1>16, <1>19, <3>3
      <4>2. g[c - 1].at < u - d /\ g[c].at - g[c - 1].at = Interval /\ g[c - 1].at \in Nat
        BY <1>1, <1>2, <1>14, <1>18, <4>1 DEF IsFirst
      <4>3. PICK x \in Nat, y \in Nat : x = g[c].at /\ y = g[c - 1].at
        BY <3>1, <4>2
      <4>4. (u - x) + Interval >= d
        <5>1. y < u - d /\ x - y = Interval
          BY <4>2, <4>3
        <5> QED
          BY <1>3, <5>1
      <4> QED
        BY <4>3, <4>4
    <3> QED
      BY <3>1, <3>2, <3>3
  <2>5. Len(v) >= 2
    BY <1>1, <1>19, <1>20
  <2>6. (Last(v).at - v[1].at) + (v[2].at - v[1].at) >= d
    BY <2>2, <2>3, <2>4 DEF u
  <2> QED
    BY <2>5, <2>6 DEF Covers, Span
<1>22. ASSUME NEW i \in DOMAIN v PROVE v[i] = s \/ \E j \in DOMAIN w : v[i] = w[j]
  <2>1. i \in 1 .. n + 1 - c + 1 /\ v[i] = g[c + i - 1]
    BY <1>20
  <2>2. CASE c + i - 1 = n + 1
    BY <1>2, <2>1, <2>2
  <2>3. CASE c + i - 1 # n + 1
    <3>1. i \in 1 .. n + 1 - c + 1
      BY <2>1
    <3>2. /\ c + i - 1 \in 1 .. n /\ c + i - b \in 1 .. n - b + 1
          /\ b + (c + i - b) - 1 = c + i - 1
      BY <1>1, <1>19, <2>3, <3>1
    <3>3. w[c + i - b] = past[b + (c + i - b) - 1] /\ c + i - b \in 1 .. Len(w)
      BY <1>9, <3>2
    <3>4. v[i] = past[c + i - 1]
      BY <1>2, <2>1, <3>2
    <3>5. DOMAIN w = 1 .. Len(w)
      BY <1>9
    <3>6. v[i] = w[c + i - b] /\ c + i - b \in DOMAIN w
      BY <3>2, <3>3, <3>4, <3>5
    <3> QED
      BY <3>6
  <2> QED
    BY <2>2, <2>3
<1> QED
  BY <1>21, <1>22 DEF v, w, d

LEMMA QuitsFor ==
    ASSUME WindowsHold, RulesInv, RulesInv', Minutes + Interval <= MaxWindow, RulesNext,
           NEW rule \in {"not_enough_peers", "rpc_unreachable"}, Quits(rule), Even(kept'),
           Symptom(rule, Last(past'))
    PROVE  FALSE
<1> DEFINE w == Since(past, Minutes)
           v == Since(kept', Minutes)
<1>1. rule \in RuleNames
  BY DEF RuleNames
<1>2. Fires(rule, past) /\ ~Fires(rule, kept')
  BY <1>1, TrimIsHarmless DEF TrimHarmless, Quits
<1>3. past # <<>>
  BY <1>1, <1>2, NothingFiresYet
<1>4. PICK s : past' = Append(past, s)
  BY DEF RulesNext, Sample
<1>5. s \in Samples /\ Last(past') = s
  <2>1. past \in Seq(Samples) /\ Len(past) \in Nat
    BY DEF RulesInv, RulesTypes
  <2>2. past' \in Seq(Samples)
    BY DEF RulesInv, RulesTypes
  <2>3. Len(past') = Len(past) + 1 /\ past'[Len(past) + 1] = s
    BY <1>4, <2>1, AppendProperties
  <2>4. Len(past) + 1 \in 1 .. Len(past')
    BY <2>1, <2>3
  <2>5. s \in Samples
    BY <2>2, <2>3, <2>4
  <2> QED
    BY <2>3, <2>5 DEF Last
<1>6. CASE rule = "not_enough_peers"
  <2>1. Covers(w, Minutes) /\ \A i \in DOMAIN w : Lonely(w[i])
    BY <1>2, <1>6, FiresAre, Zenon DEF NotEnoughPeers, Throughout, All
  <2>2. Lonely(s)
    BY <1>5, <1>6 DEF Symptom
  <2>3. Covers(v, Minutes) /\ \A i \in DOMAIN v : v[i] = s \/ \E j \in DOMAIN w : v[i] = w[j]
    BY <1>3, <1>4, <1>5, <2>1, StillCovered
  <2> HIDE DEF w
  <2>4. Covers(v, Minutes) /\ \A i \in DOMAIN v : Lonely(v[i])
    BY <2>1, <2>2, <2>3, Zenon
  <2>5. NotEnoughPeers(kept', Minutes)
    BY <2>4, Zenon DEF NotEnoughPeers, Throughout, All, v
  <2> QED
    BY <1>2, <1>6, <2>5, FiresAre
<1>7. CASE rule = "rpc_unreachable"
  <2>1. Covers(w, Minutes) /\ \A i \in DOMAIN w : Deaf(w[i])
    BY <1>2, <1>7, FiresAre, Zenon DEF RpcUnreachable, Throughout, All
  <2>2. Deaf(s)
    BY <1>5, <1>7 DEF Symptom
  <2>3. Covers(v, Minutes) /\ \A i \in DOMAIN v : v[i] = s \/ \E j \in DOMAIN w : v[i] = w[j]
    BY <1>3, <1>4, <1>5, <2>1, StillCovered
  <2> HIDE DEF w
  <2>4. Covers(v, Minutes) /\ \A i \in DOMAIN v : Deaf(v[i])
    BY <2>1, <2>2, <2>3, Zenon
  <2>5. RpcUnreachable(kept', Minutes)
    BY <2>4, Zenon DEF RpcUnreachable, Throughout, All, v
  <2> QED
    BY <1>2, <1>7, <2>5, FiresAre
<1> QED
  BY <1>6, <1>7

(***************************************************************************)
(* A recovery has a reason: while samples come evenly and the minutes and  *)
(* one interval fit in the history, rpc_unreachable and not_enough_peers   *)
(* only fall silent on a sample without their symptom (daemon.go:178-194). *)
(***************************************************************************)
THEOREM RecoveriesHaveAReason ==
    ASSUME SystemdAnswers, Interval <= MaxWindow, \A d \in Delays : d <= MaxWindow,
           MaxSamples < Word,
           \A m \in Written \cup {DefaultMinutes} : m + Interval <= MaxWindow
    PROVE  RulesSpec => QuitsForAReason
<1> DEFINE Fits == Minutes + Interval <= MaxWindow
           Reason == \A rule \in {"not_enough_peers", "rpc_unreachable"} :
                       Quits(rule) /\ Even(kept') => ~Symptom(rule, Last(past'))
<1>1. WindowsHold
  BY DEF WindowsHold
<1>2. RulesInit => RulesInv /\ Fits
  <2>1. ASSUME RulesInit PROVE Fits
    <3>1. /\ written \in Written /\ written \in Int /\ written + Interval <= MaxWindow
          /\ DefaultMinutes + Interval <= MaxWindow
          /\ MaxWindow \in Nat /\ Interval \in Nat /\ DefaultMinutes \in Nat
      BY <2>1, RulesAssumption DEF RulesInit
    <3>2. Minutes \in {DefaultMinutes, written}
      <4>1. ~(written > MaxWindow)
        BY <3>1
      <4> QED
        BY <4>1 DEF Minutes, Clamp
    <3> QED
      BY <3>1, <3>2
  <2> QED
    BY <1>1, <2>1, RulesInitInv
<1>3. RulesInv /\ Fits /\ [RulesNext]_rulesVars => RulesInv' /\ Fits'
  <2> SUFFICES ASSUME RulesInv, Fits, [RulesNext]_rulesVars PROVE RulesInv' /\ Fits'
    OBVIOUS
  <2>1. written' = written
    BY DEF RulesNext, Sample, rulesVars
  <2>2. Fits'
    BY <2>1 DEF Minutes, Clamp
  <2> QED
    BY <1>1, <2>2, RulesNextInv
<1>4. RulesInv /\ RulesInv' /\ Fits /\ [RulesNext]_rulesVars => [Reason]_rulesVars
  <2> SUFFICES ASSUME RulesInv, RulesInv', Fits, RulesNext PROVE Reason
    OBVIOUS
  <2> QED
    BY <1>1, QuitsFor
<1> QED
  BY <1>2, <1>3, <1>4, PTL DEF RulesSpec, QuitsForAReason
=============================================================================
