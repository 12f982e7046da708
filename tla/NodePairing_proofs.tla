------------------------- MODULE NodePairing_proofs -------------------------
(***************************************************************************)
(* What pairing guarantees for every number of hosts, of commands that run *)
(* on a host at once, of codes and of nodes, and whatever goes wrong; and  *)
(* what it guarantees when one command runs on a host at a time.           *)
(***************************************************************************)
EXTENDS NodePairing, TLAPS

RelayTypes ==
    /\ code \in [Codes -> {"unborn", "unused", "used"}]
    /\ redeemed \in [Codes -> 0 .. 2]
    /\ row \in [Ids -> Names \cup {NoName}]
    /\ message \in [text : {"none", "start", "unpair"}, name : Names \cup {NoName},
                    attempt : 0 .. 3]
    /\ delivered \subseteq Codes

HostTypes ==
    /\ alertsCfg \in [Hosts -> AlertsFile]
    /\ runUser \subseteq Hosts
    /\ units \in [Hosts -> Unit]
    /\ saved \in [Hosts -> MaybeId]
    /\ excused \subseteq Ids
    /\ died \subseteq Hosts

CommandTypes ==
    /\ cmd \in [Commands -> Command]
    /\ begun \in 0 .. MaxAlertsRuns

(***************************************************************************)
(* A code that is being turned into a node is used by now, belongs to one  *)
(* command, and has paired nothing before; one that has paired stays used. *)
(* A command that tells the relay to forget a node has the id of one.      *)
(***************************************************************************)
HasCode(p) == cmd[p].step \in {"select", "consume", "create"}
CodeInv ==
    /\ \A p \in Commands : HasCode(p) => cmd[p].code \in Codes
    /\ \A p \in Commands : In(p, "create") =>
          code[cmd[p].code] = "used" /\ redeemed[cmd[p].code] = 0
    /\ \A p, q \in Commands :
          In(p, "create") /\ In(q, "create") /\ cmd[p].code = cmd[q].code => p = q
    /\ \A c \in Codes : redeemed[c] <= 1 /\ (redeemed[c] # 0 => code[c] = "used")
    /\ \A p \in Commands : In(p, "tell") => Paired(cmd[p].file)

PairInv == RelayTypes /\ HostTypes /\ CommandTypes /\ CodeInv

-----------------------------------------------------------------------------
LEMMA PlainTypes ==
    /\ IdleCommand \in Command /\ IdleCommand.step = "idle"
    /\ NoFile_ \in AlertsFile /\ NoUnit \in Unit
    /\ NoMessage \in [text : {"none", "start", "unpair"}, name : Names \cup {NoName},
                      attempt : 0 .. 3]
<1>1. NoFile_ \in AlertsFile
  BY DEF NoFile_, AlertsFile, MaybeId
<1>2. IdleCommand \in Command /\ IdleCommand.step = "idle"
  BY <1>1 DEF IdleCommand, Command, CmdSteps
<1> QED
  BY <1>1, <1>2 DEF NoUnit, Unit, MaybeId, NoMessage

LEMMA HostOf == \A p \in Commands : p[1] \in Hosts
BY DEF Commands

\* The command p now stands at s with code c and file f.
Moved(p, s, c, f) ==
    \E new \in Command : /\ new.step = s /\ new.code = c /\ new.file = f
                         /\ cmd' = [cmd EXCEPT ![p] = new]

LEMMA StepMoves ==
    ASSUME CommandTypes, NEW p \in Commands, NEW s \in CmdSteps, Step(p, s)
    PROVE  Moved(p, s, cmd[p].code, cmd[p].file)
<1> DEFINE new == [cmd[p] EXCEPT !.step = s]
<1>1. cmd[p] \in Command
  BY DEF CommandTypes
<1>2. new \in Command /\ new.step = s /\ new.code = cmd[p].code /\ new.file = cmd[p].file
  BY <1>1 DEF Command
<1>3. cmd' = [cmd EXCEPT ![p] = new]
  BY DEF Step, CommandTypes
<1> QED
  BY <1>2, <1>3 DEF Moved

LEMMA OverMoves ==
    ASSUME CommandTypes, NEW p \in Commands, Over(p)
    PROVE  Moved(p, "idle", NoId, NoFile_)
BY PlainTypes DEF Over, Moved, IdleCommand

\* A command that moves on, but not to the making of a node.
LEMMA CommandGoesOn ==
    ASSUME PairInv, NEW p \in Commands, NEW s, NEW c, NEW f, Moved(p, s, c, f),
           s # "create", s \in {"select", "consume"} => c \in Codes,
           s = "tell" => Paired(f),
           redeemed' = redeemed,
           \A d \in Codes : code[d] = "used" => code'[d] = "used"
    PROVE  cmd' \in [Commands -> Command] /\ CodeInv'
<1>1. PICK new \in Command : /\ new.step = s /\ new.code = c /\ new.file = f
                             /\ cmd' = [cmd EXCEPT ![p] = new]
  BY DEF Moved
<1>2. /\ cmd' \in [Commands -> Command]
      /\ \A q \in Commands : cmd'[q] = IF q = p THEN new ELSE cmd[q]
  BY <1>1 DEF PairInv, CommandTypes
<1>3. \A q \in Commands : In(q, "create")' =>
          In(q, "create") /\ cmd'[q] = cmd[q] /\ cmd[q].code \in Codes
  BY <1>1, <1>2 DEF In, PairInv, CodeInv, HasCode
<1>4. \A q \in Commands : HasCode(q)' => cmd'[q].code \in Codes
  BY <1>1, <1>2 DEF PairInv, CodeInv, HasCode
<1>5. \A q \in Commands : In(q, "create")' =>
          code'[cmd'[q].code] = "used" /\ redeemed'[cmd'[q].code] = 0
  BY <1>3 DEF PairInv, CodeInv
<1>6. \A q, r \in Commands :
          In(q, "create")' /\ In(r, "create")' /\ cmd'[q].code = cmd'[r].code => q = r
  BY <1>3 DEF PairInv, CodeInv
<1>7. \A d \in Codes : redeemed'[d] <= 1 /\ (redeemed'[d] # 0 => code'[d] = "used")
  BY DEF PairInv, CodeInv
<1>8. \A q \in Commands : In(q, "tell")' => Paired(cmd'[q].file)
  BY <1>1, <1>2 DEF In, PairInv, CodeInv
<1> QED
  BY <1>2, <1>4, <1>5, <1>6, <1>7, <1>8 DEF CodeInv

\* No command moves.
LEMMA CommandsStand ==
    ASSUME PairInv, cmd' = cmd, begun' = begun, redeemed' = redeemed,
           \A d \in Codes : code[d] = "used" => code'[d] = "used"
    PROVE  CommandTypes' /\ CodeInv'
<1>1. CommandTypes'
  BY DEF PairInv, CommandTypes
<1>2. CodeInv'
  BY DEF PairInv, CodeInv, HasCode, In
<1> QED
  BY <1>1, <1>2

-----------------------------------------------------------------------------
(* The chat and the relay.                                                 *)

LEMMA AnswerTypes ==
    ASSUME RelayTypes, NEW codes \in SUBSET Codes, Answered(codes)
    PROVE  /\ message' \in [text : {"none", "start", "unpair"},
                            name : Names \cup {NoName}, attempt : 0 .. 3]
           /\ delivered' \subseteq Codes
<1>1. CASE message' = NoMessage /\ delivered' = delivered \cup codes
  BY <1>1, PlainTypes DEF RelayTypes
<1>2. CASE UNCHANGED delivered /\ message' = IF message.attempt = 3 THEN NoMessage
                                              ELSE [message EXCEPT !.attempt = @ + 1]
  <2>1. CASE message.attempt = 3
    BY <1>2, <2>1, PlainTypes DEF RelayTypes
  <2>2. CASE message.attempt # 3
    <3>1. message.attempt + 1 \in 0 .. 3
      BY <2>2 DEF RelayTypes
    <3>2. message' = [message EXCEPT !.attempt = message.attempt + 1]
      BY <1>2, <2>2
    <3> QED
      BY <1>2, <3>1, <3>2 DEF RelayTypes
  <2> QED
    BY <2>1, <2>2
<1> QED
  BY <1>1, <1>2 DEF Answered

LEMMA ChatInv ==
    ASSUME PairInv,
           \/ Write("start", NoName) \/ CmdStart \/ CmdUnpair \/ RelayRestarts
           \/ \E n \in Names : Write("unpair", n)
           \/ \E c \in Codes : CodeExpires(c)
    PROVE  PairInv'
<1>1. RelayTypes'
  <2>1. ASSUME NEW text \in {"start", "unpair"}, NEW n \in Names \cup {NoName}, Write(text, n)
        PROVE  RelayTypes'
    BY <2>1 DEF Write, PairInv, RelayTypes
  <2>2. CASE CmdStart
    <3>1. /\ message' \in [text : {"none", "start", "unpair"},
                            name : Names \cup {NoName}, attempt : 0 .. 3]
          /\ delivered' \subseteq Codes
      BY <2>2, AnswerTypes DEF CmdStart, PairInv
    <3> QED
      BY <2>2, <3>1 DEF CmdStart, PairInv, RelayTypes
  <2>3. CASE CmdUnpair
    <3>1. /\ message' \in [text : {"none", "start", "unpair"},
                            name : Names \cup {NoName}, attempt : 0 .. 3]
          /\ delivered' \subseteq Codes
      BY <2>3, AnswerTypes DEF CmdUnpair, PairInv
    <3>2. row' \in [Ids -> Names \cup {NoName}]
      BY <2>3 DEF CmdUnpair, PairInv, RelayTypes
    <3> QED
      BY <2>3, <3>1, <3>2 DEF CmdUnpair, PairInv, RelayTypes
  <2>4. CASE RelayRestarts
    BY <2>4 DEF RelayRestarts, PairInv, RelayTypes
  <2>5. ASSUME NEW c \in Codes, CodeExpires(c) PROVE RelayTypes'
    BY <2>5 DEF CodeExpires, PairInv, RelayTypes
  <2> QED
    BY <2>1, <2>2, <2>3, <2>4, <2>5
<1>2. /\ UNCHANGED hostVars /\ cmd' = cmd /\ begun' = begun /\ redeemed' = redeemed
      /\ \A d \in Codes : code[d] = "used" => code'[d] = "used"
  BY DEF Write, CmdStart, CmdUnpair, RelayRestarts, CodeExpires, PairInv, RelayTypes
<1>3. HostTypes'
  BY <1>2 DEF hostVars, PairInv, HostTypes
<1> QED
  BY <1>1, <1>2, <1>3, CommandsStand DEF PairInv

-----------------------------------------------------------------------------
(* The units and files of a host.                                          *)

LEMMA StartsType ==
    ASSUME NEW h, NEW file \in AlertsFile, NEW unit \in Unit
    PROVE  Starts(h, file, unit) \in Unit
<1>1. [unit EXCEPT !.runs = file.id] \in Unit /\ [unit EXCEPT !.runs = NoId] \in Unit
  BY DEF Unit, AlertsFile, MaybeId
<1> QED
  BY <1>1 DEF Starts

Installation ==
    /\ alertsCfg \in [Hosts -> AlertsFile]
    /\ runUser \subseteq Hosts
    /\ units \in [Hosts -> Unit]

LEMMA ReadableType ==
    ASSUME NEW file \in AlertsFile, NEW b \in BOOLEAN
    PROVE  [file EXCEPT !.readable = b] \in AlertsFile
BY DEF AlertsFile

LEMMA ConvergeTypes ==
    ASSUME HostTypes, NEW h \in Hosts, Converge(h)
    PROVE  Installation'
<1> DEFINE b == Paired(alertsCfg[h])
           file == [alertsCfg[h] EXCEPT !.readable = b]
           u == units[h]
           written == [u EXCEPT !.file = "user"]
<1>1. alertsCfg[h] \in AlertsFile /\ u \in Unit /\ b \in BOOLEAN
  BY DEF HostTypes, Paired
<1>2. file \in AlertsFile
  <2> HIDE DEF b
  <2> QED
    BY <1>1, ReadableType
<1>3. written \in Unit
  BY <1>1 DEF Unit
<1>4. Starts(h, file, written) \in Unit
  <2> HIDE DEF file, written
  <2> QED
    BY <1>2, <1>3, StartsType
<1>5. \A restarted \in Unit : \A on \in BOOLEAN : [restarted EXCEPT !.probe = on] \in Unit
  BY DEF Unit
<1>6. (u.probe \/ u.enabled) \in BOOLEAN
  BY <1>1 DEF Unit
<1>7. ConvergedUnits(h, file) \in Unit
  BY <1>3, <1>4, <1>5, <1>6 DEF ConvergedUnits
<1>8. /\ runUser' = runUser \cup {h}
      /\ alertsCfg' = [alertsCfg EXCEPT ![h] = file]
      /\ units' = [units EXCEPT ![h] = ConvergedUnits(h, file)]
  BY DEF Converge
<1> HIDE DEF file
<1> QED
  BY <1>2, <1>7, <1>8 DEF HostTypes, Installation

LEMMA ConvergeFailsTypes ==
    ASSUME HostTypes, NEW h \in Hosts, ConvergeFails(h)
    PROVE  Installation'
<1>1. runUser' \subseteq Hosts
  BY DEF ConvergeFails, HostTypes
<1>2. alertsCfg' \in [Hosts -> AlertsFile]
  <2> DEFINE b == Paired(alertsCfg[h])
             file == [alertsCfg[h] EXCEPT !.readable = b]
  <2>1. alertsCfg[h] \in AlertsFile /\ b \in BOOLEAN
    BY DEF HostTypes, Paired
  <2>2. file \in AlertsFile
    <3> HIDE DEF b
    <3> QED
      BY <2>1, ReadableType
  <2>3. alertsCfg' = alertsCfg \/ alertsCfg' = [alertsCfg EXCEPT ![h] = file]
    BY DEF ConvergeFails, HostTypes
  <2> HIDE DEF file
  <2> QED
    BY <2>2, <2>3 DEF HostTypes
<1>3. units' \in [Hosts -> Unit]
  <2>1. [units[h] EXCEPT !.file = "user"] \in Unit
    BY DEF HostTypes, Unit
  <2>2. units' = units \/ units' = [units EXCEPT ![h] = [units[h] EXCEPT !.file = "user"]]
    BY DEF ConvergeFails, HostTypes
  <2> QED
    BY <2>1, <2>2 DEF HostTypes
<1> QED
  BY <1>1, <1>2, <1>3 DEF Installation

LEMMA UninstalledType ==
    ASSUME HostTypes, NEW h \in Hosts, NEW u \in Uninstalled(h)
    PROVE  u \in Unit /\ u.file = "none"
<1>1. units[h] \in Unit
  BY DEF HostTypes
<1> DEFINE left == [NoUnit EXCEPT !.enabled = units[h].enabled, !.runs = units[h].runs]
<1>2. left \in Unit /\ left.file = "none" /\ NoUnit.file = "none"
  BY <1>1 DEF NoUnit, Unit
<1> HIDE DEF left
<1>3. u = NoUnit \/ u = left
  BY DEF Uninstalled, left
<1> QED
  BY <1>2, <1>3, PlainTypes

LEMMA SavedType ==
    ASSUME NEW h, NEW file \in AlertsFile
    PROVE  Saved(h, file) \in AlertsFile
<1>1. (h \in runUser) \in BOOLEAN
  OBVIOUS
<1> QED
  BY <1>1, ReadableType DEF Saved

-----------------------------------------------------------------------------
(* setup: from the code to the row.                                        *)

LEMMA BeginSetupInv ==
    ASSUME PairInv, NEW p \in Commands, BeginSetup(p)
    PROVE  PairInv'
<1>1. PICK c \in delivered, n \in Names :
         cmd' = [cmd EXCEPT ![p] = [IdleCommand EXCEPT
                   !.step = "select", !.code = c, !.name = n]]
  BY DEF BeginSetup
<1>2. c \in Codes
  BY DEF PairInv, RelayTypes
<1> DEFINE new == [IdleCommand EXCEPT !.step = "select", !.code = c, !.name = n]
<1>3. new \in Command /\ new.step = "select" /\ new.code = c
  BY <1>2, PlainTypes DEF Command, CmdSteps
<1>4. Moved(p, "select", c, new.file)
  <2> HIDE DEF new
  <2> QED
    BY <1>1, <1>3 DEF Moved, new
<1>5. redeemed' = redeemed /\ code' = code
  BY DEF BeginSetup, relayVars
<1>6. cmd' \in [Commands -> Command] /\ CodeInv'
  BY <1>2, <1>4, <1>5, CommandGoesOn
<1>7. begun' \in 0 .. MaxAlertsRuns
  BY PairingAssumption DEF BeginSetup, PairInv, CommandTypes
<1>8. RelayTypes' /\ HostTypes'
  BY DEF BeginSetup, relayVars, hostVars, PairInv, RelayTypes, HostTypes
<1> QED
  BY <1>6, <1>7, <1>8 DEF PairInv, CommandTypes

\* A command that moves on and leaves relay and codes as they are.
LEMMA OnlyOnHost ==
    ASSUME PairInv, NEW p \in Commands, NEW s, NEW c, NEW f, Moved(p, s, c, f),
           s \notin {"create", "select"}, s = "consume" => c \in Codes,
           s = "tell" => Paired(f),
           UNCHANGED <<code, redeemed, message, delivered>>,
           row' \in [Ids -> Names \cup {NoName}],
           begun' = begun, HostTypes'
    PROVE  PairInv'
<1>1. cmd' \in [Commands -> Command] /\ CodeInv'
  BY CommandGoesOn
<1>2. RelayTypes'
  BY DEF PairInv, RelayTypes
<1> QED
  BY <1>1, <1>2 DEF PairInv, CommandTypes

LEMMA SelectCodeInv ==
    ASSUME PairInv, NEW p \in Commands, SelectCode(p)
    PROVE  PairInv'
<1>1. /\ UNCHANGED <<code, redeemed, message, delivered>> /\ begun' = begun
      /\ row' \in [Ids -> Names \cup {NoName}] /\ HostTypes'
  BY DEF SelectCode, relayVars, hostVars, PairInv, RelayTypes, HostTypes
<1>2. CASE Step(p, "consume")
  <2>1. Moved(p, "consume", cmd[p].code, cmd[p].file)
    BY <1>2, StepMoves DEF PairInv, CmdSteps
  <2>2. cmd[p].code \in Codes
    BY DEF SelectCode, In, PairInv, CodeInv, HasCode
  <2> QED
    BY <1>1, <2>1, <2>2, OnlyOnHost
<1>3. CASE Over(p)
  <2>1. Moved(p, "idle", NoId, NoFile_)
    BY <1>3, OverMoves DEF PairInv
  <2> QED
    BY <1>1, <2>1, OnlyOnHost
<1> QED
  BY <1>2, <1>3 DEF SelectCode

(***************************************************************************)
(* The step that takes the code: the update finds it unused, so no other   *)
(* command has it in hand.                                                 *)
(***************************************************************************)
LEMMA ConsumeCodeInv ==
    ASSUME PairInv, NEW p \in Commands, ConsumeCode(p)
    PROVE  PairInv'
<1> DEFINE c == cmd[p].code
<1>1. c \in Codes
  BY DEF ConsumeCode, In, PairInv, CodeInv, HasCode
<1>2. /\ code' = [code EXCEPT ![c] = "used"]
      /\ UNCHANGED <<redeemed, row, message, delivered, hostVars, begun>>
  BY DEF ConsumeCode
<1>3. /\ code' \in [Codes -> {"unborn", "unused", "used"}]
      /\ code'[c] = "used" /\ \A d \in Codes \ {c} : code'[d] = code[d]
  BY <1>1, <1>2 DEF PairInv, RelayTypes
<1>4. RelayTypes' /\ HostTypes'
  BY <1>2, <1>3 DEF hostVars, PairInv, RelayTypes, HostTypes
<1>5. CASE code[c] # "unused"
  <2>1. Over(p)
    BY <1>5 DEF ConsumeCode
  <2>2. Moved(p, "idle", NoId, NoFile_)
    BY <2>1, OverMoves DEF PairInv
  <2>3. cmd' \in [Commands -> Command] /\ CodeInv'
    BY <1>2, <1>3, <2>2, CommandGoesOn
  <2> QED
    BY <1>2, <1>4, <2>3 DEF PairInv, CommandTypes
<1>6. CASE code[c] = "unused"
  <2>1. Step(p, "create")
    BY <1>6 DEF ConsumeCode
  <2>2. PICK new \in Command : /\ new.step = "create" /\ new.code = c
                               /\ cmd' = [cmd EXCEPT ![p] = new]
    BY <2>1, StepMoves DEF PairInv, CmdSteps, Moved
  <2>3. /\ cmd' \in [Commands -> Command]
        /\ \A q \in Commands : cmd'[q] = IF q = p THEN new ELSE cmd[q]
    BY <2>2 DEF PairInv, CommandTypes
  <2>4. \A q \in Commands : In(q, "create") => cmd[q].code # c
    BY <1>6 DEF PairInv, CodeInv
  <2>5. redeemed'[c] = 0
    BY <1>1, <1>2, <1>6 DEF PairInv, CodeInv
  <2>6. \A q \in Commands : HasCode(q)' => cmd'[q].code \in Codes
    BY <1>1, <2>2, <2>3 DEF PairInv, CodeInv, HasCode
  <2>7. \A q \in Commands : In(q, "create")' =>
          code'[cmd'[q].code] = "used" /\ redeemed'[cmd'[q].code] = 0
    <3>1. ASSUME NEW q \in Commands, In(q, "create")', q # p
          PROVE  code'[cmd'[q].code] = "used" /\ redeemed'[cmd'[q].code] = 0
      <4>1. cmd'[q] = cmd[q] /\ In(q, "create")
        BY <2>3, <3>1 DEF In
      <4>2. cmd[q].code \in Codes /\ code[cmd[q].code] = "used" /\ redeemed[cmd[q].code] = 0
        BY <4>1 DEF PairInv, CodeInv, HasCode, In
      <4> QED
        BY <1>2, <1>3, <4>1, <4>2
    <3> QED
      BY <1>3, <2>2, <2>3, <2>5, <3>1
  <2>8. \A q, r \in Commands :
          In(q, "create")' /\ In(r, "create")' /\ cmd'[q].code = cmd'[r].code => q = r
    BY <2>2, <2>3, <2>4 DEF PairInv, CodeInv, In
  <2>9. \A d \in Codes : redeemed'[d] <= 1 /\ (redeemed'[d] # 0 => code'[d] = "used")
    BY <1>2, <1>3 DEF PairInv, CodeInv
  <2>10. \A q \in Commands : In(q, "tell")' => Paired(cmd'[q].file)
    BY <2>2, <2>3 DEF PairInv, CodeInv, In
  <2>11. CodeInv'
    BY <2>6, <2>7, <2>8, <2>9, <2>10 DEF CodeInv
  <2> QED
    BY <1>2, <1>4, <2>3, <2>11 DEF PairInv, CommandTypes
<1> QED
  BY <1>5, <1>6

(***************************************************************************)
(* The step that spends the code: it paired nothing before, and no other   *)
(* command holds it.                                                       *)
(***************************************************************************)
LEMMA CreateNodeInv ==
    ASSUME PairInv, NEW p \in Commands, CreateNode(p)
    PROVE  PairInv'
<1> DEFINE c == cmd[p].code
<1>1. /\ c \in Codes /\ code[c] = "used" /\ redeemed[c] = 0
      /\ cmd[p] \in Command
      /\ \A q \in Commands : In(q, "create") /\ q # p => cmd[q].code # c
  BY DEF CreateNode, In, PairInv, CodeInv, HasCode, CommandTypes
<1>2. UNCHANGED <<code, message, delivered, hostVars, begun>>
  BY DEF CreateNode
<1>3. HostTypes'
  BY <1>2 DEF hostVars, PairInv, HostTypes
<1>4. CASE Over(p) /\ UNCHANGED <<redeemed, row>>
  <2>1. Moved(p, "idle", NoId, NoFile_)
    BY <1>4, OverMoves DEF PairInv
  <2> QED
    BY <1>2, <1>3, <1>4, <2>1, OnlyOnHost DEF PairInv, RelayTypes
<1>5. ASSUME NEW i \in Ids, row' = [row EXCEPT ![i] = cmd[p].name],
             cmd' = [cmd EXCEPT ![p].step = "paired", ![p].file.id = i],
             redeemed' = [redeemed EXCEPT ![c] = @ + 1]
      PROVE  PairInv'
  <2> DEFINE new == [cmd[p] EXCEPT !.step = "paired", !.file.id = i]
  <2>1. new \in Command /\ new.step = "paired"
    BY <1>1 DEF Command, CmdSteps, AlertsFile, MaybeId
  <2>2. cmd' = [cmd EXCEPT ![p] = new]
    BY <1>5 DEF PairInv, CommandTypes
  <2>3. /\ cmd' \in [Commands -> Command]
        /\ \A q \in Commands : cmd'[q] = IF q = p THEN new ELSE cmd[q]
    <3> HIDE DEF new
    <3> QED
      BY <2>1, <2>2 DEF PairInv, CommandTypes
  <2>4. /\ redeemed' \in [Codes -> 0 .. 2] /\ redeemed'[c] = 1
        /\ \A d \in Codes \ {c} : redeemed'[d] = redeemed[d]
    BY <1>1, <1>5 DEF PairInv, RelayTypes
  <2>5. row' \in [Ids -> Names \cup {NoName}]
    BY <1>1, <1>5 DEF PairInv, RelayTypes, Command
  <2>6. RelayTypes'
    BY <1>2, <2>4, <2>5 DEF PairInv, RelayTypes
  <2> HIDE DEF new
  <2>7. \A q \in Commands : q # p => (In(q, "create")' => In(q, "create")) /\ cmd'[q] = cmd[q]
    BY <2>3 DEF In
  <2>8. \A q \in Commands : HasCode(q)' => cmd'[q].code \in Codes
    BY <2>1, <2>3 DEF PairInv, CodeInv, HasCode
  <2>9. \A q \in Commands : In(q, "create")' => q # p
    BY <2>1, <2>3 DEF In
  <2>10. \A q \in Commands : In(q, "create")' =>
           code'[cmd'[q].code] = "used" /\ redeemed'[cmd'[q].code] = 0
    <3>1. ASSUME NEW q \in Commands, In(q, "create")'
          PROVE  code'[cmd'[q].code] = "used" /\ redeemed'[cmd'[q].code] = 0
      <4>1. In(q, "create") /\ cmd'[q] = cmd[q] /\ q # p
        BY <2>7, <2>9, <3>1
      <4>2. /\ cmd[q].code \in Codes \ {c}
            /\ code[cmd[q].code] = "used" /\ redeemed[cmd[q].code] = 0
        BY <1>1, <4>1 DEF PairInv, CodeInv, HasCode, In
      <4> QED
        BY <1>2, <2>4, <4>1, <4>2
    <3> QED
      BY <3>1
  <2>11. \A q, r \in Commands :
           In(q, "create")' /\ In(r, "create")' /\ cmd'[q].code = cmd'[r].code => q = r
    BY <2>7, <2>9 DEF PairInv, CodeInv
  <2>12. \A d \in Codes : redeemed'[d] <= 1 /\ (redeemed'[d] # 0 => code'[d] = "used")
    BY <1>1, <1>2, <2>4 DEF PairInv, CodeInv
  <2>13. \A q \in Commands : In(q, "tell")' => Paired(cmd'[q].file)
    BY <2>1, <2>3 DEF In, PairInv, CodeInv
  <2>14. CodeInv'
    BY <2>8, <2>10, <2>11, <2>12, <2>13 DEF CodeInv
  <2> QED
    BY <1>2, <1>3, <2>3, <2>6, <2>14 DEF PairInv, CommandTypes
<1> QED
  BY <1>4, <1>5 DEF CreateNode

-----------------------------------------------------------------------------
(* The commands on the host.                                               *)

\* A command that stands at s afterwards, or is over, and leaves the relay.
LEMMA OnHostOrOver ==
    ASSUME PairInv, NEW p \in Commands,
           NEW s \in CmdSteps \ {"create", "select", "consume", "tell"},
           Step(p, s) \/ Over(p),
           UNCHANGED <<code, redeemed, message, delivered>>,
           row' \in [Ids -> Names \cup {NoName}],
           begun' = begun, HostTypes'
    PROVE  PairInv'
<1>1. CASE Step(p, s)
  <2>1. Moved(p, s, cmd[p].code, cmd[p].file)
    BY <1>1, StepMoves DEF PairInv
  <2> QED
    BY <2>1, OnlyOnHost
<1>2. CASE Over(p)
  <2>1. Moved(p, "idle", NoId, NoFile_)
    BY <1>2, OverMoves DEF PairInv
  <2> QED
    BY <2>1, OnlyOnHost
<1> QED
  BY <1>1, <1>2

LEMMA RelayStands ==
    ASSUME PairInv, UNCHANGED relayVars
    PROVE  /\ UNCHANGED <<code, redeemed, message, delivered>>
           /\ row' \in [Ids -> Names \cup {NoName}]
BY DEF relayVars, PairInv, RelayTypes

LEMMA HostStands == PairInv /\ UNCHANGED hostVars => HostTypes'
BY DEF hostVars, PairInv, HostTypes

LEMMA KeepThresholdsInv ==
    ASSUME PairInv, NEW p \in Commands, KeepThresholds(p)
    PROVE  PairInv'
<1> DEFINE rule == alertsCfg[p[1]].rule
           new == [cmd[p] EXCEPT !.step = "save", !.file.rule = rule]
<1>1. cmd[p] \in Command /\ rule \in BOOLEAN
  BY HostOf DEF PairInv, CommandTypes, HostTypes, AlertsFile
<1>2. new \in Command /\ new.step = "save"
  <2> HIDE DEF rule
  <2> QED
    BY <1>1 DEF Command, CmdSteps, AlertsFile
<1>3. cmd' = [cmd EXCEPT ![p] = new]
  BY DEF KeepThresholds, PairInv, CommandTypes
<1> HIDE DEF new
<1>4. Moved(p, "save", new.code, new.file)
  BY <1>2, <1>3 DEF Moved
<1>5. UNCHANGED <<relayVars, hostVars, begun>>
  BY DEF KeepThresholds
<1>6. HostTypes'
  BY <1>5, HostStands
<1> QED
  BY <1>4, <1>5, <1>6, RelayStands, OnlyOnHost

LEMMA PairingLostInv ==
    ASSUME PairInv, NEW p \in Commands, PairingLost(p)
    PROVE  PairInv'
<1>1. Over(p) /\ UNCHANGED <<relayVars, hostVars, begun>>
  BY DEF PairingLost
<1>2. HostTypes'
  BY <1>1, HostStands
<1> QED
  BY <1>1, <1>2, RelayStands, OnHostOrOver DEF CmdSteps

LEMMA SaveInv ==
    ASSUME PairInv, NEW p \in Commands, Save(p)
    PROVE  PairInv'
<1> DEFINE h == p[1]
           file == cmd[p].file
<1>1. h \in Hosts /\ file \in AlertsFile /\ file.id \in MaybeId /\ alertsCfg[h].id \in MaybeId
  BY HostOf DEF PairInv, CommandTypes, HostTypes, Command, AlertsFile
<1>2. Saved(h, file) \in AlertsFile
  BY <1>1, SavedType
<1>3. UNCHANGED <<relayVars, runUser, units, died, begun>> /\ Step(p, "converge")
  BY DEF Save
<1>4. HostTypes'
  <2>1. alertsCfg' \in [Hosts -> AlertsFile]
    BY <1>2 DEF Save, PairInv, HostTypes
  <2>2. saved' \in [Hosts -> MaybeId]
    BY <1>1 DEF Save, PairInv, HostTypes
  <2>3. excused' \subseteq Ids
    BY <1>1 DEF Save, PairInv, HostTypes, MaybeId
  <2> QED
    BY <1>3, <2>1, <2>2, <2>3 DEF PairInv, HostTypes
<1> QED
  BY <1>3, <1>4, RelayStands, OnHostOrOver DEF CmdSteps

LEMMA InstallationSuffices ==
    ASSUME PairInv, Installation', UNCHANGED <<saved, excused, died>>
    PROVE  HostTypes'
BY DEF PairInv, HostTypes, Installation

LEMMA InstallInv ==
    ASSUME PairInv, NEW p \in Commands, Install_(p)
    PROVE  PairInv'
<1> DEFINE h == p[1]
<1>1. h \in Hosts /\ alertsCfg[h] \in AlertsFile /\ units[h] \in Unit
  BY HostOf DEF PairInv, HostTypes
<1>2. UNCHANGED <<relayVars, saved, excused, died, begun>>
  BY DEF Install_
<1>3. ASSUME NEW s \in CmdSteps \ {"create", "select", "consume", "tell"},
             Step(p, s) \/ Over(p), Installation'
      PROVE  PairInv'
  BY <1>2, <1>3, InstallationSuffices, RelayStands, OnHostOrOver
<1>4. CASE Converge(h) /\ Step(p, "timer")
  <2>1. Installation'
    BY <1>1, <1>4, ConvergeTypes DEF PairInv
  <2> QED
    BY <1>3, <1>4, <2>1 DEF CmdSteps
<1>5. ASSUME NEW u \in Unit, units' = [units EXCEPT ![h] = u],
             UNCHANGED <<runUser, alertsCfg>>,
             Step(p, "service") \/ Step(p, "restart") \/ Over(p)
      PROVE  PairInv'
  <2>1. Installation'
    BY <1>5 DEF PairInv, HostTypes, Installation
  <2> QED
    BY <1>3, <1>5, <2>1 DEF CmdSteps
<1>6. CASE /\ units' = [units EXCEPT ![h].probe = TRUE]
           /\ Step(p, "service") /\ UNCHANGED <<runUser, alertsCfg>>
  <2>1. [units[h] EXCEPT !.probe = TRUE] \in Unit
    BY <1>1 DEF Unit
  <2>2. units' = [units EXCEPT ![h] = [units[h] EXCEPT !.probe = TRUE]]
    BY <1>6
  <2> QED
    BY <1>5, <1>6, <2>1, <2>2
<1>7. CASE /\ units' = [units EXCEPT ![h] = IF @.enabled THEN @
                             ELSE Starts(h, alertsCfg[h], [@ EXCEPT !.enabled = TRUE])]
           /\ Step(p, "restart") /\ UNCHANGED <<runUser, alertsCfg>>
  <2> DEFINE on == [units[h] EXCEPT !.enabled = TRUE]
             u == IF units[h].enabled THEN units[h] ELSE Starts(h, alertsCfg[h], on)
  <2>1. on \in Unit
    BY <1>1 DEF Unit
  <2>2. Starts(h, alertsCfg[h], on) \in Unit
    <3> HIDE DEF on
    <3> QED
      BY <1>1, <2>1, StartsType
  <2>3. u \in Unit
    BY <1>1, <2>2
  <2>4. units' = [units EXCEPT ![h] = u]
    BY <1>7
  <2> QED
    BY <1>5, <1>7, <2>3, <2>4
<1>8. CASE /\ units' = [units EXCEPT ![h] = Restarted(h)]
           /\ Over(p) /\ UNCHANGED <<runUser, alertsCfg>>
  <2>1. Restarted(h) \in Unit
    BY <1>1, StartsType DEF Restarted
  <2> QED
    BY <1>5, <1>8, <2>1
<1> QED
  BY <1>4, <1>6, <1>7, <1>8 DEF Install_

LEMMA InstallFailsInv ==
    ASSUME PairInv, NEW p \in Commands, InstallFails(p)
    PROVE  PairInv'
<1>1. UNCHANGED <<relayVars, saved, excused, died, begun>> /\ Step(p, "undoUnits")
  BY DEF InstallFails
<1>2. Installation'
  <2>1. CASE ConvergeFails(p[1])
    BY <2>1, HostOf, ConvergeFailsTypes DEF PairInv
  <2>2. CASE UNCHANGED <<runUser, alertsCfg, units>>
    BY <2>2 DEF PairInv, HostTypes, Installation
  <2> QED
    BY <2>1, <2>2 DEF InstallFails
<1> QED
  BY <1>1, <1>2, InstallationSuffices, RelayStands, OnHostOrOver DEF CmdSteps

LEMMA UnitReplaced ==
    ASSUME PairInv, NEW h \in Hosts, NEW u \in Unit,
           units' = [units EXCEPT ![h] = u],
           UNCHANGED <<alertsCfg, runUser, saved, excused, died>>
    PROVE  HostTypes'
BY DEF PairInv, HostTypes

LEMMA FileReplaced ==
    ASSUME PairInv, NEW h \in Hosts, NEW file \in AlertsFile,
           alertsCfg' = [alertsCfg EXCEPT ![h] = file],
           UNCHANGED <<runUser, units, saved, excused, died>>
    PROVE  HostTypes'
BY DEF PairInv, HostTypes

LEMMA UndoInv ==
    ASSUME PairInv, NEW p \in Commands,
           UndoUnits(p) \/ UndoPairing(p) \/ Forget(p) \/ UninstallUnits(p)
    PROVE  PairInv'
<1>1. p[1] \in Hosts
  BY HostOf
<1>2. CASE UndoUnits(p)
  <2>1. PICK u \in Uninstalled(p[1]) : units' = [units EXCEPT ![p[1]] = u]
    BY <1>2 DEF UndoUnits
  <2>2. /\ UNCHANGED <<relayVars, alertsCfg, runUser, saved, excused, died, begun>>
        /\ Step(p, "undoPairing")
    BY <1>2 DEF UndoUnits
  <2>3. HostTypes'
    BY <1>1, <2>1, <2>2, UninstalledType, UnitReplaced DEF PairInv
  <2> QED
    BY <2>2, <2>3, RelayStands, OnHostOrOver DEF CmdSteps
<1>3. CASE UndoPairing(p)
  <2>1. /\ UNCHANGED <<code, redeemed, message, delivered, hostVars, begun>>
        /\ Step(p, "forget") \/ Over(p)
    BY <1>3 DEF UndoPairing
  <2>2. row' \in [Ids -> Names \cup {NoName}]
    BY <1>3 DEF UndoPairing, PairInv, RelayTypes
  <2>3. HostTypes'
    BY <2>1, HostStands
  <2> QED
    BY <2>1, <2>2, <2>3, OnHostOrOver DEF CmdSteps
<1>4. CASE Forget(p)
  <2>1. /\ alertsCfg' = [alertsCfg EXCEPT ![p[1]] = NoFile_] /\ Over(p)
        /\ UNCHANGED <<relayVars, runUser, units, saved, excused, died, begun>>
    BY <1>4 DEF Forget
  <2>2. HostTypes'
    BY <1>1, <2>1, PlainTypes, FileReplaced
  <2> QED
    BY <2>1, <2>2, RelayStands, OnHostOrOver DEF CmdSteps
<1>5. CASE UninstallUnits(p)
  <2>1. PICK u \in Uninstalled(p[1]) : units' = [units EXCEPT ![p[1]] = u]
    BY <1>5 DEF UninstallUnits
  <2>2. /\ UNCHANGED <<relayVars, alertsCfg, runUser, saved, excused, died, begun>>
        /\ Step(p, "remove") \/ Over(p)
    BY <1>5 DEF UninstallUnits
  <2>3. HostTypes'
    BY <1>1, <2>1, <2>2, UninstalledType, UnitReplaced DEF PairInv
  <2> QED
    BY <2>2, <2>3, RelayStands, OnHostOrOver DEF CmdSteps
<1> QED
  BY <1>2, <1>3, <1>4, <1>5

\* alerts set and alerts unpair begin with the file that they have read.
LEMMA BeginInv ==
    ASSUME PairInv, NEW p \in Commands, NEW new \in Command,
           new.step \in {"setSave", "tell", "uninstall"},
           new.step = "tell" => Paired(new.file),
           cmd' = [cmd EXCEPT ![p] = new],
           begun < MaxAlertsRuns, begun' = begun + 1, UNCHANGED <<relayVars, hostVars>>
    PROVE  PairInv'
<1>1. Moved(p, new.step, new.code, new.file)
  BY DEF Moved
<1>2. redeemed' = redeemed /\ code' = code
  BY DEF relayVars
<1>3. cmd' \in [Commands -> Command] /\ CodeInv'
  BY <1>1, <1>2, CommandGoesOn
<1>4. begun' \in 0 .. MaxAlertsRuns
  BY PairingAssumption DEF PairInv, CommandTypes
<1>5. RelayTypes' /\ HostTypes'
  BY DEF relayVars, hostVars, PairInv, RelayTypes, HostTypes
<1> QED
  BY <1>3, <1>4, <1>5 DEF PairInv, CommandTypes

LEMMA BeginSetInv ==
    ASSUME PairInv, NEW p \in Commands, BeginSet(p)
    PROVE  PairInv'
<1> DEFINE rule == ~alertsCfg[p[1]].rule
           file == [alertsCfg[p[1]] EXCEPT !.rule = rule]
           new == [IdleCommand EXCEPT !.step = "setSave", !.file = file]
<1>1. alertsCfg[p[1]] \in AlertsFile /\ rule \in BOOLEAN
  BY HostOf DEF PairInv, HostTypes, AlertsFile
<1>2. file \in AlertsFile
  <2> HIDE DEF rule
  <2> QED
    BY <1>1 DEF AlertsFile
<1>3. new \in Command /\ new.step = "setSave"
  <2> HIDE DEF file
  <2> QED
    BY <1>2, PlainTypes DEF Command, CmdSteps
<1>4. /\ cmd' = [cmd EXCEPT ![p] = new] /\ begun < MaxAlertsRuns
      /\ begun' = begun + 1 /\ UNCHANGED <<relayVars, hostVars>>
  BY DEF BeginSet
<1> HIDE DEF new
<1> QED
  BY <1>3, <1>4, BeginInv

LEMMA BeginUnpairInv ==
    ASSUME PairInv, NEW p \in Commands, BeginUnpair(p)
    PROVE  PairInv'
<1> DEFINE file == alertsCfg[p[1]]
           step == IF Paired(file) THEN "tell" ELSE "uninstall"
<1>1. PICK force \in BOOLEAN :
         cmd' = [cmd EXCEPT ![p] = [IdleCommand EXCEPT
                   !.file = file, !.force = force, !.step = step]]
  BY DEF BeginUnpair
<1> DEFINE new == [IdleCommand EXCEPT !.file = file, !.force = force, !.step = step]
<1>2. file \in AlertsFile
  BY HostOf DEF PairInv, HostTypes
<1>3. step \in {"tell", "uninstall"} /\ (step = "tell" => Paired(file))
  OBVIOUS
<1>4. new \in Command /\ new.step = step /\ new.file = file
  <2> HIDE DEF file, step
  <2> QED
    BY <1>2, <1>3, PlainTypes DEF Command, CmdSteps
<1>5. /\ cmd' = [cmd EXCEPT ![p] = new] /\ begun < MaxAlertsRuns
      /\ begun' = begun + 1 /\ UNCHANGED <<relayVars, hostVars>>
  BY <1>1 DEF BeginUnpair
<1> HIDE DEF new, step
<1> QED
  BY <1>3, <1>4, <1>5, BeginInv

LEMMA SetInv ==
    ASSUME PairInv, NEW p \in Commands, SetSave(p) \/ SetConverge(p) \/ SetReload(p)
    PROVE  PairInv'
<1> DEFINE h == p[1]
           u == units[h]
<1>1. h \in Hosts /\ alertsCfg[h] \in AlertsFile /\ u \in Unit /\ cmd[p].file \in AlertsFile
  BY HostOf DEF PairInv, HostTypes, CommandTypes, Command
<1>2. CASE SetSave(p)
  <2>1. /\ UNCHANGED <<relayVars, runUser, units, saved, excused, died, begun>>
        /\ Step(p, "setConverge") \/ Over(p)
    BY <1>2 DEF SetSave
  <2>2. Saved(h, cmd[p].file) \in AlertsFile
    BY <1>1, SavedType
  <2>3. CASE alertsCfg' = [alertsCfg EXCEPT ![h] = Saved(h, cmd[p].file)]
    <3>1. HostTypes'
      BY <1>1, <2>1, <2>2, <2>3, FileReplaced
    <3> QED
      BY <2>1, <3>1, RelayStands, OnHostOrOver DEF CmdSteps
  <2>4. CASE UNCHANGED alertsCfg
    <3>1. HostTypes'
      BY <2>1, <2>4, HostStands DEF hostVars
    <3> QED
      BY <2>1, <3>1, RelayStands, OnHostOrOver DEF CmdSteps
  <2> QED
    BY <1>2, <2>3, <2>4 DEF SetSave
<1>3. CASE SetConverge(p)
  <2>1. UNCHANGED <<relayVars, saved, excused, died, begun>> /\ Step(p, "setReload")
    BY <1>3 DEF SetConverge
  <2>2. CASE UNCHANGED <<runUser, alertsCfg, units>>
    <3>1. Installation'
      BY <2>2 DEF PairInv, HostTypes, Installation
    <3> QED
      BY <2>1, <3>1, InstallationSuffices, RelayStands, OnHostOrOver DEF CmdSteps
  <2>3. CASE Converge(h) \/ ConvergeFails(h)
    <3>1. Installation'
      BY <1>1, <2>3, ConvergeTypes, ConvergeFailsTypes DEF PairInv
    <3> QED
      BY <2>1, <3>1, InstallationSuffices, RelayStands, OnHostOrOver DEF CmdSteps
  <2> QED
    BY <1>3, <2>2, <2>3 DEF SetConverge
<1>4. CASE SetReload(p)
  <2> DEFINE file == alertsCfg[h]
             new == IF u.runs = NoId \/ ~Paired(file) THEN u
                    ELSE IF u.file = "root" \/ file.readable
                    THEN [u EXCEPT !.runs = file.id] ELSE u
  <2>1. [u EXCEPT !.runs = file.id] \in Unit
    BY <1>1 DEF Unit, AlertsFile
  <2>2. new \in Unit
    BY <1>1, <2>1
  <2>3. /\ units' = [units EXCEPT ![h] = new] /\ Over(p)
        /\ UNCHANGED <<relayVars, alertsCfg, runUser, saved, excused, died, begun>>
    BY <1>4 DEF SetReload
  <2> HIDE DEF new
  <2>4. HostTypes'
    BY <1>1, <2>2, <2>3, UnitReplaced
  <2> QED
    BY <2>3, <2>4, RelayStands, OnHostOrOver DEF CmdSteps
<1> QED
  BY <1>2, <1>3, <1>4

LEMMA TellRelayInv ==
    ASSUME PairInv, NEW p \in Commands, TellRelay(p)
    PROVE  PairInv'
<1>1. cmd[p].file.id \in Ids
  BY DEF TellRelay, PairInv, CodeInv, Paired, CommandTypes, Command, AlertsFile, MaybeId
<1>2. /\ UNCHANGED <<code, redeemed, message, delivered, alertsCfg, runUser, units,
                     saved, died, begun>>
      /\ Step(p, "uninstall") \/ Over(p)
  BY DEF TellRelay
<1>3. row' \in [Ids -> Names \cup {NoName}]
  BY DEF TellRelay, PairInv, RelayTypes
<1>4. HostTypes'
  BY <1>1, <1>2 DEF TellRelay, PairInv, HostTypes
<1> QED
  BY <1>2, <1>3, <1>4, OnHostOrOver DEF CmdSteps

LEMMA CommandDiesInv ==
    ASSUME PairInv, NEW p \in Commands, CommandDies(p)
    PROVE  PairInv'
<1>1. UNCHANGED <<relayVars, alertsCfg, runUser, units, saved, excused, begun>> /\ Over(p)
  BY DEF CommandDies
<1>2. HostTypes'
  BY <1>1, HostOf DEF CommandDies, PairInv, HostTypes
<1> QED
  BY <1>1, <1>2, RelayStands, OnHostOrOver DEF CmdSteps

LEMMA DaemonRestartsInv ==
    ASSUME PairInv, NEW h \in Hosts, DaemonRestarts(h)
    PROVE  PairInv'
<1>1. alertsCfg[h] \in AlertsFile /\ units[h] \in Unit
  BY DEF PairInv, HostTypes
<1>2. /\ units' = [units EXCEPT ![h] = Starts(h, alertsCfg[h], units[h])]
      /\ UNCHANGED <<relayVars, alertsCfg, runUser, saved, excused, died, cmd, begun>>
  BY DEF DaemonRestarts
<1>3. HostTypes'
  BY <1>1, <1>2, StartsType, UnitReplaced
<1>4. RelayTypes' /\ code' = code /\ redeemed' = redeemed
  BY <1>2 DEF relayVars, PairInv, RelayTypes
<1> QED
  BY <1>2, <1>3, <1>4, CommandsStand DEF PairInv

-----------------------------------------------------------------------------
(* The whole.                                                              *)

LEMMA PairingInitInv == PairingInit => PairInv
<1> SUFFICES ASSUME PairingInit PROVE PairInv
  OBVIOUS
<1>1. PICK old \in SUBSET Hosts, id \in Ids, name \in Names :
         /\ old = {} \/ \E h \in Hosts : old = {h}
         /\ row = [i \in Ids |-> IF i = id /\ old # {} THEN name ELSE NoName]
         /\ saved = [h \in Hosts |-> IF h \in old THEN id ELSE NoId]
         /\ alertsCfg = [h \in Hosts |-> IF h \in old
               THEN [id |-> id, rule |-> TRUE, readable |-> FALSE] ELSE NoFile_]
         /\ units = [h \in Hosts |-> IF h \in old
               THEN [file |-> "root", enabled |-> TRUE, probe |-> FALSE, runs |-> id]
               ELSE NoUnit]
  BY DEF PairingInit
<1>2. /\ code = [c \in Codes |-> "unborn"] /\ redeemed = [c \in Codes |-> 0]
      /\ message = NoMessage /\ delivered = {} /\ runUser = {} /\ excused = {}
      /\ died = {} /\ cmd = [p \in Commands |-> IdleCommand] /\ begun = 0
  BY DEF PairingInit
<1>3. RelayTypes
  <2>1. redeemed \in [Codes -> 0 .. 2]
    BY <1>2
  <2>2. row \in [Ids -> Names \cup {NoName}]
    BY <1>1
  <2> QED
    BY <1>2, <2>1, <2>2, PlainTypes DEF RelayTypes
<1>4. HostTypes
  <2>1. [id |-> id, rule |-> TRUE, readable |-> FALSE] \in AlertsFile
    BY DEF AlertsFile, MaybeId
  <2>2. [file |-> "root", enabled |-> TRUE, probe |-> FALSE, runs |-> id] \in Unit
    BY DEF Unit, MaybeId
  <2>3. alertsCfg \in [Hosts -> AlertsFile]
    BY <1>1, <2>1, PlainTypes
  <2>4. units \in [Hosts -> Unit]
    BY <1>1, <2>2, PlainTypes
  <2>5. saved \in [Hosts -> MaybeId]
    BY <1>1 DEF MaybeId
  <2> QED
    BY <1>2, <2>3, <2>4, <2>5 DEF HostTypes
<1>5. CommandTypes
  <2>1. begun \in 0 .. MaxAlertsRuns
    BY <1>2, PairingAssumption
  <2> QED
    BY <1>2, <2>1, PlainTypes DEF CommandTypes
<1>6. CodeInv
  <2>1. \A p \in Commands : cmd[p].step = "idle"
    BY <1>2, PlainTypes
  <2>2. \A c \in Codes : redeemed[c] = 0
    BY <1>2
  <2> QED
    BY <2>1, <2>2 DEF CodeInv, HasCode, In
<1> QED
  BY <1>3, <1>4, <1>5, <1>6 DEF PairInv

LEMMA PairingNextInv == PairInv /\ [PairingNext]_pairVars => PairInv'
<1> SUFFICES ASSUME PairInv, [PairingNext]_pairVars PROVE PairInv'
  OBVIOUS
<1>1. CASE UNCHANGED pairVars
  <2>1. UNCHANGED <<relayVars, hostVars, cmd, begun>>
    BY <1>1 DEF pairVars
  <2>2. RelayTypes' /\ redeemed' = redeemed /\ code' = code
    BY <2>1 DEF relayVars, PairInv, RelayTypes
  <2> QED
    BY <2>1, <2>2, HostStands, CommandsStand DEF PairInv
<1>2. CASE \/ Write("start", NoName) \/ CmdStart \/ CmdUnpair \/ RelayRestarts
           \/ \E n \in Names : Write("unpair", n)
           \/ \E c \in Codes : CodeExpires(c)
  BY <1>2, ChatInv
<1>3. ASSUME NEW p \in Commands,
             \/ BeginSetup(p) \/ SelectCode(p) \/ ConsumeCode(p) \/ CreateNode(p)
             \/ KeepThresholds(p) \/ PairingLost(p) \/ Save(p) \/ Install_(p)
             \/ InstallFails(p) \/ UndoUnits(p) \/ UndoPairing(p) \/ Forget(p)
             \/ BeginSet(p) \/ SetSave(p) \/ SetConverge(p) \/ SetReload(p)
             \/ BeginUnpair(p) \/ TellRelay(p) \/ UninstallUnits(p)
             \/ CommandDies(p)
      PROVE  PairInv'
  BY <1>3, BeginSetupInv, SelectCodeInv, ConsumeCodeInv, CreateNodeInv,
     KeepThresholdsInv, PairingLostInv, SaveInv, InstallInv, InstallFailsInv,
     UndoInv, BeginSetInv, SetInv, BeginUnpairInv, TellRelayInv, CommandDiesInv
<1>4. ASSUME NEW h \in Hosts, DaemonRestarts(h) PROVE PairInv'
  BY <1>4, DaemonRestartsInv
<1> QED
  BY <1>1, <1>2, <1>3, <1>4 DEF PairingNext

\* The inductive invariant of pairing: the types, and who may still turn
\* which code into a node (ConsumeCode, handlePair).
THEOREM Pairing == PairingSpec => []PairInv
<1>1. PairInv /\ [PairingNext]_pairVars => PairInv'
  BY PairingNextInv
<1> QED
  BY <1>1, PairingInitInv, PTL DEF PairingSpec

\* Every step of the relay, of its chat and of the alerts commands leaves the
\* rows, the files and the units what they are declared to be.
THEOREM PairingTypes == PairingSpec => []PairingTypeOK
<1>1. PairingInit => pairFaults \in PairFaultSets
  BY DEF PairingInit
<1>2. pairFaults \in PairFaultSets /\ [PairingNext]_pairVars => (pairFaults \in PairFaultSets)'
  BY DEF PairingNext, pairVars
<1>3. PairInv /\ pairFaults \in PairFaultSets => PairingTypeOK
  BY DEF PairInv, RelayTypes, HostTypes, CommandTypes, PairingTypeOK
<1> QED
  BY <1>1, <1>2, <1>3, Pairing, PTL DEF PairingSpec

\* A pairing code never pairs two nodes, however many hosts redeem it at once
\* and wherever setup, the relay or the chat fails: ConsumeCode needs no
\* transaction, because the update looks again whether the code is used.
THEOREM CodesPairOneNode == PairingSpec => []OneNodePerCode
<1>1. PairInv => OneNodePerCode
  BY DEF PairInv, CodeInv, OneNodePerCode
<1> QED
  BY <1>1, Pairing, PTL

-----------------------------------------------------------------------------
(***************************************************************************)
(* Who may read the credentials: where the unit runs as the user, the user *)
(* exists, so that whatever saves the file hands it over.                  *)
(***************************************************************************)
ReadInv ==
    \A h \in Hosts : units[h].file = "user" =>
        h \in runUser /\ (Paired(alertsCfg[h]) => alertsCfg[h].readable)

LEMMA StartsKeepsFile ==
    ASSUME NEW h, NEW file, NEW unit \in Unit
    PROVE  Starts(h, file, unit).file = unit.file
BY DEF Starts, Unit

LEMMA UnitKeepsReadInv ==
    ASSUME PairInv, ReadInv, NEW h \in Hosts, NEW u \in Unit,
           u.file = "user" => units[h].file = "user",
           units' = [units EXCEPT ![h] = u], UNCHANGED <<alertsCfg, runUser>>
    PROVE  ReadInv'
BY DEF PairInv, HostTypes, ReadInv

LEMMA UnitsKeepReadInv ==
    ASSUME PairInv, ReadInv, NEW p \in Commands,
           UndoUnits(p) \/ UninstallUnits(p) \/ SetReload(p)
    PROVE  ReadInv'
<1>1. /\ p[1] \in Hosts /\ units[p[1]] \in Unit
      /\ alertsCfg[p[1]] \in AlertsFile
  BY HostOf DEF PairInv, HostTypes
<1>2. CASE UndoUnits(p) \/ UninstallUnits(p)
  <2>1. PICK u \in Uninstalled(p[1]) : /\ units' = [units EXCEPT ![p[1]] = u]
                                      /\ UNCHANGED <<alertsCfg, runUser>>
    BY <1>2 DEF UndoUnits, UninstallUnits
  <2>2. u \in Unit /\ u.file = "none"
    BY <1>1, UninstalledType DEF PairInv
  <2> QED
    BY <1>1, <2>1, <2>2, UnitKeepsReadInv
<1>3. CASE SetReload(p)
  <2> DEFINE u == units[p[1]]
             file == alertsCfg[p[1]]
             new == IF u.runs = NoId \/ ~Paired(file) THEN u
                    ELSE IF u.file = "root" \/ file.readable
                    THEN [u EXCEPT !.runs = file.id] ELSE u
  <2>1. [u EXCEPT !.runs = file.id] \in Unit /\ [u EXCEPT !.runs = file.id].file = u.file
    BY <1>1 DEF Unit, AlertsFile
  <2>2. new \in Unit /\ new.file = u.file
    BY <1>1, <2>1
  <2>3. units' = [units EXCEPT ![p[1]] = new] /\ UNCHANGED <<alertsCfg, runUser>>
    BY <1>3 DEF SetReload
  <2> HIDE DEF new
  <2> QED
    BY <1>1, <2>2, <2>3, UnitKeepsReadInv
<1> QED
  BY <1>2, <1>3

LEMMA FilesKeepReadInv ==
    ASSUME PairInv, ReadInv, NEW p \in Commands, Save(p) \/ SetSave(p) \/ Forget(p)
    PROVE  ReadInv'
<1> DEFINE h == p[1]
<1>1. h \in Hosts /\ cmd[p].file \in AlertsFile
  BY HostOf DEF PairInv, CommandTypes, Command
<1>2. UNCHANGED <<units, runUser>>
  BY DEF Save, SetSave, Forget
<1>3. ASSUME NEW file \in AlertsFile, alertsCfg' = [alertsCfg EXCEPT ![h] = file],
             h \in runUser /\ Paired(file) => file.readable
      PROVE  ReadInv'
  BY <1>1, <1>2, <1>3 DEF ReadInv, PairInv, HostTypes, Paired
<1>4. CASE alertsCfg' = [alertsCfg EXCEPT ![h] = Saved(h, cmd[p].file)]
  <2>1. Saved(h, cmd[p].file) \in AlertsFile
    BY <1>1, SavedType
  <2>2. h \in runUser => Saved(h, cmd[p].file).readable
    BY <1>1 DEF Saved, AlertsFile
  <2> QED
    BY <1>3, <1>4, <2>1, <2>2
<1>5. CASE alertsCfg' = [alertsCfg EXCEPT ![h] = NoFile_]
  BY <1>3, <1>5, PlainTypes DEF Paired, NoFile_
<1>6. CASE UNCHANGED alertsCfg
  BY <1>2, <1>6 DEF ReadInv
<1> QED
  BY <1>4, <1>5, <1>6 DEF Save, SetSave, Forget

LEMMA ConvergeReadInv ==
    ASSUME PairInv, ReadInv, NEW h \in Hosts, Converge(h) \/ ConvergeFails(h)
    PROVE  ReadInv'
<1> DEFINE b == Paired(alertsCfg[h])
           file == [alertsCfg[h] EXCEPT !.readable = b]
<1>1. /\ alertsCfg[h] \in AlertsFile /\ file \in AlertsFile
      /\ file.readable = b /\ Paired(file) = b
  <2>1. alertsCfg[h] \in AlertsFile /\ b \in BOOLEAN
    BY DEF PairInv, HostTypes, Paired
  <2>2. file \in AlertsFile /\ file.readable = b /\ file.id = alertsCfg[h].id
    <3> HIDE DEF b
    <3> QED
      BY <2>1 DEF AlertsFile
  <2> QED
    BY <2>1, <2>2 DEF Paired
<1>2. ASSUME NEW u, units' = [units EXCEPT ![h] = u], runUser' = runUser \cup {h},
             alertsCfg' = [alertsCfg EXCEPT ![h] = file]
      PROVE  ReadInv'
  <2> HIDE DEF file
  <2>1. \A g \in Hosts \ {h} : units'[g] = units[g] /\ alertsCfg'[g] = alertsCfg[g]
    BY <1>2 DEF PairInv, HostTypes
  <2>2. alertsCfg'[h] = file /\ h \in runUser'
    BY <1>2 DEF PairInv, HostTypes
  <2> QED
    BY <1>1, <1>2, <2>1, <2>2 DEF ReadInv, Paired
<1>3. CASE Converge(h)
  BY <1>2, <1>3 DEF Converge
<1>4. CASE UNCHANGED <<alertsCfg, units>> /\ runUser \subseteq runUser'
  BY <1>4 DEF ReadInv
<1>5. CASE /\ runUser' = runUser \cup {h}
           /\ alertsCfg' = [alertsCfg EXCEPT ![h].readable = Paired(alertsCfg[h])]
           /\ units' = [units EXCEPT ![h].file = "user"]
  BY <1>2, <1>5
<1> QED
  BY <1>3, <1>4, <1>5 DEF ConvergeFails

LEMMA InstallReadInv ==
    ASSUME PairInv, ReadInv, NEW p \in Commands,
           Install_(p) \/ InstallFails(p) \/ SetConverge(p)
    PROVE  ReadInv'
<1> DEFINE h == p[1]
<1>1. h \in Hosts /\ alertsCfg[h] \in AlertsFile /\ units[h] \in Unit
  BY HostOf DEF PairInv, HostTypes
<1>2. CASE Converge(h) \/ ConvergeFails(h)
  BY <1>1, <1>2, ConvergeReadInv
<1>3. CASE UNCHANGED <<runUser, alertsCfg, units>>
  BY <1>3 DEF ReadInv
<1>4. ASSUME NEW u \in Unit, u.file = units[h].file,
             units' = [units EXCEPT ![h] = u], UNCHANGED <<alertsCfg, runUser>>
      PROVE  ReadInv'
  BY <1>1, <1>4, UnitKeepsReadInv
<1>5. CASE /\ units' = [units EXCEPT ![h].probe = TRUE]
           /\ UNCHANGED <<runUser, alertsCfg>>
  <2> DEFINE u == [units[h] EXCEPT !.probe = TRUE]
  <2>1. u \in Unit /\ u.file = units[h].file
    BY <1>1 DEF Unit
  <2>2. units' = [units EXCEPT ![h] = u]
    BY <1>5
  <2> HIDE DEF u
  <2> QED
    BY <1>4, <1>5, <2>1, <2>2
<1>6. CASE /\ units' = [units EXCEPT ![h] = IF @.enabled THEN @
                             ELSE Starts(h, alertsCfg[h], [@ EXCEPT !.enabled = TRUE])]
           /\ UNCHANGED <<runUser, alertsCfg>>
  <2> DEFINE on == [units[h] EXCEPT !.enabled = TRUE]
             u == IF units[h].enabled THEN units[h] ELSE Starts(h, alertsCfg[h], on)
  <2>1. on \in Unit /\ on.file = units[h].file
    BY <1>1 DEF Unit
  <2>2. Starts(h, alertsCfg[h], on) \in Unit /\ Starts(h, alertsCfg[h], on).file = on.file
    <3> HIDE DEF on
    <3> QED
      BY <1>1, <2>1, StartsType, StartsKeepsFile
  <2>3. u \in Unit /\ u.file = units[h].file
    BY <1>1, <2>1, <2>2
  <2>4. units' = [units EXCEPT ![h] = u]
    BY <1>6
  <2> HIDE DEF u
  <2> QED
    BY <1>4, <1>6, <2>3, <2>4
<1>7. CASE units' = [units EXCEPT ![h] = Restarted(h)] /\ UNCHANGED <<runUser, alertsCfg>>
  <2>1. Restarted(h) \in Unit /\ Restarted(h).file = units[h].file
    BY <1>1, StartsType, StartsKeepsFile DEF Restarted
  <2> QED
    BY <1>4, <1>7, <2>1
<1> QED
  BY <1>2, <1>3, <1>5, <1>6, <1>7 DEF Install_, InstallFails, SetConverge

LEMMA PairingNextReadInv == PairInv /\ ReadInv /\ [PairingNext]_pairVars => ReadInv'
<1> SUFFICES ASSUME PairInv, ReadInv, [PairingNext]_pairVars PROVE ReadInv'
  OBVIOUS
<1>1. CASE UNCHANGED <<alertsCfg, runUser, units>>
  BY <1>1 DEF ReadInv
<1>2. CASE \/ UNCHANGED pairVars
           \/ Write("start", NoName) \/ CmdStart \/ CmdUnpair \/ RelayRestarts
           \/ \E n \in Names : Write("unpair", n)
           \/ \E c \in Codes : CodeExpires(c)
  BY <1>1, <1>2 DEF pairVars, hostVars, Write, CmdStart, CmdUnpair, RelayRestarts,
     CodeExpires
<1>3. ASSUME NEW p \in Commands,
             \/ BeginSetup(p) \/ SelectCode(p) \/ ConsumeCode(p) \/ CreateNode(p)
             \/ KeepThresholds(p) \/ PairingLost(p) \/ UndoPairing(p) \/ BeginSet(p)
             \/ BeginUnpair(p) \/ TellRelay(p) \/ CommandDies(p)
      PROVE  ReadInv'
  BY <1>1, <1>3 DEF hostVars, BeginSetup, SelectCode, ConsumeCode, CreateNode,
     KeepThresholds, PairingLost, UndoPairing, BeginSet, BeginUnpair, TellRelay,
     CommandDies
<1>4. ASSUME NEW p \in Commands,
             \/ Save(p) \/ Install_(p) \/ InstallFails(p) \/ UndoUnits(p) \/ Forget(p)
             \/ SetSave(p) \/ SetConverge(p) \/ SetReload(p) \/ UninstallUnits(p)
      PROVE  ReadInv'
  BY <1>4, HostOf, FilesKeepReadInv, InstallReadInv, UnitsKeepReadInv
<1>5. ASSUME NEW h \in Hosts, DaemonRestarts(h) PROVE ReadInv'
  <2> DEFINE new == Starts(h, alertsCfg[h], units[h])
  <2>1. new \in Unit /\ new.file = units[h].file
    BY StartsType, StartsKeepsFile DEF PairInv, HostTypes
  <2>2. units' = [units EXCEPT ![h] = new] /\ UNCHANGED <<alertsCfg, runUser>>
    BY <1>5 DEF DaemonRestarts
  <2> HIDE DEF new
  <2> QED
    BY <2>1, <2>2, UnitKeepsReadInv
<1> QED
  BY <1>2, <1>3, <1>4, <1>5 DEF PairingNext

\* A daemon that runs as its own user may read the credentials of its host,
\* through every setup, new pairing, migration from root, set, unpair and
\* failure of one: the file is handed over before a unit names the user.
THEOREM DaemonsCanRead == PairingSpec => []DaemonCanRead
<1>1. PairingInit => ReadInv
  BY DEF PairingInit, ReadInv, NoUnit
<1>2. PairInv /\ ReadInv /\ [PairingNext]_pairVars => ReadInv'
  BY PairingNextReadInv
<1>3. ReadInv => DaemonCanRead
  BY DEF ReadInv, DaemonCanRead
<1> QED
  BY <1>1, <1>2, <1>3, Pairing, PTL DEF PairingSpec

-----------------------------------------------------------------------------
(***************************************************************************)
(* What hosts that run one alerts command at a time keep.  Two commands at *)
(* once break both: a set that read the file before an unpair writes the   *)
(* credentials back, and a setup's restart can come before the save of     *)
(* another.                                                                *)
(***************************************************************************)

LEMMA OneCommand ==
    ASSUME PerHost = 1
    PROVE  \A p, q \in Commands : p[1] = q[1] => p = q
<1>1. ASSUME NEW p \in Commands PROVE p = <<p[1], p[2]>> /\ p[2] = 1
  <2>1. PICK h \in Hosts, k \in 1 .. PerHost : p = <<h, k>>
    BY DEF Commands
  <2> QED
    BY <2>1
<1> QED
  BY <1>1

\* The command p goes to s with a file of that id.
Goes(p, s, id) ==
    /\ cmd'[p].step = s /\ cmd'[p].file.id = id
    /\ \A q \in Commands \ {p} : cmd'[q] = cmd[q]

LEMMA StepGoes ==
    ASSUME PairInv, NEW p \in Commands, NEW s, Step(p, s)
    PROVE  Goes(p, s, cmd[p].file.id)
BY DEF PairInv, CommandTypes, Command, Step, Goes

LEMMA OverGoes ==
    ASSUME PairInv, NEW p \in Commands, Over(p)
    PROVE  Goes(p, "idle", NoId)
BY DEF PairInv, CommandTypes, Over, Goes, IdleCommand, NoFile_

\* What Converge writes, done or not, keeps the credentials.
LEMMA ConvergeKeepsIds ==
    ASSUME PairInv, NEW h \in Hosts, Converge(h) \/ ConvergeFails(h)
    PROVE  \A g \in Hosts : alertsCfg'[g].id = alertsCfg[g].id
<1> DEFINE b == Paired(alertsCfg[h])
           file == [alertsCfg[h] EXCEPT !.readable = b]
<1>1. alertsCfg[h] \in AlertsFile
  BY DEF PairInv, HostTypes
<1>2. file.id = alertsCfg[h].id
  <2> HIDE DEF b
  <2> QED
    BY <1>1 DEF AlertsFile
<1>3. alertsCfg' = alertsCfg \/ alertsCfg' = [alertsCfg EXCEPT ![h] = file]
  BY DEF Converge, ConvergeFails, PairInv, HostTypes
<1> HIDE DEF file
<1> QED
  BY <1>2, <1>3 DEF PairInv, HostTypes

(***************************************************************************)
(* The credentials that the relay knows are kept: a command that works on  *)
(* the host's node has its id, and one that is about to drop the file has  *)
(* had the relay forget the node, or was forced.                           *)
(***************************************************************************)
Working == {"converge", "timer", "service", "restart", "undoUnits", "undoPairing",
            "setSave", "tell"}
Dropping == {"forget", "uninstall", "remove"}
Gone(h) == saved[h] \in Ids \ excused => row[saved[h]] = NoName
KeptInv ==
    /\ KnownIsKept
    /\ \A p \in Commands : cmd[p].step \in Working => cmd[p].file.id = alertsCfg[p[1]].id
    /\ \A p \in Commands : cmd[p].step \in Dropping => Gone(p[1])

\* No row that the relay has forgotten comes back under the id of a host.
NoneRevived ==
    \A h \in Hosts : saved[h] \in Ids /\ row[saved[h]] = NoName => row'[saved[h]] = NoName

\* Only the host of the command that moves need be looked at.
LEMMA KeptMoves ==
    ASSUME PerHost = 1, PairInv, KeptInv, NEW p \in Commands, NEW s, NEW id, Goes(p, s, id),
           \A g \in Hosts \ {p[1]} : alertsCfg'[g].id = alertsCfg[g].id /\ saved'[g] = saved[g],
           excused \subseteq excused', NoneRevived,
           (saved'[p[1]] \in Ids \ excused' /\ row'[saved'[p[1]]] # NoName) =>
               alertsCfg'[p[1]].id = saved'[p[1]],
           s \in Working => id = alertsCfg'[p[1]].id,
           s \in Dropping => Gone(p[1])'
    PROVE  KeptInv'
<1>1. ASSUME NEW g \in Hosts \ {p[1]}
      PROVE  Gone(g) => Gone(g)'
  BY DEF Gone, NoneRevived
<1>2. ASSUME NEW q \in Commands \ {p}
      PROVE  q[1] \in Hosts \ {p[1]} /\ cmd'[q] = cmd[q]
  BY OneCommand, HostOf DEF Goes
<1>3. KnownIsKept'
  <2>1. ASSUME NEW g \in Hosts, saved'[g] \in Ids \ excused', row'[saved'[g]] # NoName
        PROVE  alertsCfg'[g].id = saved'[g]
    <3>1. CASE g = p[1]
      BY <2>1, <3>1
    <3>2. CASE g # p[1]
      <4>1. saved'[g] = saved[g] /\ alertsCfg'[g].id = alertsCfg[g].id
        BY <3>2
      <4>2. saved[g] \in Ids \ excused /\ row[saved[g]] # NoName
        BY <2>1, <4>1 DEF NoneRevived
      <4> QED
        BY <4>1, <4>2 DEF KeptInv, KnownIsKept
    <3> QED
      BY <3>1, <3>2
  <2> QED
    BY <2>1 DEF KnownIsKept
<1>4. ASSUME NEW q \in Commands, cmd'[q].step \in Working
      PROVE  cmd'[q].file.id = alertsCfg'[q[1]].id
  <2>1. CASE q = p
    BY <1>4, <2>1 DEF Goes
  <2>2. CASE q # p
    BY <1>2, <1>4, <2>2 DEF KeptInv
  <2> QED
    BY <2>1, <2>2
<1>5. ASSUME NEW q \in Commands, cmd'[q].step \in Dropping
      PROVE  Gone(q[1])'
  <2>1. CASE q = p
    BY <1>5, <2>1 DEF Goes
  <2>2. CASE q # p
    BY <1>1, <1>2, <1>5, <2>2 DEF KeptInv
  <2> QED
    BY <2>1, <2>2
<1> QED
  BY <1>3, <1>4, <1>5 DEF KeptInv

\* A command that goes on and leaves ids and rows as they are.
LEMMA KeptGoesOn ==
    ASSUME PerHost = 1, PairInv, KeptInv, NEW p \in Commands, NEW s, NEW id, Goes(p, s, id),
           \A g \in Hosts : alertsCfg'[g].id = alertsCfg[g].id,
           UNCHANGED <<row, saved, excused>>,
           s \in Working => id = alertsCfg[p[1]].id,
           s \in Dropping => cmd[p].step \in Dropping \/ Gone(p[1])
    PROVE  KeptInv'
<1>1. p[1] \in Hosts /\ NoneRevived
  BY HostOf DEF NoneRevived
<1>2. (saved'[p[1]] \in Ids \ excused' /\ row'[saved'[p[1]]] # NoName) =>
         alertsCfg'[p[1]].id = saved'[p[1]]
  BY <1>1 DEF KeptInv, KnownIsKept
<1>3. s \in Dropping => Gone(p[1])'
  BY DEF KeptInv, Gone
<1> QED
  BY <1>1, <1>2, <1>3, KeptMoves

\* Steps that leave relay, saved and the ids in the files as they are.
LEMMA KeptOnHost ==
    ASSUME PerHost = 1, PairInv, KeptInv, NEW p \in Commands,
           \/ BeginSetup(p) \/ SelectCode(p) \/ ConsumeCode(p) \/ KeepThresholds(p)
           \/ PairingLost(p) \/ Install_(p) \/ InstallFails(p) \/ UndoUnits(p)
           \/ BeginSet(p) \/ SetConverge(p) \/ SetReload(p) \/ BeginUnpair(p)
           \/ UninstallUnits(p) \/ CommandDies(p)
    PROVE  KeptInv'
<1>0. /\ p[1] \in Hosts /\ cmd[p] \in Command
      /\ cmd[p].step \in Working => cmd[p].file.id = alertsCfg[p[1]].id
  BY HostOf DEF PairInv, CommandTypes, KeptInv
<1>1. UNCHANGED <<row, saved, excused>>
  BY DEF relayVars, hostVars, BeginSetup, SelectCode, ConsumeCode, KeepThresholds,
         PairingLost, Install_, InstallFails, UndoUnits, BeginSet, SetConverge, SetReload,
         BeginUnpair, UninstallUnits, CommandDies
<1>2. \A g \in Hosts : alertsCfg'[g].id = alertsCfg[g].id
  <2>1. UNCHANGED alertsCfg \/ Converge(p[1]) \/ ConvergeFails(p[1])
    BY DEF hostVars, BeginSetup, SelectCode, ConsumeCode, KeepThresholds,
           PairingLost, Install_, InstallFails, UndoUnits, BeginSet, SetConverge, SetReload,
           BeginUnpair, UninstallUnits, CommandDies
  <2> QED
    BY <1>0, <2>1, ConvergeKeepsIds
<1>3. CASE Over(p)
  BY <1>1, <1>2, <1>3, OverGoes, KeptGoesOn DEF Working, Dropping
<1>4. ASSUME NEW s, Step(p, s), s \in Working => cmd[p].step \in Working,
             s \in Dropping => cmd[p].step \in Dropping
      PROVE  KeptInv'
  BY <1>0, <1>1, <1>2, <1>4, StepGoes, KeptGoesOn
<1>5. CASE BeginSetup(p)
  <2>1. PICK c \in delivered, n \in Names :
          cmd' = [cmd EXCEPT ![p] = [IdleCommand EXCEPT
                    !.step = "select", !.code = c, !.name = n]]
    BY <1>5 DEF BeginSetup
  <2>2. Goes(p, "select", NoId)
    BY <2>1 DEF PairInv, CommandTypes, Goes, IdleCommand, NoFile_
  <2> QED
    BY <1>1, <1>2, <2>2, KeptGoesOn DEF Working, Dropping
<1>6. CASE SelectCode(p) \/ ConsumeCode(p)
  BY <1>3, <1>4, <1>6 DEF SelectCode, ConsumeCode, Working, Dropping
<1>7. CASE KeepThresholds(p)
  <2> DEFINE new == [cmd[p] EXCEPT !.step = "save", !.file.rule = alertsCfg[p[1]].rule]
  <2>1. cmd' = [cmd EXCEPT ![p] = new]
    BY <1>7 DEF KeepThresholds, PairInv, CommandTypes
  <2>2. new.step = "save"
    BY <1>0 DEF Command
  <2> HIDE DEF new
  <2>3. Goes(p, "save", new.file.id)
    BY <2>1, <2>2 DEF Goes, PairInv, CommandTypes
  <2> QED
    BY <1>1, <1>2, <2>3, KeptGoesOn DEF Working, Dropping
<1>8. CASE PairingLost(p) \/ CommandDies(p)
  BY <1>3, <1>8 DEF PairingLost, CommandDies
<1>9. CASE Install_(p) \/ InstallFails(p) \/ UndoUnits(p)
  BY <1>3, <1>4, <1>9 DEF Install_, InstallFails, UndoUnits, In, Working, Dropping
<1>10. CASE SetConverge(p) \/ SetReload(p)
  BY <1>3, <1>4, <1>10 DEF SetConverge, SetReload, Working, Dropping
<1>11. CASE UninstallUnits(p)
  BY <1>3, <1>4, <1>11 DEF UninstallUnits, In, Working, Dropping
<1>12. CASE BeginSet(p)
  <2> DEFINE file == [alertsCfg[p[1]] EXCEPT !.rule = ~@]
             new == [IdleCommand EXCEPT !.step = "setSave", !.file = file]
  <2>1. cmd' = [cmd EXCEPT ![p] = new]
    BY <1>12 DEF BeginSet
  <2>2. file.id = alertsCfg[p[1]].id
    BY <1>0 DEF PairInv, HostTypes, AlertsFile
  <2> HIDE DEF file
  <2>3. new.step = "setSave" /\ new.file = file
    BY DEF IdleCommand
  <2> HIDE DEF new
  <2>4. Goes(p, "setSave", alertsCfg[p[1]].id)
    BY <2>1, <2>2, <2>3 DEF Goes, PairInv, CommandTypes
  <2> QED
    BY <1>1, <1>2, <2>4, KeptGoesOn DEF Dropping
<1>13. CASE BeginUnpair(p)
  <2> DEFINE s == IF Paired(alertsCfg[p[1]]) THEN "tell" ELSE "uninstall"
  <2>1. PICK force \in BOOLEAN :
          cmd' = [cmd EXCEPT ![p] = [IdleCommand EXCEPT
                    !.file = alertsCfg[p[1]], !.force = force, !.step = s]]
    BY <1>13 DEF BeginUnpair
  <2>2. Goes(p, s, alertsCfg[p[1]].id)
    <3> HIDE DEF s
    <3> QED
      BY <2>1 DEF PairInv, CommandTypes, Goes, IdleCommand
  <2>3. s = "uninstall" => Gone(p[1])
    <3> SUFFICES ASSUME s = "uninstall" PROVE Gone(p[1])
      OBVIOUS
    <3>1. alertsCfg[p[1]].id = NoId
      BY DEF Paired
    <3>2. NoId \notin Ids
      BY PairingAssumption
    <3> QED
      BY <1>0, <3>1, <3>2 DEF KeptInv, KnownIsKept, Gone
  <2> QED
    BY <1>1, <1>2, <2>2, <2>3, KeptGoesOn DEF Working, Dropping
<1> QED
  BY <1>5, <1>6, <1>7, <1>8, <1>9, <1>10, <1>11, <1>12, <1>13

\* Steps on the relay's rows.
LEMMA KeptOnRelay ==
    ASSUME PerHost = 1, PairInv, KeptInv, NEW p \in Commands,
           CreateNode(p) \/ UndoPairing(p) \/ TellRelay(p)
    PROVE  KeptInv'
<1>0. p[1] \in Hosts
  BY HostOf
<1>1. UNCHANGED <<alertsCfg, saved>> /\ excused \subseteq excused'
  BY DEF hostVars, CreateNode, UndoPairing, TellRelay
\* A row that goes with the credentials of the host.
<1>2. ASSUME cmd[p].step \in Working, row' = [row EXCEPT ![cmd[p].file.id] = NoName]
      PROVE  NoneRevived /\ Gone(p[1])'
  <2>1. cmd[p].file.id = alertsCfg[p[1]].id
    BY <1>2 DEF KeptInv
  <2>2. NoneRevived
    BY <1>2 DEF NoneRevived, PairInv, RelayTypes
  <2>3. Gone(p[1])'
    BY <1>0, <1>1, <1>2, <2>1, <2>2 DEF Gone, KeptInv, KnownIsKept, PairInv, RelayTypes
  <2> QED
    BY <2>2, <2>3
\* The host moved without a change of its credentials.
<1>3. ASSUME NEW s, NEW id, Goes(p, s, id), s \notin Working, NoneRevived,
             s \in Dropping => Gone(p[1])'
      PROVE  KeptInv'
  <2>1. (saved'[p[1]] \in Ids \ excused' /\ row'[saved'[p[1]]] # NoName) =>
           alertsCfg'[p[1]].id = saved'[p[1]]
    BY <1>0, <1>1, <1>3 DEF NoneRevived, KeptInv, KnownIsKept
  <2> QED
    BY <1>1, <1>3, <2>1, KeptMoves
<1>4. CASE CreateNode(p)
  <2>1. CASE UNCHANGED row /\ Over(p)
    BY <1>3, <2>1, OverGoes DEF NoneRevived, Working, Dropping
  <2>2. CASE \E i \in Ids :
               /\ row[i] = NoName
               /\ \A h \in Hosts : i \notin {alertsCfg[h].id, saved[h], units[h].runs}
               /\ row' = [row EXCEPT ![i] = cmd[p].name]
               /\ cmd' = [cmd EXCEPT ![p].step = "paired", ![p].file.id = i]
    <3>1. PICK i \in Ids :
             /\ \A h \in Hosts : i # saved[h]
             /\ row' = [row EXCEPT ![i] = cmd[p].name]
             /\ cmd' = [cmd EXCEPT ![p].step = "paired", ![p].file.id = i]
      BY <2>2
    <3>2. NoneRevived
      BY <3>1 DEF NoneRevived, PairInv, RelayTypes
    <3>3. Goes(p, "paired", i)
      BY <3>1 DEF Goes, PairInv, CommandTypes, Command, AlertsFile
    <3> QED
      BY <1>3, <3>2, <3>3 DEF Working, Dropping
  <2> QED
    BY <1>4, <2>1, <2>2 DEF CreateNode
<1>5. CASE UndoPairing(p)
  <2>1. CASE row' = [row EXCEPT ![cmd[p].file.id] = NoName] /\ Step(p, "forget")
    BY <1>2, <1>3, <1>5, <2>1, StepGoes DEF UndoPairing, In, Working
  <2>2. CASE UNCHANGED row /\ Over(p)
    BY <1>3, <2>2, OverGoes DEF NoneRevived, Working, Dropping
  <2> QED
    BY <1>5, <2>1, <2>2 DEF UndoPairing
<1>6. CASE TellRelay(p)
  <2>1. CASE row' = [row EXCEPT ![cmd[p].file.id] = NoName] /\ Step(p, "uninstall")
    BY <1>2, <1>3, <1>6, <2>1, StepGoes DEF TellRelay, In, Working
  <2>2. CASE UNCHANGED row /\ Over(p)
    BY <1>3, <2>2, OverGoes DEF NoneRevived, Working, Dropping
  <2>3. CASE /\ UNCHANGED row /\ Step(p, "uninstall")
             /\ excused' = excused \cup {cmd[p].file.id}
    <3>1. cmd[p].file.id = alertsCfg[p[1]].id
      BY <1>6 DEF TellRelay, In, Working, KeptInv
    <3>2. Gone(p[1])' /\ NoneRevived
      BY <1>0, <1>1, <2>3, <3>1 DEF Gone, NoneRevived, KeptInv, KnownIsKept
    <3> QED
      BY <1>3, <2>3, <3>2, StepGoes DEF Working
  <2> QED
    BY <1>6, <2>1, <2>2, <2>3 DEF TellRelay
<1> QED
  BY <1>4, <1>5, <1>6

\* Steps that write or remove the file.
LEMMA KeptOnFile ==
    ASSUME PerHost = 1, PairInv, KeptInv, NEW p \in Commands,
           Save(p) \/ SetSave(p) \/ Forget(p)
    PROVE  KeptInv'
<1> DEFINE h == p[1]
<1>0. h \in Hosts /\ cmd[p].file \in AlertsFile /\ excused \subseteq excused'
  BY HostOf DEF PairInv, CommandTypes, Command, Save, SetSave, Forget
<1>1. NoneRevived /\ row' = row
  BY DEF NoneRevived, relayVars, Save, SetSave, Forget
<1>2. Saved(h, cmd[p].file).id = cmd[p].file.id
  BY <1>0 DEF Saved, AlertsFile
<1>3. CASE Save(p)
  <2>1. /\ Goes(p, "converge", cmd[p].file.id)
        /\ alertsCfg' = [alertsCfg EXCEPT ![h] = Saved(h, cmd[p].file)]
        /\ saved' = [saved EXCEPT ![h] = cmd[p].file.id]
    BY <1>3, StepGoes DEF Save
  <2>2. /\ alertsCfg'[h].id = cmd[p].file.id /\ saved'[h] = cmd[p].file.id
        /\ \A g \in Hosts \ {h} : alertsCfg'[g] = alertsCfg[g] /\ saved'[g] = saved[g]
    BY <1>0, <1>2, <2>1 DEF PairInv, HostTypes
  <2> QED
    BY <1>0, <1>1, <2>1, <2>2, KeptMoves DEF Dropping
<1>4. CASE SetSave(p)
  <2>1. CASE Step(p, "setConverge") /\ alertsCfg' = [alertsCfg EXCEPT ![h] = Saved(h, cmd[p].file)]
    <3>1. \A g \in Hosts : alertsCfg'[g].id = alertsCfg[g].id
      BY <1>0, <1>2, <1>4, <2>1 DEF SetSave, In, Working, KeptInv, PairInv, HostTypes
    <3> QED
      BY <1>1, <1>4, <2>1, <3>1, StepGoes, KeptGoesOn DEF SetSave, Working, Dropping
  <2>2. CASE Over(p) /\ UNCHANGED alertsCfg
    BY <1>1, <1>4, <2>2, OverGoes, KeptGoesOn DEF SetSave, Working, Dropping
  <2> QED
    BY <1>4, <2>1, <2>2 DEF SetSave
<1>5. CASE Forget(p)
  <2>1. /\ Goes(p, "idle", NoId) /\ alertsCfg' = [alertsCfg EXCEPT ![h] = NoFile_]
        /\ UNCHANGED <<saved, excused>>
    BY <1>5, OverGoes DEF Forget
  <2>2. Gone(h)
    BY <1>5 DEF Forget, In, Dropping, KeptInv
  <2>3. \A g \in Hosts \ {h} : alertsCfg'[g] = alertsCfg[g]
    BY <2>1 DEF PairInv, HostTypes
  <2> QED
    BY <1>0, <1>1, <2>1, <2>2, <2>3, KeptMoves DEF Gone, Working, Dropping
<1> QED
  BY <1>3, <1>4, <1>5

LEMMA PairingNextKept ==
    ASSUME PerHost = 1, PairInv, KeptInv, [PairingNext]_pairVars
    PROVE  KeptInv'
<1>1. ASSUME UNCHANGED <<alertsCfg, saved, excused, cmd>>,
             \A i \in Ids : row'[i] \in {row[i], NoName}
      PROVE  KeptInv'
  <2>1. KnownIsKept' /\ \A h \in Hosts : Gone(h) => Gone(h)'
    BY <1>1 DEF KeptInv, KnownIsKept, Gone
  <2> QED
    BY <1>1, <2>1, HostOf DEF KeptInv
<1>2. CASE \/ Write("start", NoName) \/ CmdStart \/ RelayRestarts
           \/ \E n \in Names : Write("unpair", n)
           \/ \E c \in Codes : CodeExpires(c)
           \/ \E h \in Hosts : DaemonRestarts(h)
           \/ UNCHANGED pairVars
  <2>1. UNCHANGED <<alertsCfg, saved, excused, cmd, row>>
    BY <1>2 DEF Write, CmdStart, RelayRestarts, CodeExpires, DaemonRestarts, pairVars,
                relayVars, hostVars
  <2> QED
    BY <1>1, <2>1
<1>3. CASE CmdUnpair
  <2>1. UNCHANGED <<alertsCfg, saved, excused, cmd>>
    BY <1>3 DEF CmdUnpair, hostVars
  <2>2. \A i \in Ids : row'[i] \in {row[i], NoName}
    BY <1>3 DEF CmdUnpair
  <2> QED
    BY <1>1, <2>1, <2>2
<1>4. ASSUME NEW p \in Commands,
             \/ BeginSetup(p) \/ SelectCode(p) \/ ConsumeCode(p) \/ CreateNode(p)
             \/ KeepThresholds(p) \/ PairingLost(p) \/ Save(p) \/ Install_(p)
             \/ InstallFails(p) \/ UndoUnits(p) \/ UndoPairing(p) \/ Forget(p)
             \/ BeginSet(p) \/ SetSave(p) \/ SetConverge(p) \/ SetReload(p)
             \/ BeginUnpair(p) \/ TellRelay(p) \/ UninstallUnits(p)
             \/ CommandDies(p)
      PROVE  KeptInv'
  BY <1>4, KeptOnHost, KeptOnRelay, KeptOnFile
<1> QED
  BY <1>2, <1>3, <1>4 DEF PairingNext

(***************************************************************************)
(* While the relay knows the node a host saved last, the host has the      *)
(* credentials to take that back, wherever setup or unpair failed or died: *)
(* the relay is told first, and the file goes last (runSetup, runUnpair).  *)
(***************************************************************************)
THEOREM KnownNodesAreKept ==
    ASSUME PerHost = 1
    PROVE  PairingSpec => []KnownIsKept
<1>1. PairingInit => KeptInv
  BY DEF PairingInit, KeptInv, KnownIsKept, IdleCommand, Working, Dropping, NoFile_
<1>2. PairInv /\ KeptInv /\ [PairingNext]_pairVars => KeptInv'
  BY PairingNextKept
<1>3. KeptInv => KnownIsKept
  BY DEF KeptInv
<1> QED
  BY <1>1, <1>2, <1>3, Pairing, PTL DEF PairingSpec

-----------------------------------------------------------------------------
(***************************************************************************)
(* With whose credentials the daemon runs.  Only the commands that change  *)
(* the units may meanwhile leave a daemon that has not read the file; one  *)
(* that gives the file up has ended the daemon, which is why the daemon    *)
(* has to end: uninstallFails is left out.                                 *)
(***************************************************************************)
Changing == {"converge", "timer", "service", "restart", "undoUnits"}
Ending == {"undoPairing", "forget", "remove"}
RunsFile(h) == units[h].runs \in {NoId, alertsCfg[h].id}
NoDaemon(h) == units[h].runs = NoId /\ ~units[h].enabled
RunsInv ==
    /\ \A p \in Commands : cmd[p].step \notin Changing /\ p[1] \notin died => RunsFile(p[1])
    /\ \A p \in Commands : cmd[p].step \in Ending => NoDaemon(p[1])

LEMMA RunsMoves ==
    ASSUME PerHost = 1, PairInv, RunsInv, NEW p \in Commands, NEW s, NEW id, Goes(p, s, id),
           \A g \in Hosts \ {p[1]} :
               units'[g] = units[g] /\ alertsCfg'[g].id = alertsCfg[g].id,
           died \subseteq died',
           s \notin Changing /\ p[1] \notin died' => RunsFile(p[1])',
           s \in Ending => NoDaemon(p[1])'
    PROVE  RunsInv'
<1>1. ASSUME NEW q \in Commands \ {p}
      PROVE  q[1] \in Hosts \ {p[1]} /\ cmd'[q] = cmd[q]
  BY OneCommand, HostOf DEF Goes
<1>2. ASSUME NEW q \in Commands, cmd'[q].step \notin Changing, q[1] \notin died'
      PROVE  RunsFile(q[1])'
  <2>1. CASE q = p
    BY <1>2, <2>1 DEF Goes
  <2>2. CASE q # p
    BY <1>1, <1>2, <2>2 DEF RunsInv, RunsFile
  <2> QED
    BY <2>1, <2>2
<1>3. ASSUME NEW q \in Commands, cmd'[q].step \in Ending
      PROVE  NoDaemon(q[1])'
  <2>1. CASE q = p
    BY <1>3, <2>1 DEF Goes
  <2>2. CASE q # p
    BY <1>1, <1>3, <2>2 DEF RunsInv, NoDaemon
  <2> QED
    BY <2>1, <2>2
<1> QED
  BY <1>2, <1>3 DEF RunsInv

\* A command that goes on and leaves the daemons and the ids as they are.
LEMMA RunsGoesOn ==
    ASSUME PerHost = 1, PairInv, RunsInv, NEW p \in Commands, NEW s, NEW id, Goes(p, s, id),
           \A g \in Hosts : alertsCfg'[g].id = alertsCfg[g].id,
           UNCHANGED units, died \subseteq died',
           cmd[p].step \in Changing => s \in Changing \/ p[1] \in died',
           s \in Ending => cmd[p].step \in Ending
    PROVE  RunsInv'
<1>1. p[1] \in Hosts
  BY HostOf
<1>2. s \notin Changing /\ p[1] \notin died' => RunsFile(p[1])'
  BY <1>1 DEF RunsInv, RunsFile
<1>3. s \in Ending => NoDaemon(p[1])'
  BY DEF RunsInv, NoDaemon
<1> QED
  BY <1>2, <1>3, RunsMoves

\* Steps that leave the units as they are.
LEMMA RunsWithoutUnits ==
    ASSUME PerHost = 1, PairInv, KeptInv, RunsInv, NEW p \in Commands,
           \/ BeginSetup(p) \/ SelectCode(p) \/ ConsumeCode(p) \/ CreateNode(p)
           \/ KeepThresholds(p) \/ PairingLost(p) \/ UndoPairing(p) \/ BeginSet(p)
           \/ BeginUnpair(p) \/ TellRelay(p) \/ CommandDies(p)
    PROVE  RunsInv'
<1>0. UNCHANGED <<units, alertsCfg>> /\ (died' = died \/ died' = died \cup {p[1]})
  BY DEF relayVars, hostVars, BeginSetup, SelectCode, ConsumeCode, CreateNode, KeepThresholds,
         PairingLost, UndoPairing, BeginSet, BeginUnpair, TellRelay, CommandDies
<1>1. /\ UNCHANGED <<units, alertsCfg>> /\ died \subseteq died'
      /\ \A g \in Hosts : alertsCfg'[g].id = alertsCfg[g].id
  BY <1>0
<1>2. CASE CommandDies(p)
  <2>1. Goes(p, "idle", NoId) /\ p[1] \in died'
    BY <1>2, OverGoes DEF CommandDies
  <2> QED
    BY <1>1, <2>1, RunsGoesOn DEF Ending
<1>3. ASSUME NEW s, NEW id, Goes(p, s, id), cmd[p].step \notin Changing,
             s \in Ending => cmd[p].step \in Ending
      PROVE  RunsInv'
  BY <1>1, <1>3, RunsGoesOn
<1>4. CASE SelectCode(p) \/ ConsumeCode(p) \/ PairingLost(p) \/ UndoPairing(p) \/ TellRelay(p)
  <2>1. cmd[p].step \in {"select", "consume", "paired", "save", "undoPairing", "tell"}
    BY <1>4 DEF SelectCode, ConsumeCode, PairingLost, UndoPairing, TellRelay, In
  <2>2. \/ Over(p) \/ Step(p, "consume") \/ Step(p, "create") \/ Step(p, "uninstall")
        \/ UndoPairing(p) /\ Step(p, "forget")
    BY <1>4 DEF SelectCode, ConsumeCode, PairingLost, UndoPairing, TellRelay
  <2>3. UndoPairing(p) => cmd[p].step \in Ending
    BY DEF UndoPairing, In, Ending
  <2> QED
    BY <1>3, <2>1, <2>2, <2>3, StepGoes, OverGoes DEF Changing, Ending
\* Whatever the command has in hand, these go to steps of their own.
<1>5. ASSUME NEW s, NEW new, cmd' = [cmd EXCEPT ![p] = new], new.step = s,
             cmd[p].step \notin Changing, s \notin Ending
      PROVE  RunsInv'
  <2>1. Goes(p, s, new.file.id)
    BY <1>5 DEF Goes, PairInv, CommandTypes
  <2> QED
    BY <1>3, <1>5, <2>1
<1>6. /\ IdleCommand \in Command /\ cmd[p] \in Command /\ cmd \in [Commands -> Command]
      /\ In(p, "idle") \/ In(p, "create") \/ In(p, "paired") => cmd[p].step \notin Changing
  BY PlainTypes DEF PairInv, CommandTypes, In, Changing
<1>7. CASE BeginSetup(p)
  <2>1. PICK c \in delivered, n \in Names :
          cmd' = [cmd EXCEPT ![p] = [IdleCommand EXCEPT
                    !.step = "select", !.code = c, !.name = n]]
    BY <1>7 DEF BeginSetup
  <2> DEFINE new == [IdleCommand EXCEPT !.step = "select", !.code = c, !.name = n]
  <2>2. cmd' = [cmd EXCEPT ![p] = new]
    BY <2>1
  <2>3. new.step = "select"
    BY DEF IdleCommand
  <2> HIDE DEF new
  <2> QED
    BY <1>5, <1>6, <1>7, <2>2, <2>3 DEF BeginSetup, Ending
<1>8. CASE CreateNode(p)
  <2>1. CASE Over(p)
    BY <1>3, <1>6, <1>8, <2>1, OverGoes DEF CreateNode, Ending
  <2>2. CASE \E i \in Ids : cmd' = [cmd EXCEPT ![p].step = "paired", ![p].file.id = i]
    <3>1. PICK i \in Ids : cmd' = [cmd EXCEPT ![p].step = "paired", ![p].file.id = i]
      BY <2>2
    <3>2. Goes(p, "paired", i)
      BY <3>1 DEF Goes, PairInv, CommandTypes, Command, AlertsFile
    <3> QED
      BY <1>3, <1>6, <1>8, <3>2 DEF CreateNode, Ending
  <2> QED
    BY <1>8, <2>1, <2>2 DEF CreateNode
<1>9. CASE KeepThresholds(p)
  <2> DEFINE new == [cmd[p] EXCEPT !.step = "save", !.file.rule = alertsCfg[p[1]].rule]
  <2>1. cmd' = [cmd EXCEPT ![p] = new]
    BY <1>6, <1>9 DEF KeepThresholds
  <2>2. new.step = "save"
    BY <1>6 DEF Command
  <2> HIDE DEF new
  <2> QED
    BY <1>5, <1>6, <1>9, <2>1, <2>2 DEF KeepThresholds, Ending
<1>10. CASE BeginSet(p)
  <2> DEFINE new == [IdleCommand EXCEPT !.step = "setSave",
                       !.file = [alertsCfg[p[1]] EXCEPT !.rule = ~@]]
  <2>1. cmd' = [cmd EXCEPT ![p] = new] /\ new.step = "setSave"
    BY <1>10 DEF BeginSet, IdleCommand
  <2> HIDE DEF new
  <2> QED
    BY <1>5, <1>6, <1>10, <2>1 DEF BeginSet, Ending
<1>11. CASE BeginUnpair(p)
  <2> DEFINE s == IF Paired(alertsCfg[p[1]]) THEN "tell" ELSE "uninstall"
  <2>1. PICK force \in BOOLEAN :
          cmd' = [cmd EXCEPT ![p] = [IdleCommand EXCEPT
                    !.file = alertsCfg[p[1]], !.force = force, !.step = s]]
    BY <1>11 DEF BeginUnpair
  <2>2. s \notin Ending
    BY DEF Ending
  <2> HIDE DEF s
  <2> DEFINE new == [IdleCommand EXCEPT
                       !.file = alertsCfg[p[1]], !.force = force, !.step = s]
  <2>3. cmd' = [cmd EXCEPT ![p] = new]
    BY <2>1
  <2>4. new.step = s
    BY DEF IdleCommand
  <2> HIDE DEF new
  <2> QED
    BY <1>5, <1>6, <1>11, <2>2, <2>3, <2>4 DEF BeginUnpair
<1> QED
  BY <1>2, <1>4, <1>7, <1>8, <1>9, <1>10, <1>11

\* A daemon that has read the file, or has ended for want of one.
LEMMA StartsRuns ==
    ASSUME NEW h, NEW file \in AlertsFile, NEW unit \in Unit
    PROVE  Starts(h, file, unit).runs \in {NoId, file.id}
BY DEF Starts, Unit

\* Converge leaves the daemon alone or starts it anew, and enables nothing.
LEMMA ConvergeRuns ==
    ASSUME PairInv, NEW h \in Hosts, Converge(h) \/ ConvergeFails(h), RunsFile(h)
    PROVE  RunsFile(h)'
<1> DEFINE b == Paired(alertsCfg[h])
           file == [alertsCfg[h] EXCEPT !.readable = b]
           u == units[h]
           written == [u EXCEPT !.file = "user"]
           left == ConvergedUnits(h, file)
<1>1. alertsCfg[h] \in AlertsFile /\ u \in Unit /\ b \in BOOLEAN
  BY DEF PairInv, HostTypes, Paired
<1>2. file \in AlertsFile /\ file.id = alertsCfg[h].id
  <2> HIDE DEF b
  <2> QED
    BY <1>1 DEF AlertsFile
<1>3. written \in Unit /\ written.runs = u.runs
  BY <1>1 DEF Unit
<1>4. alertsCfg'[h].id = alertsCfg[h].id
  BY ConvergeKeepsIds
<1>5. CASE Converge(h)
  <2> DEFINE started == Starts(h, file, written)
  <2>1. started \in Unit /\ started.runs \in {NoId, file.id}
    <3> HIDE DEF file, written
    <3> QED
      BY <1>2, <1>3, StartsRuns, StartsType
  <2>2. \E v \in {started, written} : left = [v EXCEPT !.probe = u.probe \/ u.enabled]
    BY DEF ConvergedUnits
  <2>3. left.runs \in {started.runs, written.runs}
    <3> HIDE DEF started, written, left
    <3> QED
      BY <1>3, <2>1, <2>2 DEF Unit
  <2>4. units'[h] = left
    <3> HIDE DEF left
    <3>1. units' = [units EXCEPT ![h] = left]
      BY <1>5 DEF Converge, left
    <3> QED
      BY <3>1 DEF PairInv, HostTypes
  <2> HIDE DEF file, started, written, left
  <2> QED
    BY <1>2, <1>3, <1>4, <2>1, <2>3, <2>4 DEF RunsFile
<1>6. CASE ConvergeFails(h)
  <2>1. units'[h].runs = units[h].runs
    <3>1. units' = units \/ units' = [units EXCEPT ![h] = written]
      BY <1>6 DEF ConvergeFails, PairInv, HostTypes
    <3> HIDE DEF written
    <3> QED
      BY <1>3, <3>1 DEF PairInv, HostTypes
  <2> QED
    BY <1>4, <2>1 DEF RunsFile
<1> QED
  BY <1>5, <1>6

\* Only the host that converges changes.
LEMMA ConvergeOneHost ==
    ASSUME PairInv, NEW h \in Hosts, Converge(h) \/ ConvergeFails(h)
    PROVE  \A g \in Hosts \ {h} : units'[g] = units[g]
BY DEF PairInv, HostTypes, Converge, ConvergeFails

\* The steps of setup that install, and undo, the units.
LEMMA RunsInstalls ==
    ASSUME PerHost = 1, PairInv, RunsInv, ~MayFail("uninstallFails"), NEW p \in Commands,
           Install_(p) \/ InstallFails(p) \/ UndoUnits(p) \/ UninstallUnits(p)
    PROVE  RunsInv'
<1> DEFINE h == p[1]
<1>0. /\ h \in Hosts /\ UNCHANGED died
      /\ alertsCfg[h] \in AlertsFile /\ units[h] \in Unit
  BY HostOf DEF PairInv, HostTypes, Install_, InstallFails, UndoUnits, UninstallUnits
<1>1. /\ \A g \in Hosts \ {h} : units'[g] = units[g]
      /\ \A g \in Hosts : alertsCfg'[g].id = alertsCfg[g].id
  <2>1. CASE Converge(h) \/ ConvergeFails(h)
    BY <1>0, <2>1, ConvergeKeepsIds, ConvergeOneHost
  <2>2. CASE UNCHANGED alertsCfg /\ \A g \in Hosts \ {h} : units'[g] = units[g]
    BY <2>2
  <2>3. \/ Converge(h) \/ ConvergeFails(h)
        \/ UNCHANGED alertsCfg /\ \A g \in Hosts \ {h} : units'[g] = units[g]
    BY DEF Install_, InstallFails, UndoUnits, UninstallUnits, PairInv, HostTypes
  <2> QED
    BY <2>1, <2>2, <2>3
<1>2. CASE \E s \in Changing : Step(p, s)
  BY <1>0, <1>1, <1>2, StepGoes, RunsMoves DEF Changing, Ending
<1>3. CASE In(p, "restart") /\ Install_(p)
  <2>1. Over(p) /\ units' = [units EXCEPT ![h] = Restarted(h)] /\ UNCHANGED alertsCfg
    BY <1>3 DEF Install_, In
  <2>2. Restarted(h).runs \in {NoId, alertsCfg[h].id}
    BY <1>0, StartsRuns DEF Restarted
  <2>3. RunsFile(h)'
    BY <1>0, <2>1, <2>2 DEF RunsFile, PairInv, HostTypes
  <2> QED
    BY <1>0, <1>1, <2>1, <2>3, OverGoes, RunsMoves DEF Ending
<1>4. CASE UndoUnits(p) \/ UninstallUnits(p)
  <2>1. units' = [units EXCEPT ![h] = NoUnit] /\ (Step(p, "undoPairing") \/ Step(p, "remove"))
    BY <1>4 DEF UndoUnits, UninstallUnits, Uninstalled
  <2>2. NoDaemon(h)' /\ RunsFile(h)'
    BY <1>0, <2>1 DEF NoDaemon, RunsFile, NoUnit, PairInv, HostTypes
  <2> QED
    BY <1>0, <1>1, <2>1, <2>2, StepGoes, RunsMoves
<1> QED
  BY <1>2, <1>3, <1>4 DEF Install_, InstallFails, Changing

\* The steps that write the file, or have the daemon read it.
LEMMA RunsFiles ==
    ASSUME PerHost = 1, PairInv, KeptInv, RunsInv, NEW p \in Commands,
           \/ Save(p) \/ Forget(p) \/ SetSave(p) \/ SetConverge(p) \/ SetReload(p)
    PROVE  RunsInv'
<1> DEFINE h == p[1]
<1>0. /\ h \in Hosts /\ UNCHANGED died /\ cmd[p].file \in AlertsFile
      /\ alertsCfg[h] \in AlertsFile /\ units[h] \in Unit
  BY HostOf DEF PairInv, HostTypes, CommandTypes, Command, Save, Forget, SetSave,
                SetConverge, SetReload
<1>1. Saved(h, cmd[p].file).id = cmd[p].file.id
  BY <1>0 DEF Saved, AlertsFile
<1>2. CASE Save(p)
  <2>1. /\ Goes(p, "converge", cmd[p].file.id) /\ UNCHANGED units
        /\ alertsCfg' = [alertsCfg EXCEPT ![h] = Saved(h, cmd[p].file)]
    BY <1>2, StepGoes DEF Save
  <2>2. \A g \in Hosts \ {h} : alertsCfg'[g] = alertsCfg[g]
    BY <2>1 DEF PairInv, HostTypes
  <2> QED
    BY <1>0, <2>1, <2>2, RunsMoves DEF Changing, Ending
<1>3. CASE Forget(p)
  <2>1. /\ Goes(p, "idle", NoId) /\ UNCHANGED units
        /\ alertsCfg' = [alertsCfg EXCEPT ![h] = NoFile_]
    BY <1>3, OverGoes DEF Forget
  <2>2. /\ \A g \in Hosts \ {h} : alertsCfg'[g] = alertsCfg[g]
    BY <2>1 DEF PairInv, HostTypes
  <2>3. NoDaemon(h)
    BY <1>3 DEF Forget, In, Ending, RunsInv
  <2>4. RunsFile(h)'
    BY <2>1, <2>3 DEF NoDaemon, RunsFile
  <2> QED
    BY <1>0, <2>1, <2>2, <2>4, RunsMoves DEF Ending
<1>4. CASE SetSave(p)
  <2>1. \A g \in Hosts : alertsCfg'[g].id = alertsCfg[g].id
    BY <1>0, <1>1, <1>4 DEF SetSave, In, Working, KeptInv, PairInv, HostTypes
  <2>2. /\ UNCHANGED units /\ cmd[p].step \notin Changing
        /\ Step(p, "setConverge") \/ Over(p)
    BY <1>4 DEF SetSave, In, Changing
  <2> QED
    BY <1>0, <2>1, <2>2, StepGoes, OverGoes, RunsGoesOn DEF Ending
\* The command stood where the daemon runs with the file.
<1>5. h \notin died /\ cmd[p].step \notin Changing => RunsFile(h)
  BY DEF RunsInv
<1>6. CASE SetConverge(p)
  <2>1. cmd[p].step \notin Changing /\ Goes(p, "setReload", cmd[p].file.id)
    BY <1>6, StepGoes DEF SetConverge, In, Changing
  <2>2. CASE UNCHANGED <<alertsCfg, units>>
    BY <1>0, <2>1, <2>2, RunsGoesOn DEF Ending
  <2>3. CASE Converge(h) \/ ConvergeFails(h)
    BY <1>0, <1>5, <2>1, <2>3, ConvergeRuns, ConvergeKeepsIds, ConvergeOneHost, RunsMoves
       DEF Ending
  <2> QED
    BY <1>6, <2>2, <2>3 DEF SetConverge
<1>7. CASE SetReload(p)
  <2> DEFINE u == units[h]
             new == IF u.runs = NoId \/ ~Paired(alertsCfg[h]) THEN u
                    ELSE IF u.file = "root" \/ alertsCfg[h].readable
                    THEN [u EXCEPT !.runs = alertsCfg[h].id] ELSE u
  <2>1. /\ units' = [units EXCEPT ![h] = new] /\ UNCHANGED alertsCfg
        /\ cmd[p].step \notin Changing /\ Goes(p, "idle", NoId)
    BY <1>7, OverGoes DEF SetReload, In, Changing
  <2>2. new.runs \in {u.runs, alertsCfg[h].id}
    BY <1>0 DEF Unit
  <2> HIDE DEF new
  <2>3. units'[h] = new /\ \A g \in Hosts \ {h} : units'[g] = units[g]
    BY <1>0, <2>1 DEF PairInv, HostTypes
  <2>4. h \notin died' => RunsFile(h)'
    BY <1>0, <1>5, <2>1, <2>2, <2>3 DEF RunsFile
  <2> QED
    BY <1>0, <2>1, <2>3, <2>4, RunsMoves DEF Ending
<1> QED
  BY <1>2, <1>3, <1>4, <1>6, <1>7

LEMMA PairingNextRuns ==
    ASSUME PerHost = 1, PairInv, KeptInv, RunsInv, ~MayFail("uninstallFails"),
           [PairingNext]_pairVars
    PROVE  RunsInv'
<1>1. CASE UNCHANGED <<units, alertsCfg, died, cmd>>
  BY <1>1 DEF RunsInv, RunsFile, NoDaemon
<1>2. CASE \/ Write("start", NoName) \/ CmdStart \/ CmdUnpair \/ RelayRestarts
           \/ \E n \in Names : Write("unpair", n)
           \/ \E c \in Codes : CodeExpires(c)
           \/ UNCHANGED pairVars
  <2>1. UNCHANGED <<units, alertsCfg, died, cmd>>
    BY <1>2 DEF Write, CmdStart, CmdUnpair, RelayRestarts, CodeExpires, pairVars,
                relayVars, hostVars
  <2> QED
    BY <1>1, <2>1
<1>3. ASSUME NEW h \in Hosts, DaemonRestarts(h) PROVE RunsInv'
  <2> DEFINE new == Starts(h, alertsCfg[h], units[h])
  <2>1. /\ alertsCfg[h] \in AlertsFile /\ units[h] \in Unit
        /\ units' = [units EXCEPT ![h] = new] /\ UNCHANGED <<alertsCfg, died, cmd>>
        /\ units[h].enabled
    BY <1>3 DEF PairInv, HostTypes, DaemonRestarts, Running
  <2>2. new.runs \in {NoId, alertsCfg[h].id}
    BY <2>1, StartsRuns
  <2> HIDE DEF new
  <2>3. RunsFile(h)' /\ \A g \in Hosts \ {h} : units'[g] = units[g]
    BY <2>1, <2>2 DEF RunsFile, PairInv, HostTypes
  <2>4. ASSUME NEW q \in Commands, cmd'[q].step \notin Changing, q[1] \notin died'
        PROVE  RunsFile(q[1])'
    BY <2>1, <2>3, <2>4, HostOf DEF RunsInv, RunsFile
  <2>5. ASSUME NEW q \in Commands, cmd'[q].step \in Ending
        PROVE  NoDaemon(q[1])'
    BY <2>1, <2>3, <2>5, HostOf DEF RunsInv, NoDaemon
  <2> QED
    BY <2>4, <2>5 DEF RunsInv
<1>4. ASSUME NEW p \in Commands,
             \/ BeginSetup(p) \/ SelectCode(p) \/ ConsumeCode(p) \/ CreateNode(p)
             \/ KeepThresholds(p) \/ PairingLost(p) \/ Save(p) \/ Install_(p)
             \/ InstallFails(p) \/ UndoUnits(p) \/ UndoPairing(p) \/ Forget(p)
             \/ BeginSet(p) \/ SetSave(p) \/ SetConverge(p) \/ SetReload(p)
             \/ BeginUnpair(p) \/ TellRelay(p) \/ UninstallUnits(p)
             \/ CommandDies(p)
      PROVE  RunsInv'
  BY <1>4, RunsWithoutUnits, RunsInstalls, RunsFiles
<1> QED
  BY <1>2, <1>3, <1>4 DEF PairingNext

(***************************************************************************)
(* Between commands a daemon can read the file of its host and reports     *)
(* with the credentials in it, after every setup, set and unpair that      *)
(* ended by itself, whether it did its work or not (InstallUnit restarts   *)
(* what already ran, and runUnpair removes the file only once the daemon   *)
(* is gone).                                                               *)
(***************************************************************************)
THEOREM DaemonsKeepUp ==
    ASSUME PerHost = 1, \A faults \in PairFaultSets : "uninstallFails" \notin faults
    PROVE  PairingSpec => []DaemonKeepsUp
<1> DEFINE Inv == KeptInv /\ ReadInv /\ RunsInv /\ pairFaults \in PairFaultSets
<1>1. PairingInit => Inv
  <2>1. PairingInit => KeptInv
    BY DEF PairingInit, KeptInv, KnownIsKept, IdleCommand, Working, Dropping, NoFile_
  <2>2. PairingInit => ReadInv
    BY DEF PairingInit, ReadInv, NoUnit
  <2>3. PairingInit => RunsInv
    BY HostOf DEF PairingInit, RunsInv, RunsFile, IdleCommand, Ending, NoFile_, NoUnit
  <2> QED
    BY <2>1, <2>2, <2>3 DEF PairingInit
<1>2. PairInv /\ Inv /\ [PairingNext]_pairVars => Inv'
  <2> SUFFICES ASSUME PairInv, Inv, [PairingNext]_pairVars
               PROVE  Inv'
    OBVIOUS
  <2>1. pairFaults' = pairFaults
    BY DEF PairingNext, pairVars
  <2>2. ~MayFail("uninstallFails")
    BY DEF MayFail
  <2> QED
    BY <2>1, <2>2, PairingNextKept, PairingNextReadInv, PairingNextRuns
<1>3. Inv => DaemonKeepsUp
  <2>1. ASSUME RunsInv, NEW h \in Hosts \ died, AtRest(h)
        PROVE  units[h].runs \in {NoId, alertsCfg[h].id}
    <3>1. <<h, 1>> \in Commands /\ <<h, 1>>[1] = h
      BY DEF Commands
    <3>2. cmd[<<h, 1>>].step = "idle"
      BY <2>1, <3>1 DEF AtRest, In
    <3> QED
      BY <2>1, <3>1, <3>2 DEF RunsInv, RunsFile, Changing
  <2>2. ReadInv => DaemonCanRead
    BY DEF ReadInv, DaemonCanRead
  <2> QED
    BY <2>1, <2>2 DEF DaemonKeepsUp, DaemonRunsConfig
<1> QED
  BY <1>1, <1>2, <1>3, Pairing, PTL DEF PairingSpec
=============================================================================
