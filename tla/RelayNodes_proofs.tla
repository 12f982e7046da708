-------------------------- MODULE RelayNodes_proofs --------------------------
(***************************************************************************)
(* What the relay's node row guarantees for every number of overlapping    *)
(* requests, every interval and under every fault.                         *)
(***************************************************************************)
EXTENDS RelayNodes, TLAPS

(***************************************************************************)
(* Wherever a goroutine holds the flag in its copy, or is past the point   *)
(* where it may set it, node_silent has been told.                         *)
(***************************************************************************)
ProcInv(p) ==
    /\ proc[p].node.silent => told
    /\ p \in Requests /\ proc[p].pc \in {"lookup", "send", "record", "undo"} => told
    /\ p = "ticker" => /\ proc[p].pc \in {"idle", "lookup", "send", "record", "mark"}
                       /\ proc[p].pc \in {"record", "mark"} => told
    /\ p = "poller" => proc[p].pc \in {"idle", "clear"}

FlagInv ==
    /\ row.silent => told
    /\ sent.state = "firing" => told
    /\ \A p \in Procs : ProcInv(p)

NodesInv == TypeOK /\ FlagInv

-----------------------------------------------------------------------------
LEMMA Distinct ==
    /\ "ticker" \in Procs /\ "poller" \in Procs
    /\ \A s \in Requests : s \in Procs /\ s # "ticker" /\ s # "poller"
BY NodesAssumption DEF Procs

LEMMA IdleType == NewRow \in Row /\ IdleProc \in ProcState
BY NodesAssumption DEF NewRow, IdleProc, Row, ProcState, PCs

LEMMA InitInv == Init => NodesInv
<1> SUFFICES ASSUME Init PROVE NodesInv
  OBVIOUS
<1>1. TypeOK
  <2>1. Reminder \in 0 .. Reminder
    BY NodesAssumption
  <2>2. sent \in [state : {"", "firing", "ok"}, age : 0 .. Reminder]
    BY <2>1 DEF Init
  <2>3. QED
    BY <2>2, IdleType DEF Init, TypeOK
<1>2. FlagInv
  BY DEF Init, FlagInv, ProcInv, NewRow, IdleProc
<1>3. QED
  BY <1>1, <1>2 DEF NodesInv

LEMMA OlderType ==
    ASSUME NEW cap \in Nat, NEW n \in 0 .. cap
    PROVE  Older(n, cap) \in 0 .. cap
BY DEF Older

\* The row may only change into a row, last_sent into a record, and one
\* goroutine at a time moves.
LEMMA OneMoves ==
    ASSUME NodesInv, NEW p \in Procs,
           row' \in Row, row'.silent => told',
           sent' \in [state : {"", "firing", "ok"}, age : 0 .. Reminder],
           sent'.state = "firing" => told',
           NEW q \in ProcState, proc' = [proc EXCEPT ![p] = q], ProcInv(p)',
           up' \in BOOLEAN, chatBlocks' \in BOOLEAN,
           word' \in {"", "firing", "ok"}, told' \in BOOLEAN, told => told'
    PROVE  NodesInv'
<1>1. TypeOK'
  BY DEF NodesInv, TypeOK
<1>2. \A r \in Procs : ProcInv(r)'
  <2>1. ASSUME NEW r \in Procs, r # p PROVE ProcInv(r)'
    <3>1. proc'[r] = proc[r]
      BY <2>1 DEF NodesInv, TypeOK
    <3>2. QED
      BY <3>1 DEF NodesInv, FlagInv, ProcInv
  <2>2. QED
    BY <2>1
<1>3. QED
  BY <1>1, <1>2 DEF NodesInv, FlagInv

\* A goroutine that only moves its program counter.
LEMMA OnlyGoes ==
    ASSUME NodesInv, NEW p \in Procs, NEW pc \in PCs, Goto(p, pc),
           UNCHANGED <<row, up, chatBlocks>>,
           sent' \in [state : {"", "firing", "ok"}, age : 0 .. Reminder],
           sent'.state = "firing" => told',
           word' \in {"", "firing", "ok"}, told' \in BOOLEAN, told => told',
           p \in Requests /\ pc \in {"lookup", "send", "record", "undo"} => told',
           p = "ticker" => /\ pc \in {"idle", "lookup", "send", "record", "mark"}
                           /\ pc \in {"record", "mark"} => told',
           p = "poller" => pc \in {"idle", "clear"}
    PROVE  NodesInv'
<1> DEFINE q == [proc[p] EXCEPT !.pc = pc]
<1>1. proc[p] \in ProcState
  BY DEF NodesInv, TypeOK
<1>2. q \in ProcState /\ q.pc = pc /\ q.node = proc[p].node
  BY <1>1 DEF ProcState
<1>3. proc' = [proc EXCEPT ![p] = q] /\ proc'[p] = q
  BY <1>1 DEF Goto, NodesInv, TypeOK
<1>4. ProcInv(p)'
  BY <1>2, <1>3 DEF ProcInv, NodesInv, FlagInv
<1>5. row' \in Row /\ up' \in BOOLEAN /\ chatBlocks' \in BOOLEAN /\ (row'.silent => told')
  BY DEF NodesInv, TypeOK, FlagInv
<1> HIDE DEF q
<1>6. QED
  BY <1>2, <1>3, <1>4, <1>5, OneMoves

\* A goroutine that finishes, having written at most a row it may write.
LEMMA Finishes ==
    ASSUME NodesInv, NEW p \in Procs, Done(p), row' \in Row, row'.silent => told,
           UNCHANGED <<sent, up, chatBlocks, word, told>>
    PROVE  NodesInv'
<1>1. proc'[p] = IdleProc
  BY DEF Done, NodesInv, TypeOK
<1>2. ProcInv(p)'
  BY <1>1 DEF ProcInv, IdleProc, NewRow
<1>3. QED
  BY <1>2, IdleType, OneMoves DEF Done, NodesInv, TypeOK, FlagInv

-----------------------------------------------------------------------------
LEMMA BeginStep ==
    ASSUME NodesInv, NEW p \in Procs, NEW pc \in PCs, Begin(p, pc),
           \/ p \in Requests /\ pc = "touch"
           \/ p = "ticker" /\ pc = "lookup"
           \/ p = "poller" /\ pc = "clear"
    PROVE  NodesInv'
<1> DEFINE q == [IdleProc EXCEPT !.pc = pc, !.node = row]
<1>1. q \in ProcState /\ q.pc = pc /\ q.node = row
  BY IdleType DEF ProcState, NodesInv, TypeOK, IdleProc
<1>2. proc' = [proc EXCEPT ![p] = q] /\ proc'[p] = q
  BY DEF Begin, NodesInv, TypeOK
<1> HIDE DEF q
<1>3. ProcInv(p)'
  BY <1>1, <1>2, Distinct DEF ProcInv, NodesInv, FlagInv, Begin
<1>4. QED
  BY <1>1, <1>2, <1>3, OneMoves DEF Begin, NodesInv, TypeOK, FlagInv

LEMMA TouchStep ==
    ASSUME NodesInv, NEW s \in Requests, Touch(s)
    PROVE  NodesInv'
<1> DEFINE seen == [proc[s].node EXCEPT !.seen = 0, !.silent = FALSE]
           pc == IF proc[s].node.silent THEN "lookup" ELSE "handle"
           q == [proc[s] EXCEPT !.node = seen, !.pc = pc]
<1>1. proc[s] \in ProcState
  BY Distinct DEF NodesInv, TypeOK
<1>2. seen \in Row /\ ~seen.silent
  <2>1. 0 \in 0 .. Quiet
    BY NodesAssumption
  <2>2. proc[s].node \in Row
    BY <1>1 DEF ProcState
  <2>3. QED
    BY <2>1, <2>2 DEF Row
<1>3. q \in ProcState /\ q.pc = pc /\ q.node = seen
  BY <1>1, <1>2 DEF ProcState, PCs
<1>4. proc' = [proc EXCEPT ![s] = q] /\ proc'[s] = q /\ row' = seen
  BY <1>1, Distinct DEF Touch, NodesInv, TypeOK
<1>5. proc[s].node.silent => told
  BY Distinct DEF NodesInv, FlagInv, ProcInv
<1>6. ProcInv(s)'
  <2>1. told' = told
    BY DEF Touch
  <2>2. q.pc = "lookup" => told
    BY <1>3, <1>5
  <2>3. q.pc \in {"lookup", "handle"} /\ ~q.node.silent
    BY <1>2, <1>3
  <2> HIDE DEF q
  <2>4. QED
    BY <1>4, <2>1, <2>2, <2>3, Distinct DEF ProcInv
<1> HIDE DEF q, seen
<1>7. QED
  BY <1>2, <1>3, <1>4, <1>6, Distinct, OneMoves DEF Touch, NodesInv, TypeOK, FlagInv

\* Where deliver's callers go next.
LEMMA AfterFacts ==
    ASSUME NEW p \in Procs, NEW ok \in BOOLEAN
    PROVE  /\ After(p, ok) \in PCs
           /\ p = "ticker" => After(p, ok) \in {"idle", "mark"}
           /\ p = "ticker" /\ ~ok => After(p, ok) = "idle"
BY DEF After, PCs

LEMMA DeliverStep ==
    ASSUME NodesInv, NEW p \in Procs, p # "poller", Deliver(p)
    PROVE  NodesInv'
<1>0. /\ TypeOK /\ ProcInv(p)
      /\ p \in Requests \/ p = "ticker"
      /\ proc[p] \in ProcState
      /\ sent.state = "firing" => told
  BY DEF NodesInv, TypeOK, FlagInv, Procs
<1>1. {"send", "record"} \subseteq PCs
  BY DEF PCs
<1>2. CASE Lookup(p)
  <2>1. PICK pc \in {After(p, TRUE), "send"} :
            /\ Goto(p, pc)
            /\ pc = After(p, TRUE) \/ (pc = "send" /\ ~Suppressed(p))
            /\ pc # "send" => Suppressed(p)
    BY <1>2, Zenon DEF Lookup
  <2>2. p \in Requests => told
    BY <1>0, <1>2 DEF Lookup, ProcInv
  <2>3. p = "ticker" /\ Suppressed(p) => told
    BY <1>0 DEF Suppressed, State
  <2>4. QED
    BY <1>0, <1>1, <1>2, <2>1, <2>2, <2>3, AfterFacts, Distinct, OnlyGoes
    DEF Lookup, TypeOK
<1>3. CASE LookupFails(p) \/ SendFails(p) \/ RecordFails(p)
  <2>1. Goto(p, After(p, FALSE)) /\ (p \in Requests => told)
    BY <1>0, <1>3 DEF LookupFails, SendFails, RecordFails, ProcInv
  <2>2. UNCHANGED <<row, sent, up, chatBlocks, word, told>>
    BY <1>3 DEF LookupFails, SendFails, RecordFails
  <2>3. QED
    BY <1>0, <2>1, <2>2, AfterFacts, Distinct, OnlyGoes DEF TypeOK
<1>4. CASE Send(p) \/ SendUnsure(p)
  <2>1. \/ Goto(p, "record")
        \/ Goto(p, After(p, FALSE))
    BY <1>4 DEF Send, SendUnsure
  <2>2. /\ told' \in BOOLEAN /\ (told => told')
        /\ p = "ticker" => told'
        /\ p \in Requests => told
        /\ word' \in {"", "firing", "ok"}
    BY <1>0, <1>4 DEF Send, SendUnsure, Tell, State, TypeOK, ProcInv
  <2>3. UNCHANGED <<row, sent, up, chatBlocks>>
    BY <1>4 DEF Send, SendUnsure
  <2>4. QED
    BY <1>0, <1>1, <2>1, <2>2, <2>3, AfterFacts, Distinct, OnlyGoes DEF TypeOK
<1>5. CASE SendBlocked(p)
  <2> DEFINE pc == After(p, FALSE)
             q == [proc[p] EXCEPT !.pc = pc]
  <2>1. row' = [proc[p].node EXCEPT !.blocked = TRUE]
    BY <1>5 DEF SendBlocked
  <2>2. row' \in Row /\ (row'.silent => told)
    BY <1>0, <2>1 DEF ProcState, Row, ProcInv
  <2>3. pc \in PCs
    BY AfterFacts
  <2>4. q \in ProcState /\ q.pc = pc /\ q.node = proc[p].node
    BY <1>0, <2>3 DEF ProcState
  <2>5. proc' = [proc EXCEPT ![p] = q] /\ proc'[p] = q
    BY <1>0, <1>5 DEF SendBlocked, Goto, TypeOK
  <2>6. p \in Requests => told
    BY <1>0, <1>5 DEF SendBlocked, ProcInv
  <2>7. UNCHANGED <<sent, up, chatBlocks, word, told>>
    BY <1>5 DEF SendBlocked
  <2>8. ProcInv(p)'
    BY <1>0, <2>4, <2>5, <2>6, <2>7, AfterFacts DEF ProcInv
  <2> HIDE DEF q, pc
  <2>9. QED
    BY <1>0, <2>2, <2>4, <2>5, <2>7, <2>8, OneMoves DEF TypeOK
<1>6. CASE Record(p)
  <2>1. p \in Requests \/ p = "ticker" => told
    BY <1>0, <1>6 DEF Record, ProcInv
  <2>2. sent' \in [state : {"", "firing", "ok"}, age : 0 .. Reminder]
    BY <1>0, <1>6 DEF Record, ProcState, State
  <2>3. Goto(p, After(p, TRUE)) /\ UNCHANGED <<row, up, chatBlocks, word, told>>
    BY <1>6 DEF Record
  <2>4. QED
    BY <1>0, <2>1, <2>2, <2>3, AfterFacts, Distinct, OnlyGoes DEF TypeOK
<1>7. QED
  BY <1>2, <1>3, <1>4, <1>5, <1>6 DEF Deliver

-----------------------------------------------------------------------------
\* A copy with its flags changed is a row.
LEMMA CopyType ==
    ASSUME NodesInv, NEW p \in Procs
    PROVE  /\ proc[p] \in ProcState /\ proc[p].node \in Row
           /\ proc[p].node.silent => told
           /\ \A b \in BOOLEAN : /\ [proc[p].node EXCEPT !.silent = b] \in Row
                                 /\ [proc[p].node EXCEPT !.blocked = b] \in Row
BY DEF NodesInv, TypeOK, FlagInv, ProcInv, ProcState, Row

LEMMA UndoStep ==
    ASSUME NodesInv, NEW s \in Requests, Undo(s)
    PROVE  NodesInv'
<1> DEFINE n == [proc[s].node EXCEPT !.silent = TRUE]
           q == [proc[s] EXCEPT !.node = n, !.pc = "handle"]
<1>1. proc[s] \in ProcState /\ n \in Row
  BY CopyType, Distinct
<1>2. told
  BY Distinct DEF Undo, NodesInv, FlagInv, ProcInv
<1>3. q \in ProcState /\ q.pc = "handle"
  BY <1>1 DEF ProcState, PCs
<1>4. proc' = [proc EXCEPT ![s] = q] /\ proc'[s] = q
  BY <1>1, Distinct DEF Undo, NodesInv, TypeOK
<1>5. row' \in Row
  BY <1>1 DEF Undo, NodesInv, TypeOK
<1>6. UNCHANGED <<sent, up, chatBlocks, word, told>>
  BY DEF Undo
<1>7. ProcInv(s)'
  BY <1>2, <1>3, <1>4, <1>6, Distinct DEF ProcInv
<1> HIDE DEF q
<1>8. QED
  BY <1>2, <1>3, <1>4, <1>5, <1>6, <1>7, Distinct, OneMoves DEF NodesInv, TypeOK

LEMMA HandleStep ==
    ASSUME NodesInv, NEW s \in Requests, HandleHeartbeat(s) \/ HandleAlert(s)
    PROVE  NodesInv'
<1>1. row' \in {row, proc[s].node, [proc[s].node EXCEPT !.blocked = TRUE]}
  BY DEF HandleHeartbeat, HandleAlert
<1>2. row' \in Row /\ (row'.silent => told)
  <2>1. proc[s].node \in Row /\ (proc[s].node.silent => told)
    BY CopyType, Distinct
  <2>2. /\ [proc[s].node EXCEPT !.blocked = TRUE] \in Row
        /\ [proc[s].node EXCEPT !.blocked = TRUE].silent = proc[s].node.silent
    BY <2>1 DEF Row
  <2>3. row \in Row /\ (row.silent => told)
    BY DEF NodesInv, TypeOK, FlagInv
  <2>4. QED
    BY <1>1, <2>1, <2>2, <2>3
<1>3. QED
  BY <1>2, Distinct, Finishes DEF HandleHeartbeat, HandleAlert

LEMMA MarkStep == NodesInv /\ (Mark \/ Clear) => NodesInv'
<1> SUFFICES ASSUME NodesInv, Mark \/ Clear PROVE NodesInv'
  OBVIOUS
<1>1. CASE Mark
  <2>1. told
    BY <1>1, Distinct DEF Mark, NodesInv, FlagInv, ProcInv
  <2>2. row' \in Row
    BY <1>1, CopyType, Distinct DEF Mark, NodesInv, TypeOK
  <2>3. QED
    BY <1>1, <2>1, <2>2, Distinct, Finishes DEF Mark
<1>2. CASE Clear
  <2>1. row' \in {row, [proc["poller"].node EXCEPT !.blocked = FALSE]}
    BY <1>2 DEF Clear
  <2>2. row' \in Row /\ (row'.silent => told)
    BY <2>1, CopyType, Distinct DEF NodesInv, TypeOK, FlagInv, Row
  <2>3. QED
    BY <1>2, <2>2, Distinct, Finishes DEF Clear
<1>3. QED
  BY <1>1, <1>2

LEMMA DisconnectStep ==
    ASSUME NodesInv, NEW s \in Requests, Disconnect(s)
    PROVE  NodesInv'
<1> DEFINE q == [proc[s] EXCEPT !.live = FALSE]
<1>1. proc[s] \in ProcState
  BY CopyType, Distinct
<1>2. q \in ProcState /\ q.pc = proc[s].pc /\ q.node = proc[s].node
  BY <1>1 DEF ProcState
<1>3. proc' = [proc EXCEPT ![s] = q] /\ proc'[s] = q
  BY <1>1, Distinct DEF Disconnect, NodesInv, TypeOK
<1>4. UNCHANGED <<row, sent, up, chatBlocks, word, told>>
  BY DEF Disconnect
<1>5. ProcInv(s)'
  BY <1>2, <1>3, <1>4, Distinct DEF ProcInv, NodesInv, FlagInv
<1> HIDE DEF q
<1>6. QED
  BY <1>2, <1>3, <1>4, <1>5, Distinct, OneMoves DEF NodesInv, TypeOK, FlagInv

LEMMA TickStep == NodesInv /\ Tick => NodesInv'
<1> SUFFICES ASSUME NodesInv, Tick PROVE NodesInv'
  OBVIOUS
<1>0. Quiet \in Nat /\ Reminder \in Nat
  BY NodesAssumption
<1>1. row' \in Row /\ row'.silent = row.silent
  <2>1. row \in Row /\ row.seen \in 0 .. Quiet
    BY DEF NodesInv, TypeOK, Row
  <2>2. Older(row.seen, Quiet) \in 0 .. Quiet
    BY <1>0, <2>1, OlderType
  <2>3. row' = [row EXCEPT !.seen = Older(row.seen, Quiet)]
    BY DEF Tick
  <2>4. QED
    BY <2>1, <2>2, <2>3 DEF Row
<1>2. /\ sent' \in [state : {"", "firing", "ok"}, age : 0 .. Reminder]
      /\ sent'.state = sent.state
  <2>1. /\ sent \in [state : {"", "firing", "ok"}, age : 0 .. Reminder]
        /\ sent.age \in 0 .. Reminder
    BY DEF NodesInv, TypeOK
  <2>2. Older(sent.age, Reminder) \in 0 .. Reminder
    BY <1>0, <2>1, OlderType
  <2>3. sent' = [sent EXCEPT !.age = Older(sent.age, Reminder)]
    BY DEF Tick
  <2>4. QED
    BY <2>1, <2>2, <2>3
<1>3. ASSUME NEW p \in Procs
      PROVE  /\ proc'[p] \in ProcState
             /\ proc'[p].pc = proc[p].pc
             /\ proc'[p].node.silent = proc[p].node.silent
  <2>1. proc[p] \in ProcState
    BY CopyType
  <2>2. CASE proc[p].pc = "idle"
    BY <2>1, <2>2 DEF Tick
  <2>3. CASE proc[p].pc # "idle"
    <3> DEFINE s == Older(proc[p].node.seen, Quiet)
               a == Older(proc[p].age, Reminder)
               n == [proc[p].node EXCEPT !.seen = s]
    <3>1. proc'[p] = [proc[p] EXCEPT !.node = n, !.age = a]
      BY <2>1, <2>3 DEF Tick, ProcState
    <3>2. proc[p].node \in Row /\ proc[p].age \in 0 .. Reminder
      BY <2>1 DEF ProcState
    <3>3. proc[p].node.seen \in 0 .. Quiet
      BY <3>2 DEF Row
    <3>4. s \in 0 .. Quiet /\ a \in 0 .. Reminder
      BY <1>0, <3>2, <3>3, OlderType
    <3> HIDE DEF s, a
    <3>5. n \in Row /\ n.silent = proc[p].node.silent
      BY <3>2, <3>4 DEF Row
    <3> HIDE DEF n
    <3>6. QED
      BY <2>1, <3>1, <3>4, <3>5 DEF ProcState
  <2>4. QED
    BY <2>2, <2>3
<1>4. proc' \in [Procs -> ProcState]
  BY <1>3 DEF Tick
<1>5. UNCHANGED <<up, chatBlocks, word, told>>
  BY DEF Tick
<1>6. TypeOK'
  BY <1>1, <1>2, <1>4, <1>5 DEF TypeOK, NodesInv
<1>7. \A p \in Procs : ProcInv(p)'
  BY <1>3, <1>5 DEF NodesInv, FlagInv, ProcInv
<1>8. QED
  BY <1>1, <1>2, <1>5, <1>6, <1>7 DEF NodesInv, FlagInv

LEMMA RestartStep == NodesInv /\ Restart => NodesInv'
<1> SUFFICES ASSUME NodesInv, Restart PROVE NodesInv'
  OBVIOUS
<1>1. UNCHANGED <<row, sent, up, chatBlocks, word, told>>
  BY DEF Restart
<1>2. TypeOK'
  BY <1>1, IdleType DEF Restart, NodesInv, TypeOK
<1>3. ASSUME NEW p \in Procs PROVE ProcInv(p)'
  <2>1. proc'[p].pc = "idle" /\ ~proc'[p].node.silent
    BY DEF Restart, IdleProc, NewRow
  <2>2. QED
    BY <2>1 DEF ProcInv
<1>4. QED
  BY <1>1, <1>2, <1>3 DEF NodesInv, FlagInv

LEMMA NodesStep == NodesInv /\ [Next]_vars => NodesInv'
<1> SUFFICES ASSUME NodesInv, [Next]_vars PROVE NodesInv'
  OBVIOUS
<1>1. ASSUME NEW s \in Requests, Get(s) PROVE NodesInv'
  BY <1>1, Distinct, BeginStep DEF Get, PCs
<1>2. ASSUME NEW s \in Requests, Serve(s) PROVE NodesInv'
  <2>1. CASE TouchFails(s)
    BY <2>1, Distinct, Finishes DEF TouchFails, NodesInv, TypeOK, FlagInv
  <2>2. QED
    BY <1>2, <2>1, Distinct, TouchStep, DeliverStep, UndoStep, HandleStep DEF Serve
<1>3. ASSUME NEW s \in Requests, Disconnect(s) PROVE NodesInv'
  BY <1>3, DisconnectStep
<1>4. CASE Candidate
  BY <1>4, Distinct, BeginStep DEF Candidate, PCs
<1>5. CASE Deliver("ticker")
  BY <1>5, Distinct, DeliverStep
<1>6. CASE Command
  BY <1>6, Distinct, BeginStep DEF Command, PCs
<1>7. CASE Mark \/ Clear
  BY <1>7, MarkStep
<1>8. CASE Restart
  BY <1>8, RestartStep
<1>9. CASE NodeChanges \/ ChatChanges \/ UNCHANGED vars
  BY <1>9 DEF NodeChanges, ChatChanges, vars, NodesInv, TypeOK, FlagInv, ProcInv
<1>10. CASE Tick
  BY <1>10, TickStep
<1>11. QED
  BY <1>1, <1>2, <1>3, <1>4, <1>5, <1>6, <1>7, <1>8, <1>9, <1>10 DEF Next

(***************************************************************************)
(* The row, its copies and last_sent agree that a flagged node was told.   *)
(***************************************************************************)
THEOREM Nodes == Spec => []NodesInv
<1>1. QED
  BY InitInv, NodesStep, PTL DEF Spec

(***************************************************************************)
(* Every reachable state of the node row and its goroutines is well-typed. *)
(***************************************************************************)
THEOREM NodeTypes == Spec => []TypeOK
<1>1. NodesInv => TypeOK
  BY DEF NodesInv
<1>2. QED
  BY <1>1, Nodes, PTL

(***************************************************************************)
(* CheckSilent flags only what it told, and no stale copy written back by  *)
(* a request or a command invents the flag.                                *)
(***************************************************************************)
THEOREM FlaggedNodesWereTold == Spec => []SilentWasTold
<1>1. NodesInv => SilentWasTold
  BY DEF NodesInv, FlagInv, SilentWasTold
<1>2. QED
  BY <1>1, Nodes, PTL

-----------------------------------------------------------------------------
(***************************************************************************)
(* One operation on the row at a time, over a store that writes and a chat *)
(* whose answers arrive: the flag and the chat then never disagree between *)
(* two operations.  What it takes is that last_sent, too, is what the chat *)
(* heard, that a copy is as fresh as the row when it is written back, and  *)
(* that a recovery that did not go through leaves word = "firing" behind,  *)
(* which Undo puts back into the row.                                      *)
(***************************************************************************)
SerialFaults == {"mute", "refuse", "blocks", "storeRead"}

\* What holds while goroutine p is busy.
Task(p) ==
    LET pc == proc[p].pc
        node == proc[p].node
    IN  /\ pc # "idle" /\ node.blocked => row.blocked
        /\ pc \in {"touch", "handle", "clear"} =>
              /\ node.silent = row.silent
              /\ row.silent <=> word = "firing"
        /\ p \in Requests /\ pc \in {"lookup", "send", "record", "undo"} =>
              /\ ~row.silent /\ ~node.silent
              /\ word = "firing" <=> pc # "record"
        /\ p = "ticker" /\ pc \in {"lookup", "send", "record", "mark"} =>
              /\ ~row.silent /\ ~node.silent
              /\ word = "firing" <=> pc \in {"record", "mark"}

OneAtATime == \A p, q \in Procs : proc[p].pc # "idle" /\ proc[q].pc # "idle" => p = q

RememberedIsHeard ==
    (\A p \in Procs : proc[p].pc # "record") => (sent.state = "firing" <=> word = "firing")

SerialInv ==
    /\ OneAtATime
    /\ \A p \in Procs : proc[p].live /\ Task(p)
    /\ RememberedIsHeard
    /\ FlagMatchesWord

LEMMA SerialInit == Init => SerialInv
<1> SUFFICES ASSUME Init PROVE SerialInv
  OBVIOUS
<1>1. \A p \in Procs : proc[p].pc = "idle" /\ proc[p].live
  BY DEF Init, IdleProc
<1>2. OneAtATime /\ \A p \in Procs : proc[p].live /\ Task(p)
  BY <1>1 DEF OneAtATime, Task
<1>3. RememberedIsHeard /\ FlagMatchesWord
  BY DEF Init, RememberedIsHeard, FlagMatchesWord, NewRow
<1> QED
  BY <1>2, <1>3 DEF SerialInv

\* Goroutine p moves to q while every other is idle.
Moves(p, q) ==
    /\ \A r \in Procs : r # p => proc[r].pc = "idle"
    /\ proc' = [proc EXCEPT ![p] = q]

LEMMA MovesSerially ==
    ASSUME NodesInv, SerialInv, NEW p \in Procs, NEW q \in ProcState, Moves(p, q),
           q.live, Task(p)',
           q.pc # "record" => (sent'.state = "firing" <=> word' = "firing"),
           q.pc = "idle" => (row'.silent <=> word' = "firing")
    PROVE  SerialInv'
<1>1. proc'[p] = q /\ \A r \in Procs : r # p => proc'[r] = proc[r] /\ proc'[r].pc = "idle"
  BY DEF Moves, NodesInv, TypeOK
<1>2. OneAtATime'
  BY <1>1 DEF OneAtATime
<1>3. ASSUME NEW r \in Procs PROVE (proc[r].live /\ Task(r))'
  <2>1. CASE r = p
    BY <1>1, <2>1
  <2>2. CASE r # p
    BY <1>1, <2>2 DEF Task, SerialInv
  <2> QED
    BY <2>1, <2>2
<1>4. RememberedIsHeard'
  BY <1>1 DEF RememberedIsHeard
<1>5. FlagMatchesWord'
  BY <1>1 DEF FlagMatchesWord, AllIdle
<1> QED
  BY <1>2, <1>3, <1>4, <1>5 DEF SerialInv

\* What is known of the one that is busy.
LEMMA Busy ==
    ASSUME NodesInv, SerialInv, NEW p \in Procs, proc[p].pc # "idle"
    PROVE  /\ proc[p] \in ProcState /\ proc[p].node \in Row
           /\ proc[p].live /\ Task(p)
           /\ \A r \in Procs : r # p => proc[r].pc = "idle"
           /\ proc[p].pc # "record" => (sent.state = "firing" <=> word = "firing")
<1>1. \A r \in Procs : r # p => proc[r].pc = "idle"
  BY DEF SerialInv, OneAtATime
<1>2. proc[p].pc # "record" => (sent.state = "firing" <=> word = "firing")
  BY <1>1 DEF SerialInv, RememberedIsHeard
<1> QED
  BY <1>1, <1>2, CopyType DEF SerialInv

\* A goroutine that only moves its program counter.
LEMMA GoesSerially ==
    ASSUME NodesInv, SerialInv, NEW p \in Procs, proc[p].pc # "idle",
           NEW pc \in PCs, Goto(p, pc),
           LET q == [proc[p] EXCEPT !.pc = pc]
           IN  proc' = [proc EXCEPT ![p] = q] => Task(p)',
           pc # "record" => (sent'.state = "firing" <=> word' = "firing"),
           pc = "idle" => (row'.silent <=> word' = "firing")
    PROVE  SerialInv'
<1> DEFINE q == [proc[p] EXCEPT !.pc = pc]
<1>1. proc[p] \in ProcState /\ proc[p].live
  BY Busy
<1>2. q \in ProcState /\ q.pc = pc /\ q.live
  BY <1>1 DEF ProcState
<1>3. proc' = [proc EXCEPT ![p] = q]
  BY DEF Goto
<1>4. Moves(p, q)
  BY <1>3, Busy DEF Moves
<1>5. Task(p)'
  BY <1>3
<1> HIDE DEF q
<1> QED
  BY <1>2, <1>4, <1>5, MovesSerially

LEMMA FinishesSerially ==
    ASSUME NodesInv, SerialInv, NEW p \in Procs, proc[p].pc # "idle", Done(p),
           sent'.state = "firing" <=> word' = "firing",
           row'.silent <=> word' = "firing"
    PROVE  SerialInv'
<1>1. Moves(p, IdleProc)
  BY Busy DEF Done, Moves
<1>2. proc'[p] = IdleProc
  BY DEF Done, NodesInv, TypeOK
<1>3. Task(p)'
  BY <1>2 DEF Task, IdleProc
<1> QED
  BY <1>1, <1>3, IdleType, MovesSerially DEF IdleProc

-----------------------------------------------------------------------------
LEMMA BeginSerially ==
    ASSUME NodesInv, SerialInv, "overlap" \notin Faults,
           NEW p \in Procs, NEW pc \in PCs, Begin(p, pc),
           \/ p \in Requests /\ pc = "touch"
           \/ p = "ticker" /\ pc = "lookup" /\ ~row.silent
           \/ p = "poller" /\ pc = "clear"
    PROVE  SerialInv'
<1> DEFINE q == [IdleProc EXCEPT !.pc = pc, !.node = row]
<1>1. q \in ProcState /\ q.pc = pc /\ q.node = row /\ q.live
  BY IdleType DEF ProcState, NodesInv, TypeOK, IdleProc
<1>2. proc' = [proc EXCEPT ![p] = q] /\ proc'[p] = q
  BY DEF Begin, NodesInv, TypeOK
<1>3. AllIdle
  BY DEF Begin, MayBegin
<1>4. row.silent <=> word = "firing"
  BY <1>3 DEF SerialInv, FlagMatchesWord
<1>5. sent.state = "firing" <=> word = "firing"
  BY <1>3 DEF SerialInv, RememberedIsHeard, AllIdle
<1>6. UNCHANGED <<row, sent, word>>
  BY DEF Begin
<1>7. Moves(p, q)
  BY <1>2, <1>3 DEF Moves, AllIdle
<1>8. pc \notin {"idle", "record"}
  OBVIOUS
<1> HIDE DEF q
<1>9. Task(p)'
  BY <1>1, <1>2, <1>4, <1>6, Distinct DEF Task
<1> QED
  BY <1>1, <1>5, <1>6, <1>7, <1>8, <1>9, MovesSerially

LEMMA TouchSerially ==
    ASSUME NodesInv, SerialInv, NEW s \in Requests, Touch(s)
    PROVE  SerialInv'
<1> DEFINE seen == [proc[s].node EXCEPT !.seen = 0, !.silent = FALSE]
           pc == IF proc[s].node.silent THEN "lookup" ELSE "handle"
           q == [proc[s] EXCEPT !.node = seen, !.pc = pc]
<1>1. /\ s \in Procs /\ proc[s] \in ProcState /\ proc[s].node \in Row
      /\ proc[s].live /\ Task(s) /\ proc[s].pc = "touch"
      /\ sent.state = "firing" <=> word = "firing"
  BY Distinct, Busy DEF Touch
<1>2. seen \in Row /\ ~seen.silent /\ seen.blocked = proc[s].node.blocked
  <2>1. 0 \in 0 .. Quiet
    BY NodesAssumption
  <2> QED
    BY <1>1, <2>1 DEF Row
<1>3. q \in ProcState /\ q.pc = pc /\ q.node = seen /\ q.live
  BY <1>1, <1>2 DEF ProcState, PCs
<1>4. proc' = [proc EXCEPT ![s] = q] /\ proc'[s] = q
  BY <1>1 DEF Touch, NodesInv, TypeOK
<1>5. row' = seen /\ UNCHANGED <<sent, word>>
  BY DEF Touch
<1>6. Moves(s, q)
  BY <1>1, <1>4, Busy DEF Moves
<1>7. proc[s].node.silent <=> word = "firing"
  BY <1>1 DEF Task
<1>8. \/ q.pc = "lookup" /\ word = "firing"
      \/ q.pc = "handle" /\ word # "firing"
  BY <1>3, <1>7
<1> HIDE DEF q, seen
<1>9. Task(s)'
  <2>1. ~row'.silent /\ proc'[s].node = row'
    BY <1>2, <1>3, <1>4, <1>5
  <2> QED
    BY <1>4, <1>5, <1>8, <2>1, Distinct DEF Task
<1>10. q.pc \notin {"idle", "record"}
  BY <1>8
<1> QED
  BY <1>1, <1>3, <1>5, <1>6, <1>9, <1>10, MovesSerially

LEMMA DeliverSerially ==
    ASSUME NodesInv, SerialInv, Faults \subseteq SerialFaults,
           NEW p \in Procs, p # "poller", Deliver(p)
    PROVE  SerialInv'
<1>0. proc[p].pc \in {"lookup", "send", "record"}
  BY DEF Deliver, Lookup, LookupFails, Send, SendFails, SendUnsure, SendBlocked,
         Record, RecordFails
<1>1. /\ proc[p] \in ProcState /\ proc[p].node \in Row /\ proc[p].live /\ Task(p)
      /\ proc[p].pc # "record" => (sent.state = "firing" <=> word = "firing")
      /\ p \in Requests \/ p = "ticker"
  BY <1>0, Busy DEF Procs
<1>2. ~WriteFails(p) /\ "unsure" \notin Faults
  BY <1>1 DEF WriteFails, SerialFaults
<1>3. /\ row.silent = FALSE /\ proc[p].node.silent = FALSE
      /\ p \in Requests => (word = "firing" <=> proc[p].pc # "record")
      /\ p = "ticker" => (word = "firing" <=> proc[p].pc = "record")
      /\ proc[p].node.blocked => row.blocked
  <2>1. row \in Row
    BY DEF NodesInv, TypeOK
  <2>2. row.silent \in BOOLEAN /\ proc[p].node.silent \in BOOLEAN
    BY <1>1, <2>1 DEF Row
  <2> QED
    BY <1>0, <1>1, <2>2, Distinct DEF Task
\* A program counter that fits what the chat heard is as good as any.
<1>4. ASSUME NEW pc \in {"send", "record", "handle", "undo", "mark", "idle"}, Goto(p, pc),
             row'.silent = FALSE, row.blocked => row'.blocked,
             p \in Requests => \/ pc = "send" /\ word' = "firing"
                               \/ pc = "record" /\ word' # "firing"
                               \/ pc = "handle" /\ word' # "firing"
                               \/ pc = "undo" /\ word' = "firing",
             p = "ticker" => \/ pc = "send" /\ word' # "firing"
                             \/ pc = "record" /\ word' = "firing"
                             \/ pc = "mark" /\ word' = "firing"
                             \/ pc = "idle" /\ word' # "firing",
             pc # "record" => (sent'.state = "firing" <=> word' = "firing")
      PROVE  SerialInv'
  <2>1. pc \in PCs
    BY DEF PCs
  <2> DEFINE q == [proc[p] EXCEPT !.pc = pc]
  <2>2. q.pc = pc /\ q.node = proc[p].node
    BY <1>1 DEF ProcState
  <2> HIDE DEF q
  <2>3. ASSUME proc' = [proc EXCEPT ![p] = q] PROVE Task(p)'
    <3>1. proc'[p] = q
      BY <2>3 DEF NodesInv, TypeOK
    <3>2. proc'[p].node.blocked => row'.blocked
      BY <1>3, <1>4, <2>2, <3>1
    <3>3. CASE p \in Requests
      BY <1>3, <1>4, <2>2, <3>1, <3>2, <3>3, Distinct DEF Task
    <3>4. CASE p = "ticker"
      BY <1>3, <1>4, <2>2, <3>1, <3>2, <3>4, Distinct DEF Task
    <3> QED
      BY <1>1, <3>3, <3>4
  <2>4. pc = "idle" => (row'.silent <=> word' = "firing")
    BY <1>1, <1>4, Distinct
  <2> QED
    BY <1>0, <1>4, <2>1, <2>3, <2>4, GoesSerially DEF q
<1>5. CASE Lookup(p)
  <2>1. PICK pc \in {After(p, TRUE), "send"} :
            /\ Goto(p, pc)
            /\ Suppressed(p) => pc = After(p, TRUE)
            /\ ~Suppressed(p) => pc = "send"
    BY <1>5, Zenon DEF Lookup
  <2>2. ~Suppressed(p)
    BY <1>1, <1>3, <1>5, Distinct DEF Lookup, Suppressed, State
  <2>3. UNCHANGED <<row, sent, word>>
    BY <1>5 DEF Lookup
  <2> QED
    BY <1>1, <1>3, <1>4, <1>5, <2>1, <2>2, <2>3, Distinct DEF Lookup
<1>6. CASE LookupFails(p) \/ SendFails(p)
  <2>1. Goto(p, After(p, FALSE)) /\ UNCHANGED <<row, sent, word>> /\ proc[p].pc # "record"
    BY <1>6 DEF LookupFails, SendFails
  <2>2. /\ p \in Requests => After(p, FALSE) = "undo" /\ p # "ticker"
        /\ p = "ticker" => After(p, FALSE) = "idle" /\ p \notin Requests
    BY Distinct DEF After
  <2> QED
    BY <1>1, <1>3, <1>4, <2>1, <2>2
<1>7. CASE Send(p)
  <2>1. /\ word' = State(p) /\ Goto(p, "record")
        /\ UNCHANGED row
    BY <1>7 DEF Send, Tell
  <2>2. /\ p \in Requests => State(p) = "ok" /\ p # "ticker"
        /\ p = "ticker" => State(p) = "firing" /\ p \notin Requests
    BY Distinct DEF State
  <2> QED
    BY <1>1, <1>3, <1>4, <2>1, <2>2
<1>8. CASE SendBlocked(p)
  <2>1. /\ Goto(p, After(p, FALSE)) /\ UNCHANGED <<sent, word>>
        /\ row' = [proc[p].node EXCEPT !.blocked = TRUE] /\ proc[p].pc = "send"
    BY <1>8 DEF SendBlocked
  <2>2. /\ p \in Requests => After(p, FALSE) = "undo" /\ p # "ticker"
        /\ p = "ticker" => After(p, FALSE) = "idle" /\ p \notin Requests
    BY Distinct DEF After
  <2>3. row'.blocked /\ row'.silent = proc[p].node.silent
    BY <1>1, <2>1 DEF Row
  <2> QED
    BY <1>1, <1>3, <1>4, <2>1, <2>2, <2>3
<1>9. CASE Record(p)
  <2>1. /\ Goto(p, After(p, TRUE)) /\ UNCHANGED <<row, word>> /\ proc[p].pc = "record"
        /\ sent'.state = State(p)
    BY <1>9 DEF Record
  <2>2. /\ p \in Requests => After(p, TRUE) = "handle" /\ State(p) = "ok" /\ p # "ticker"
        /\ p = "ticker" => After(p, TRUE) = "mark" /\ State(p) = "firing" /\ p \notin Requests
    BY Distinct DEF After, State
  <2> QED
    BY <1>1, <1>3, <1>4, <2>1, <2>2
<1> QED
  BY <1>2, <1>5, <1>6, <1>7, <1>8, <1>9 DEF Deliver, SendUnsure, RecordFails

LEMMA UndoSerially ==
    ASSUME NodesInv, SerialInv, "storeWrite" \notin Faults, NEW s \in Requests, Undo(s)
    PROVE  SerialInv'
<1> DEFINE n == [proc[s].node EXCEPT !.silent = TRUE]
           q == [proc[s] EXCEPT !.node = n, !.pc = "handle"]
<1>1. /\ s \in Procs /\ proc[s] \in ProcState /\ proc[s].node \in Row
      /\ proc[s].live /\ Task(s) /\ proc[s].pc = "undo"
      /\ sent.state = "firing" <=> word = "firing"
  BY Distinct, Busy DEF Undo
<1>2. n.silent = TRUE /\ n.blocked = proc[s].node.blocked
  BY <1>1 DEF Row
<1>3. n \in Row
  BY <1>1, CopyType
<1>4. q \in ProcState /\ q.pc = "handle" /\ q.node = n /\ q.live
  BY <1>1, <1>3 DEF ProcState, PCs
<1>5. proc' = [proc EXCEPT ![s] = q] /\ proc'[s] = q
  BY <1>1 DEF Undo, NodesInv, TypeOK
<1>6. row' = n /\ UNCHANGED <<sent, word>>
  BY <1>1 DEF Undo, WriteFails
<1>7. Moves(s, q)
  BY <1>1, <1>5, Busy DEF Moves
<1>8. word = "firing"
  BY <1>1 DEF Task
<1> HIDE DEF q, n
<1>9. Task(s)'
  BY <1>2, <1>4, <1>5, <1>6, <1>8, Distinct DEF Task
<1> QED
  BY <1>1, <1>4, <1>6, <1>7, <1>9, MovesSerially

\* What the request, the ticker and the poller write when they are done is
\* what the chat heard.
LEMMA HandleSerially ==
    ASSUME NodesInv, SerialInv, NEW s \in Requests, HandleHeartbeat(s) \/ HandleAlert(s)
    PROVE  SerialInv'
<1>1. /\ s \in Procs /\ proc[s].node \in Row /\ Task(s) /\ proc[s].pc = "handle"
      /\ sent.state = "firing" <=> word = "firing"
  BY Distinct, Busy DEF HandleHeartbeat, HandleAlert
<1>2. row' \in {row, proc[s].node, [proc[s].node EXCEPT !.blocked = TRUE]}
  BY DEF HandleHeartbeat, HandleAlert
<1>3. [proc[s].node EXCEPT !.blocked = TRUE].silent = proc[s].node.silent
  BY <1>1 DEF Row
<1>4. row'.silent <=> word = "firing"
  BY <1>1, <1>2, <1>3 DEF Task
<1> QED
  BY <1>1, <1>4, FinishesSerially DEF HandleHeartbeat, HandleAlert

LEMMA MarkSerially ==
    ASSUME NodesInv, SerialInv, "storeWrite" \notin Faults, Mark \/ Clear
    PROVE  SerialInv'
<1>1. CASE Mark
  <2>1. /\ proc["ticker"].node \in Row /\ Task("ticker") /\ proc["ticker"].live
        /\ proc["ticker"].pc = "mark"
        /\ sent.state = "firing" <=> word = "firing"
    BY <1>1, Distinct, Busy DEF Mark
  <2>2. row'.silent = TRUE /\ UNCHANGED <<sent, word>> /\ Done("ticker")
    BY <1>1, <2>1 DEF Mark, WriteFails, Row
  <2>3. word = "firing"
    BY <2>1 DEF Task
  <2> QED
    BY <2>1, <2>2, <2>3, Distinct, FinishesSerially
<1>2. CASE Clear
  <2>1. /\ proc["poller"].node \in Row /\ Task("poller") /\ proc["poller"].live
        /\ proc["poller"].pc = "clear"
        /\ sent.state = "firing" <=> word = "firing"
    BY <1>2, Distinct, Busy DEF Clear
  <2>2. /\ row'.silent = proc["poller"].node.silent
        /\ UNCHANGED <<sent, word>> /\ Done("poller")
    BY <1>2, <2>1 DEF Clear, WriteFails, Row
  <2>3. row'.silent <=> word = "firing"
    BY <2>1, <2>2 DEF Task
  <2> QED
    BY <2>1, <2>2, <2>3, Distinct, FinishesSerially
<1> QED
  BY <1>1, <1>2

LEMMA TickSerially == NodesInv /\ SerialInv /\ Tick => SerialInv'
<1> SUFFICES ASSUME NodesInv, SerialInv, Tick PROVE SerialInv'
  OBVIOUS
<1>1. row'.silent = row.silent /\ row'.blocked = row.blocked
  <2>1. row \in Row
    BY DEF NodesInv, TypeOK
  <2> QED
    BY <2>1 DEF Tick, Row
<1>2. sent'.state = sent.state /\ word' = word
  BY DEF Tick, NodesInv, TypeOK
<1>3. ASSUME NEW p \in Procs
      PROVE  /\ proc'[p].pc = proc[p].pc
             /\ proc'[p].node.silent = proc[p].node.silent
             /\ proc'[p].node.blocked = proc[p].node.blocked
             /\ proc'[p].live = proc[p].live
  <2>1. proc[p] \in ProcState /\ proc[p].node \in Row
    BY CopyType
  <2>2. CASE proc[p].pc = "idle"
    BY <2>1, <2>2 DEF Tick
  <2>3. CASE proc[p].pc # "idle"
    <3> DEFINE n == [proc[p].node EXCEPT !.seen = Older(proc[p].node.seen, Quiet)]
    <3>1. proc'[p] = [proc[p] EXCEPT !.node = n, !.age = Older(proc[p].age, Reminder)]
      BY <2>1, <2>3 DEF Tick, ProcState
    <3>2. n.silent = proc[p].node.silent /\ n.blocked = proc[p].node.blocked
      BY <2>1 DEF Row
    <3> HIDE DEF n
    <3> QED
      BY <2>1, <3>1, <3>2 DEF ProcState
  <2> QED
    BY <2>2, <2>3
<1>4. OneAtATime' /\ \A p \in Procs : (proc[p].live /\ Task(p))'
  BY <1>1, <1>2, <1>3 DEF SerialInv, OneAtATime, Task
<1>5. RememberedIsHeard' /\ FlagMatchesWord'
  BY <1>1, <1>2, <1>3 DEF SerialInv, RememberedIsHeard, FlagMatchesWord, AllIdle
<1> QED
  BY <1>4, <1>5 DEF SerialInv

LEMMA SerialStep ==
    ASSUME NodesInv, SerialInv, Faults \subseteq SerialFaults, [Next]_vars
    PROVE  SerialInv'
<1>0. Faults \cap {"overlap", "unsure", "disconnect", "storeWrite", "restart"} = {}
  BY DEF SerialFaults
<1>1. ASSUME NEW s \in Requests, Get(s) PROVE SerialInv'
  BY <1>0, <1>1, Distinct, BeginSerially DEF Get, PCs
<1>2. ASSUME NEW s \in Requests, Serve(s) PROVE SerialInv'
  <2>1. ~TouchFails(s)
    BY <1>0, Distinct DEF TouchFails, WriteFails, SerialInv
  <2> QED
    BY <1>0, <1>2, <2>1, Distinct, TouchSerially, DeliverSerially, UndoSerially,
       HandleSerially DEF Serve
<1>3. CASE Candidate
  BY <1>0, <1>3, Distinct, BeginSerially DEF Candidate, PCs
<1>4. CASE Deliver("ticker")
  BY <1>4, Distinct, DeliverSerially
<1>5. CASE Command
  BY <1>0, <1>5, Distinct, BeginSerially DEF Command, PCs
<1>6. CASE Mark \/ Clear
  BY <1>0, <1>6, MarkSerially
<1>7. CASE NodeChanges \/ ChatChanges \/ UNCHANGED vars
  BY <1>7 DEF NodeChanges, ChatChanges, vars, SerialInv, OneAtATime, Task,
              RememberedIsHeard, FlagMatchesWord, AllIdle
<1>8. CASE Tick
  BY <1>8, TickSerially
<1> QED
  BY <1>0, <1>1, <1>2, <1>3, <1>4, <1>5, <1>6, <1>7, <1>8 DEF Next, Restart, Disconnect

(***************************************************************************)
(* One operation at a time, writes that succeed and answers that arrive:   *)
(* the row, the copy of whoever is busy, last_sent and the chat agree.     *)
(***************************************************************************)
THEOREM SerialNodes ==
    ASSUME Faults \subseteq SerialFaults
    PROVE  Spec => [](NodesInv /\ SerialInv)
<1>1. Init => NodesInv /\ SerialInv
  BY InitInv, SerialInit
<1>2. NodesInv /\ SerialInv /\ [Next]_vars => (NodesInv /\ SerialInv)'
  BY NodesStep, SerialStep
<1> QED
  BY <1>1, <1>2, PTL DEF Spec

(***************************************************************************)
(* authed and CheckSilent leave the flag as what the chat believes, however*)
(* often Telegram refuses, the chat mutes or blocks, or a read fails.      *)
(***************************************************************************)
THEOREM FlagIsTheWord ==
    ASSUME Faults \subseteq SerialFaults
    PROVE  Spec => []FlagMatchesWord
<1>1. NodesInv /\ SerialInv => FlagMatchesWord
  BY DEF SerialInv
<1> QED
  BY <1>1, SerialNodes, PTL
=============================================================================
