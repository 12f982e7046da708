------------------------ MODULE AlertPipeline_proofs ------------------------
(***************************************************************************)
(* What AlertPipeline guarantees for every set of alerts, every number of  *)
(* concurrent handlers, every reminder interval and under every fault, and *)
(* then what more it guarantees while no client gives up on its handler.   *)
(***************************************************************************)
EXTENDS AlertPipeline, TLAPS

\* An event is always reported as "info", a rule's alert never is.
Proper(r) == r.alert = Started <=> r.state = "info"

(***************************************************************************)
(* The requests and the handlers that hold them: a call at a handler is    *)
(* that handler's request, and says what its rule says until it returns.   *)
(***************************************************************************)
CallInv ==
    /\ Proper(call.req)
    /\ \A s \in Slots : Proper(handler[s].req)
    /\ \A s \in Slots : handler[s].pc \in {"lookup", "mute", "record"}
                            => handler[s].req.alert # Started
    /\ \A s \in Slots : call.at = s => handler[s].req = call.req
    /\ Calling /\ call.req.alert \in Alerts
         => (rule[call.req.alert].firing <=> call.req.state = "firing")

\* What a handler may rely on at each point of deliver.
Relies(pc, r) ==
    /\ pc = "record" => r.state \in told[r.alert]
    /\ pc \in {"mute", "send", "record"} /\ r.state = "ok" => "firing" \in told[r.alert]
    /\ pc = "ok" /\ r.state = "firing" => "firing" \in told[r.alert]
    /\ pc = "unknown" => ~paired

HandlerInv == \A s \in Slots : Relies(handler[s].pc, handler[s].req)

\* A record is never the first an alert is heard of.
RecordInv ==
    \A a \in Alerts : lastSent[a].state # ""
        => lastSent[a].state \in told[a] /\ "firing" \in told[a]

DeliveryInv ==
    /\ TypeOK
    /\ CallInv
    /\ HandlerInv
    /\ RecordInv
    /\ RecoveryNeedsFiring
    /\ AckedFiringWasTold
    /\ UnpairedOnlyByRelay

-----------------------------------------------------------------------------
\* An age stays an age.
LEMMA OlderType == \A n \in Ages : Older(n) \in Ages
BY WireAssumption DEF Older, Ages

LEMMA IdleType == Idle \in HandlerState
BY WireAssumption DEF Idle, HandlerState, PCs, Answers, Report, States, Words,
                      Results, Started, Ages

LEMMA NoCallType == NoCall \in CallState
BY WireAssumption DEF NoCall, CallState, Report, States, Words, Results, Started

LEMMA AgeFacts == 0 \in Ages /\ LongAgo \in Ages
BY WireAssumption DEF Ages, LongAgo

LEMMA AbsentType == Absent \in RuleState
BY AgeFacts DEF Absent, RuleState, Results

LEMMA BaselineType == \A d \in Results : Baseline(d) \in RuleState
BY AgeFacts DEF Baseline, RuleState, Results

LEMMA InitType == Init => TypeOK
<1> SUFFICES ASSUME Init PROVE TypeOK
  OBVIOUS
<1>1. NodeTypeOK
  BY NoCallType, AbsentType, AgeFacts
  DEF Init, NodeInit, NodeTypeOK, Results
<1>2. RelayTypeOK
  BY IdleType, AgeFacts
  DEF Init, RelayInit, RelayTypeOK, NeverSent, Results
<1>3. QED
  BY <1>1, <1>2 DEF TypeOK

(***************************************************************************)
(* Each side's operations keep its types.                                  *)
(***************************************************************************)
LEMMA JudgedType ==
    ASSUME NEW a \in Alerts, NEW prev \in RuleState, NEW d \in Results
    PROVE  Judged(a, prev, d) \in RuleState
BY BaselineType, AgeFacts DEF Judged, RuleState, Results

LEMMA PostType ==
    ASSUME NEW a \in Alerts \cup {Started}, NEW w \in States, NEW d \in Results
    PROVE  Post(a, w, d) \in CallState
BY DEF Post, CallState, Report

LEMMA StepType == TypeOK /\ StepBegin => NodeTypeOK'
<1> SUFFICES ASSUME TypeOK, StepBegin PROVE NodeTypeOK'
  OBVIOUS
<1>1. Post(Started, "info", NoDetail) \in CallState
  BY PostType DEF States, Results
<1>2. CASE baselined
  <2>1. rule' \in [Alerts -> RuleState]
    <3> SUFFICES ASSUME NEW a \in Alerts
                 PROVE  [rule[a] EXCEPT !.age = IF @ + elapsed < Reminder
                            THEN @ + elapsed ELSE LongAgo] \in RuleState
      BY <1>2 DEF StepBegin
    <3>1. rule[a] \in RuleState /\ rule[a].age \in Ages /\ elapsed \in Ages
      BY DEF TypeOK, NodeTypeOK, RuleState
    <3>2. (IF rule[a].age + elapsed < Reminder
              THEN rule[a].age + elapsed ELSE LongAgo) \in Ages
      BY <3>1, AgeFacts, WireAssumption DEF Ages
    <3>3. QED
      BY <3>1, <3>2 DEF RuleState
  <2>2. QED
    BY <1>2, <2>1, AgeFacts DEF StepBegin, TypeOK, NodeTypeOK
<1>3. CASE ~baselined
  <2>1. rule' \in [Alerts -> RuleState]
    BY <1>3, BaselineType DEF StepBegin, TypeOK, NodeTypeOK
  <2>2. QED
    BY <1>1, <1>3, <2>1, NoCallType, AgeFacts DEF StepBegin, TypeOK, NodeTypeOK
<1>4. QED
  BY <1>2, <1>3 DEF TypeOK, NodeTypeOK

LEMMA EvaluateType ==
    ASSUME NEW a \in Alerts, TypeOK, Evaluate(a)
    PROVE  NodeTypeOK'
<1> DEFINE r == Judged(a, rule[a], result[a])
<1>1. r \in RuleState
  BY JudgedType DEF TypeOK, NodeTypeOK
<1>2. Post(a, IF r.firing THEN "firing" ELSE "ok", result[a]) \in CallState
  BY PostType DEF TypeOK, NodeTypeOK, States, Words
<1>3. rule' \in [Alerts -> RuleState]
  BY <1>1, AbsentType DEF Evaluate, TypeOK, NodeTypeOK
<1>4. call' \in CallState
  BY <1>2, NoCallType DEF Evaluate, TypeOK, NodeTypeOK
<1>5. QED
  BY <1>3, <1>4 DEF Evaluate, TypeOK, NodeTypeOK

LEMMA SendReturnsType ==
    ASSUME NEW answer, TypeOK, SendReturns(answer)
    PROVE  NodeTypeOK'
<1>1. rule' \in [Alerts -> RuleState]
  <2>1. ASSUME NEW b \in Alerts
        PROVE  [rule EXCEPT ![b].acked = TRUE, ![b].age = 0]
                   \in [Alerts -> RuleState]
    BY AgeFacts DEF TypeOK, NodeTypeOK, RuleState
  <2>2. QED
    BY <2>1 DEF SendReturns, TypeOK, NodeTypeOK
<1>2. call' \in CallState
  BY NoCallType DEF SendReturns
<1>3. unpaired' \in BOOLEAN
  BY DEF SendReturns
<1>4. QED
  BY <1>1, <1>2, <1>3 DEF SendReturns, TypeOK, NodeTypeOK

LEMMA GotoType ==
    ASSUME NEW s \in Slots, NEW pc \in PCs, TypeOK, Goto(s, pc)
    PROVE  handler' \in [Slots -> HandlerState]
BY DEF Goto, TypeOK, RelayTypeOK, HandlerState

LEMMA TellType ==
    ASSUME NEW s \in Slots, TypeOK, CallInv, handler[s].pc \in {"mute", "send"},
           Tell(handler[s].req)
    PROVE  /\ word' \in [Alerts -> Words \cup {""}]
           /\ heard' \in [Alerts -> Results]
           /\ told' \in [Alerts -> SUBSET Words]
<1> DEFINE r == handler[s].req
<1>1. r \in Report
  BY DEF TypeOK, RelayTypeOK, HandlerState
<1>2. CASE r.alert \in Alerts
  <2>1. r.state \in Words /\ r.detail \in Results
    BY <1>1, <1>2, WireAssumption DEF CallInv, Proper, Report, States, Started
  <2>2. word' \in [Alerts -> Words \cup {""}]
    BY <1>2, <2>1 DEF Tell, TypeOK, RelayTypeOK
  <2>3. heard' \in [Alerts -> Results]
    BY <1>2, <2>1 DEF Tell, TypeOK, RelayTypeOK
  <2>4. told' \in [Alerts -> SUBSET Words]
    <3>1. told[r.alert] \cup {r.state} \in SUBSET Words
      BY <1>2, <2>1 DEF TypeOK, RelayTypeOK
    <3>2. told' = [told EXCEPT ![r.alert] = told[r.alert] \cup {r.state}]
      BY <1>2 DEF Tell
    <3>3. QED
      BY <3>1, <3>2 DEF TypeOK, RelayTypeOK
  <2>5. QED
    BY <2>2, <2>3, <2>4
<1>3. CASE r.alert \notin Alerts
  BY <1>3 DEF Tell, TypeOK, RelayTypeOK
<1>4. QED
  BY <1>2, <1>3

LEMMA RelayTickType == TypeOK /\ RelayTick => RelayTypeOK'
<1> SUFFICES ASSUME TypeOK, RelayTick PROVE RelayTypeOK'
  OBVIOUS
<1>1. lastSent' \in [Alerts -> [state : Words \cup {""}, age : Ages]]
  BY OlderType DEF RelayTick, TypeOK, RelayTypeOK
<1>2. handler' \in [Slots -> HandlerState]
  BY OlderType DEF RelayTick, TypeOK, RelayTypeOK, HandlerState
<1>3. QED
  BY <1>1, <1>2 DEF RelayTick, TypeOK, RelayTypeOK

LEMMA RecordType ==
    ASSUME NEW s \in Slots, TypeOK, CallInv, Record(s)
    PROVE  RelayTypeOK'
<1> DEFINE r == handler[s].req
<1>1. r \in Report /\ handler[s].age \in Ages
  BY DEF TypeOK, RelayTypeOK, HandlerState
<1>2. r.alert \in Alerts /\ r.state \in Words
  BY <1>1 DEF Record, CallInv, Proper, Report, States
<1>3. lastSent' \in [Alerts -> [state : Words \cup {""}, age : Ages]]
  BY <1>1, <1>2 DEF Record, TypeOK, RelayTypeOK
<1>4. handler' \in [Slots -> HandlerState]
  BY GotoType DEF Record, PCs, Answers
<1>5. QED
  BY <1>3, <1>4 DEF Record, TypeOK, RelayTypeOK

LEMMA HandleType ==
    ASSUME NEW s \in Slots, TypeOK, CallInv,
           \/ Lookup(s) \/ CheckMute(s) \/ SendAccepted(s)
           \/ SendFailed(s) \/ SendUnsure(s)
    PROVE  RelayTypeOK'
<1>1. CASE Lookup(s)
  <2>1. PICK pc \in {"ok", "mute"} :
            handler' = [handler EXCEPT ![s].pc = pc, ![s].age = 0]
    BY <1>1 DEF Lookup
  <2>2. handler \in [Slots -> HandlerState] /\ 0 \in Ages
    BY AgeFacts DEF TypeOK, RelayTypeOK
  <2>3. handler' \in [Slots -> HandlerState]
    BY <2>1, <2>2 DEF HandlerState, PCs, Answers
  <2>4. UNCHANGED <<paired, lastSent, muted, word, heard, told>>
    BY <1>1 DEF Lookup
  <2>5. QED
    BY <2>3, <2>4 DEF TypeOK, RelayTypeOK
<1>2. CASE CheckMute(s)
  <2>1. handler' \in [Slots -> HandlerState]
    BY <1>2, GotoType DEF CheckMute, PCs
  <2>2. /\ word' \in [Alerts -> Words \cup {""}]
        /\ heard' \in [Alerts -> Results]
        /\ told' \in [Alerts -> SUBSET Words]
    <3>1. CASE handler[s].req.alert \in muted
      BY <1>2, <3>1, TellType DEF CheckMute
    <3>2. CASE handler[s].req.alert \notin muted
      BY <1>2, <3>2 DEF CheckMute, TypeOK, RelayTypeOK
    <3>3. QED
      BY <3>1, <3>2
  <2>3. QED
    BY <1>2, <2>1, <2>2 DEF CheckMute, TypeOK, RelayTypeOK
<1>3. CASE SendAccepted(s)
  <2>1. handler' \in [Slots -> HandlerState]
    BY <1>3, GotoType DEF SendAccepted, PCs, Answers
  <2>2. QED
    BY <1>3, <2>1, TellType DEF SendAccepted, TypeOK, RelayTypeOK
<1>4. CASE SendFailed(s)
  <2>1. handler' \in [Slots -> HandlerState]
    BY <1>4, GotoType DEF SendFailed, PCs, Answers
  <2>2. QED
    BY <1>4, <2>1 DEF SendFailed, TypeOK, RelayTypeOK
<1>5. CASE SendUnsure(s)
  <2>1. handler' \in [Slots -> HandlerState]
    BY <1>5, GotoType DEF SendUnsure, PCs, Answers
  <2>2. QED
    BY <1>5, <2>1, TellType DEF SendUnsure, TypeOK, RelayTypeOK
<1>6. QED
  BY <1>1, <1>2, <1>3, <1>4, <1>5

LEMMA StoreFailsType ==
    ASSUME NEW s \in Slots, NEW pcs, TypeOK, StoreFails(s, pcs)
    PROVE  RelayTypeOK'
<1>1. handler' \in [Slots -> HandlerState]
  BY GotoType DEF StoreFails, PCs, Answers
<1>2. QED
  BY <1>1 DEF StoreFails, TypeOK, RelayTypeOK

LEMMA FinishType ==
    ASSUME NEW s \in Slots, TypeOK, Finish(s)
    PROVE  RelayTypeOK'
BY IdleType DEF Finish, TypeOK, RelayTypeOK

LEMMA AcceptType ==
    ASSUME NEW s \in Slots, TypeOK, Accept(s, call.req)
    PROVE  RelayTypeOK'
<1>1. call.req \in Report
  BY DEF TypeOK, NodeTypeOK, CallState
<1>2. QED
  BY <1>1, AgeFacts DEF Accept, TypeOK, RelayTypeOK, HandlerState, PCs, Answers

LEMMA UserType ==
    ASSUME TypeOK, \/ \E a \in Alerts : Mute(a) \/ Unmute(a)
                   \/ Unpair
    PROVE  RelayTypeOK'
<1>1. ASSUME NEW a \in Alerts, Mute(a) \/ Unmute(a) PROVE RelayTypeOK'
  BY <1>1 DEF Mute, Unmute, TypeOK, RelayTypeOK
<1>2. ASSUME Unpair PROVE RelayTypeOK'
  BY <1>2, AgeFacts DEF Unpair, NeverSent, TypeOK, RelayTypeOK
<1>3. QED
  BY <1>1, <1>2

LEMMA RelayCrashType == TypeOK /\ RelayCrash => RelayTypeOK'
BY IdleType DEF RelayCrash, TypeOK, RelayTypeOK

(***************************************************************************)
(* Every step of the pipeline keeps the types.                             *)
(***************************************************************************)
LEMMA TypeStep == TypeOK /\ CallInv /\ [Next]_vars => TypeOK'
<1> SUFFICES ASSUME TypeOK, CallInv, [Next]_vars PROVE TypeOK'
  OBVIOUS
<1> USE DEF nodeVars, relayVars
<1>0. /\ UNCHANGED nodeVars => NodeTypeOK'
      /\ UNCHANGED relayVars => RelayTypeOK'
  BY DEF TypeOK, NodeTypeOK, RelayTypeOK
<1>1. CASE Step
  BY <1>0, <1>1, StepType DEF Step, TypeOK
<1>2. ASSUME NEW a \in Alerts, Turn(a) PROVE TypeOK'
  BY <1>0, <1>2, EvaluateType DEF Turn, TypeOK
<1>3. ASSUME NEW a \in Alerts, DaemonReload(a) PROVE TypeOK'
  BY <1>0, <1>3 DEF DaemonReload, Reload, TypeOK, NodeTypeOK
<1>4. CASE DaemonRestart
  BY <1>0, <1>4, AbsentType, NoCallType, AgeFacts
  DEF DaemonRestart, Restart, TypeOK, NodeTypeOK
<1>5. CASE LoseRequest
  BY <1>0, <1>5, SendReturnsType DEF LoseRequest, TypeOK
<1>6. ASSUME NEW s \in Slots, Arrive(s) PROVE TypeOK'
  <2>1. call' \in CallState
    BY <1>6 DEF Arrive, TypeOK, NodeTypeOK, CallState
  <2>2. QED
    BY <1>6, <2>1, AcceptType DEF Arrive, TypeOK, NodeTypeOK
<1>7. ASSUME NEW s \in Slots, Handle(s) PROVE TypeOK'
  BY <1>0, <1>7, HandleType, RecordType DEF Handle, TypeOK
<1>8. ASSUME NEW s \in Slots, HandlerFails(s) PROVE TypeOK'
  BY <1>0, <1>8, HandleType, StoreFailsType DEF HandlerFails, TypeOK
<1>9. ASSUME NEW s \in Slots, Reply(s) PROVE TypeOK'
  BY <1>0, <1>9, FinishType, SendReturnsType DEF Reply, TypeOK
<1>10. ASSUME NEW s \in Slots, LoseReply(s) PROVE TypeOK'
  BY <1>10, FinishType, SendReturnsType DEF LoseReply, TypeOK
<1>11. ASSUME NEW s \in Slots, Abandon(s) PROVE TypeOK'
  BY <1>0, <1>11, SendReturnsType DEF Abandon, TypeOK
<1>12. CASE RelayRestart
  BY <1>0, <1>12, RelayCrashType, SendReturnsType DEF RelayRestart, TypeOK
<1>13. CASE User
  BY <1>0, <1>13, UserType DEF User, TypeOK
<1>14. CASE Tick
  BY <1>14, OlderType, RelayTickType DEF Tick, TypeOK, NodeTypeOK
<1>15. CASE Heartbeat
  BY <1>0, <1>15 DEF Heartbeat, HeartbeatRefused, TypeOK, NodeTypeOK
<1>16. CASE UNCHANGED vars
  BY <1>0, <1>16 DEF vars, TypeOK
<1>17. QED
  BY <1>1, <1>2, <1>3, <1>4, <1>5, <1>6, <1>7, <1>8, <1>9, <1>10, <1>11,
     <1>12, <1>13, <1>14, <1>15, <1>16 DEF Next

-----------------------------------------------------------------------------
(***************************************************************************)
(* Handlers move through deliver without changing the request they hold.   *)
(***************************************************************************)
LEMMA GotoMoves ==
    ASSUME NEW s \in Slots, NEW pc \in PCs, TypeOK, Goto(s, pc)
    PROVE  /\ handler'[s].pc = pc
           /\ handler'[s].req = handler[s].req
           /\ \A t \in Slots \ {s} : handler'[t] = handler[t]
BY DEF Goto, TypeOK, RelayTypeOK, HandlerState

LEMMA LookupMoves ==
    ASSUME NEW s \in Slots, TypeOK, Lookup(s)
    PROVE  /\ handler'[s].pc = IF Suppressed(handler[s].req,
                                            lastSent[handler[s].req.alert])
                               THEN "ok" ELSE "mute"
           /\ handler'[s].req = handler[s].req
           /\ \A t \in Slots \ {s} : handler'[t] = handler[t]
BY DEF Lookup, TypeOK, RelayTypeOK, HandlerState

\* A handler's step, whichever it is.
HandlerStep(s) ==
    \/ Lookup(s)
    \/ CheckMute(s)
    \/ SendAccepted(s)
    \/ Record(s)
    \/ SendFailed(s)
    \/ SendUnsure(s)
    \/ \E pcs \in SUBSET PCs : StoreFails(s, pcs)

LEMMA HandlerSteps ==
    ASSUME NEW s \in Slots, Handle(s) \/ HandlerFails(s)
    PROVE  HandlerStep(s) /\ UNCHANGED nodeVars
<1>1. CASE Handle(s)
  BY <1>1 DEF Handle, HandlerStep
<1>2. CASE HandlerFails(s)
  <2>1. {"lookup", "mute"} \in SUBSET PCs /\ {"record"} \in SUBSET PCs
    BY DEF PCs
  <2>2. QED
    BY <1>2, <2>1, Zenon DEF HandlerFails, HandlerStep
<1>3. QED
  BY <1>1, <1>2

\* Where a handler's step takes it, and what of deliver's request it needs.
LEMMA HandlerMoves ==
    ASSUME NEW s \in Slots, TypeOK, CallInv, HandlerStep(s)
    PROVE  /\ UNCHANGED paired
           /\ handler'[s].pc \in {"mute", "send", "record", "ok", "error"}
           /\ handler'[s].req = handler[s].req
           /\ \A t \in Slots \ {s} : handler'[t] = handler[t]
           /\ handler'[s].pc \in {"mute", "record"} => handler[s].req.alert # Started
<1>0. "ok" \in PCs /\ "error" \in PCs /\ "record" \in PCs /\ "send" \in PCs
  BY DEF PCs, Answers
<1>1. CASE Lookup(s)
  BY <1>1, LookupMoves DEF Lookup, CallInv
<1>2. CASE CheckMute(s)
  BY <1>0, <1>2, GotoMoves DEF CheckMute, CallInv
<1>3. CASE SendAccepted(s)
  <2>1. Goto(s, "ok") \/ (handler[s].req.state # "info" /\ Goto(s, "record"))
    BY <1>3 DEF SendAccepted
  <2>2. handler[s].req.state # "info" => handler[s].req.alert # Started
    BY DEF CallInv, Proper
  <2>3. QED
    BY <1>0, <1>3, <2>1, <2>2, GotoMoves DEF SendAccepted
<1>4. CASE Record(s)
  BY <1>0, <1>4, GotoMoves DEF Record
<1>5. CASE SendFailed(s)
  BY <1>0, <1>5, GotoMoves DEF SendFailed
<1>6. CASE SendUnsure(s)
  BY <1>0, <1>6, GotoMoves DEF SendUnsure
<1>7. CASE \E pcs \in SUBSET PCs : StoreFails(s, pcs)
  BY <1>0, <1>7, GotoMoves DEF StoreFails
<1>8. QED
  BY <1>1, <1>2, <1>3, <1>4, <1>5, <1>6, <1>7 DEF HandlerStep

LEMMA NoCallProper == Proper(NoCall.req) /\ ~(NoCall.at \in Slots) /\ NoCall.at = "none"
BY PipelineAssumption DEF NoCall, Proper

LEMMA IdleProper == Proper(Idle.req) /\ Idle.pc = "idle"
BY DEF Idle, Proper

\* A call that returns leaves no call.
LEMMA ReturnCall ==
    ASSUME NEW answer, TypeOK, CallInv, SendReturns(answer),
           \A s \in Slots : handler'[s] = handler[s] \/ handler'[s] = Idle
    PROVE  CallInv'
BY NoCallProper, IdleProper DEF SendReturns, CallInv, Calling

LEMMA CallStep == TypeOK /\ CallInv /\ [Next]_vars => CallInv'
<1> SUFFICES ASSUME TypeOK, CallInv, [Next]_vars PROVE CallInv'
  OBVIOUS
<1> USE DEF nodeVars, relayVars
<1>1. CASE Step
  <2>1. call' \in {NoCall, call, Post(Started, "info", NoDetail)} /\ ~Calling
    BY <1>1 DEF Step, StepBegin, Resting
  <2>2. call'.at = "none" \/ call'.req.alert = Started
    BY <2>1, NoCallProper DEF Calling, Post
  <2>3. Proper(call'.req) /\ call'.at \notin Slots
    BY <2>1, NoCallProper, PipelineAssumption DEF Post, Proper, CallInv, Calling
  <2>4. UNCHANGED relayVars
    BY <1>1 DEF Step
  <2>5. QED
    BY <2>2, <2>3, <2>4, WireAssumption DEF CallInv, Calling, Started
<1>2. ASSUME NEW a \in Alerts, Turn(a) PROVE CallInv'
  <2> DEFINE r == Judged(a, rule[a], result[a])
             p == Post(a, IF r.firing THEN "firing" ELSE "ok", result[a])
  <2>1. CASE call' = p
    <3>1. ~Calling /\ a # Started
      BY <1>2, WireAssumption DEF Turn, Evaluate, Started
    <3>2. Proper(call'.req) /\ call'.at \notin Slots /\ call'.req.alert = a
      BY <2>1, <3>1, PipelineAssumption DEF Post, Proper
    <3>3. rule'[a].firing <=> call'.req.state = "firing"
      <4>1. CASE a \notin enabled
        BY <1>2, <2>1, <4>1, <3>1 DEF Turn, Evaluate, Calling, Post
      <4>2. CASE a \in enabled
        BY <1>2, <2>1, <4>2 DEF Turn, Evaluate, Post, TypeOK, NodeTypeOK
      <4>3. QED
        BY <4>1, <4>2
    <3>4. UNCHANGED relayVars
      BY <1>2 DEF Turn
    <3>5. QED
      BY <3>2, <3>3, <3>4 DEF CallInv
  <2>2. CASE call' # p
    <3>1. call'.at = "none" /\ Proper(call'.req)
      BY <1>2, <2>2, NoCallProper DEF Turn, Evaluate, Calling, CallInv
    <3>2. QED
      BY <1>2, <3>1, PipelineAssumption DEF Turn, CallInv, Calling
  <2>3. QED
    BY <2>1, <2>2
<1>3. ASSUME NEW a \in Alerts, DaemonReload(a) PROVE CallInv'
  BY <1>3 DEF DaemonReload, Reload, CallInv, Calling
<1>4. CASE DaemonRestart
  BY <1>4, NoCallProper DEF DaemonRestart, Restart, CallInv, Calling
<1>5. CASE LoseRequest
  BY <1>5, ReturnCall DEF LoseRequest
<1>6. ASSUME NEW s \in Slots, Arrive(s) PROVE CallInv'
  <2>1. /\ call.at = "wire"
        /\ call'.at = s
        /\ call'.req = call.req
        /\ UNCHANGED rule
    BY <1>6 DEF Arrive, TypeOK, NodeTypeOK, CallState
  <2>2. /\ handler'[s].req = call.req
        /\ handler'[s].pc \in {"unknown", "send", "lookup"}
        /\ handler'[s].pc = "lookup" => call.req.state # "info"
        /\ \A t \in Slots \ {s} : handler'[t] = handler[t]
    BY <1>6 DEF Arrive, Accept, TypeOK, RelayTypeOK
  <2>3. QED
    BY <2>1, <2>2, PipelineAssumption DEF CallInv, Calling, Proper
<1>7. ASSUME NEW s \in Slots, Handle(s) \/ HandlerFails(s) PROVE CallInv'
  <2>1. HandlerStep(s) /\ UNCHANGED nodeVars
    BY <1>7, HandlerSteps
  <2>2. \A t \in Slots : handler'[t].req = handler[t].req
    BY <2>1, HandlerMoves
  <2>3. \A t \in Slots : handler'[t].pc \in {"lookup", "mute", "record"}
                            => handler'[t].req.alert # Started
    BY <2>1, HandlerMoves DEF CallInv
  <2>4. QED
    BY <2>1, <2>2, <2>3 DEF CallInv, Calling, Proper
<1>8. ASSUME NEW s \in Slots, Reply(s) PROVE CallInv'
  <2>1. \A t \in Slots : handler'[t] = handler[t] \/ handler'[t] = Idle
    BY <1>8 DEF Reply, Finish, TypeOK, RelayTypeOK
  <2>2. CASE call.at = s
    BY <1>8, <2>1, <2>2, ReturnCall DEF Reply
  <2>3. CASE call.at # s
    <3>1. \A t \in Slots \ {s} : handler'[t] = handler[t]
      BY <1>8 DEF Reply, Finish, TypeOK, RelayTypeOK
    <3>2. handler'[s] = Idle
      BY <1>8 DEF Reply, Finish, TypeOK, RelayTypeOK
    <3>3. QED
      BY <1>8, <2>3, <3>1, <3>2, IdleProper DEF Reply, CallInv, Calling
  <2>4. QED
    BY <2>2, <2>3
<1>9. ASSUME NEW s \in Slots, LoseReply(s) PROVE CallInv'
  BY <1>9, ReturnCall DEF LoseReply, Finish, TypeOK, RelayTypeOK
<1>10. ASSUME NEW s \in Slots, Abandon(s) PROVE CallInv'
  BY <1>10, ReturnCall DEF Abandon
<1>11. CASE RelayRestart
  <2>1. \A t \in Slots : handler'[t] = Idle
    BY <1>11 DEF RelayRestart, RelayCrash
  <2>2. CASE call.at \in Slots
    BY <1>11, <2>1, <2>2, ReturnCall DEF RelayRestart
  <2>3. CASE call.at \notin Slots
    BY <1>11, <2>1, <2>3, IdleProper DEF RelayRestart, CallInv, Calling
  <2>4. QED
    BY <2>2, <2>3
<1>12. CASE User
  BY <1>12 DEF User, Mute, Unmute, Unpair, CallInv, Calling
<1>13. CASE Tick
  <2>1. \A t \in Slots : /\ handler'[t].req = handler[t].req
                         /\ handler'[t].pc = handler[t].pc
    BY <1>13 DEF Tick, RelayTick, TypeOK, RelayTypeOK, HandlerState
  <2>2. QED
    BY <1>13, <2>1 DEF Tick, CallInv, Calling
<1>14. CASE Heartbeat
  BY <1>14 DEF Heartbeat, HeartbeatRefused, CallInv, Calling
<1>15. CASE UNCHANGED vars
  BY <1>15 DEF vars, CallInv, Calling
<1>16. QED
  BY <1>1, <1>2, <1>3, <1>4, <1>5, <1>6, <1>7, <1>8, <1>9, <1>10, <1>11,
     <1>12, <1>13, <1>14, <1>15 DEF Next

-----------------------------------------------------------------------------
\* What is told is added to what has been told.
LEMMA TellTells ==
    ASSUME NEW r, TypeOK, Tell(r)
    PROVE  /\ \A a \in Alerts : told[a] \subseteq told'[a]
           /\ \A a \in Alerts : told'[a] \subseteq told[a] \cup {r.state}
           /\ \A a \in Alerts : a # r.alert => told'[a] = told[a]
           /\ r.alert \in Alerts => r.state \in told'[r.alert]
<1>1. CASE r.alert \in Alerts
  <2>1. told' = [told EXCEPT ![r.alert] = told[r.alert] \cup {r.state}]
    BY <1>1 DEF Tell
  <2>2. told \in [Alerts -> SUBSET Words]
    BY DEF TypeOK, RelayTypeOK
  <2>3. \A a \in Alerts : told'[a] = IF a = r.alert THEN told[a] \cup {r.state}
                                                   ELSE told[a]
    BY <2>1, <2>2
  <2>4. QED
    BY <1>1, <2>3
<1>2. CASE r.alert \notin Alerts
  BY <1>2 DEF Tell
<1>3. QED
  BY <1>1, <1>2

(***************************************************************************)
(* What the chat has been told is never untold.                            *)
(***************************************************************************)
LEMMA ToldGrows ==
    ASSUME NEW s \in Slots, TypeOK, HandlerStep(s)
    PROVE  \A a \in Alerts : told[a] \subseteq told'[a]
<1>1. Tell(handler[s].req) \/ UNCHANGED told
  BY DEF HandlerStep, Lookup, CheckMute, SendAccepted, Record, SendFailed,
         SendUnsure, StoreFails
<1>2. QED
  BY <1>1, TellTells

\* A handler that leaves "mute" or "send" for "record" has told its report.
LEMMA RecordAfterTell ==
    ASSUME NEW s \in Slots, TypeOK, CallInv, HandlerStep(s),
           handler'[s].pc = "record"
    PROVE  /\ handler[s].req.alert \in Alerts
           /\ handler[s].req.state \in told'[handler[s].req.alert]
<1>0. handler[s].req \in Report /\ handler[s].req.alert # Started
  BY HandlerMoves DEF TypeOK, RelayTypeOK, HandlerState
<1>1. handler[s].req.alert \in Alerts
  BY <1>0 DEF Report
<1>2. "ok" \in PCs /\ "error" \in PCs /\ "send" \in PCs
  BY DEF PCs, Answers
<1>3. ~Lookup(s)
  BY LookupMoves
<1>4. ~Record(s)
  BY <1>2, GotoMoves DEF Record
<1>5. ~SendFailed(s)
  BY <1>2, GotoMoves DEF SendFailed
<1>6. \A pcs \in SUBSET PCs : ~StoreFails(s, pcs)
  BY <1>2, GotoMoves DEF StoreFails
<1>7. Tell(handler[s].req)
  <2>1. CASE CheckMute(s)
    BY <1>2, <2>1, GotoMoves DEF CheckMute
  <2>2. CASE SendAccepted(s) \/ SendUnsure(s)
    BY <2>2 DEF SendAccepted, SendUnsure
  <2>3. QED
    BY <1>3, <1>4, <1>5, <1>6, <2>1, <2>2 DEF HandlerStep
<1>8. QED
  BY <1>1, <1>7, TellTells

\* What a step may never take back: words told, and the removal of the node.
LEMMA Monotone ==
    ASSUME TypeOK, [Next]_vars
    PROVE  /\ \A a \in Alerts : told[a] \subseteq told'[a]
           /\ paired' => paired
<1> USE DEF nodeVars, relayVars
<1>1. CASE Step
  BY <1>1 DEF Step
<1>2. ASSUME NEW a \in Alerts, Turn(a) \/ DaemonReload(a)
      PROVE  UNCHANGED relayVars
  BY <1>2 DEF Turn, DaemonReload
<1>3. CASE DaemonRestart \/ Heartbeat \/ LoseRequest
  BY <1>3 DEF DaemonRestart, Heartbeat, LoseRequest
<1>4. ASSUME NEW s \in Slots, Arrive(s) \/ Reply(s) \/ LoseReply(s) \/ Abandon(s)
      PROVE  UNCHANGED <<told, paired>>
  BY <1>4 DEF Arrive, Accept, Reply, LoseReply, Abandon, Finish
<1>5. ASSUME NEW s \in Slots, Handle(s) \/ HandlerFails(s)
      PROVE  /\ \A a \in Alerts : told[a] \subseteq told'[a]
             /\ paired' => paired
  <2>1. HandlerStep(s)
    BY <1>5, HandlerSteps
  <2>2. UNCHANGED paired
    BY <2>1 DEF HandlerStep, Lookup, CheckMute, SendAccepted, Record,
                SendFailed, SendUnsure, StoreFails
  <2>3. QED
    BY <2>1, <2>2, ToldGrows
<1>6. CASE RelayRestart \/ User \/ Tick \/ UNCHANGED vars
  BY <1>6 DEF RelayRestart, RelayCrash, User, Mute, Unmute, Unpair, Tick,
              RelayTick, vars
<1>7. QED
  BY <1>1, <1>2, <1>3, <1>4, <1>5, <1>6 DEF Next

\* What a handler relied on holds for as long as it stays where it is.
LEMMA ReliesStays ==
    ASSUME TypeOK, [Next]_vars, NEW pc \in PCs, NEW r \in Report, Proper(r),
           pc = "record" => r.alert # Started, Relies(pc, r)
    PROVE  Relies(pc, r)'
<1>1. r.state \in Words => r.alert \in Alerts
  BY DEF Proper, Report, Words
<1>2. pc = "record" => r.alert \in Alerts
  BY DEF Report
<1>3. QED
  BY <1>1, <1>2, Monotone DEF Relies, Words

\* The moves a handler's step can make through deliver.
LEMMA HandlerPaths ==
    ASSUME NEW s \in Slots, TypeOK, CallInv, HandlerStep(s)
    PROVE  LET r == handler[s].req
               pc == handler[s].pc
               next == handler'[s].pc
           IN  \/ next = "ok" /\ Suppressed(r, lastSent[r.alert]) /\ pc = "lookup"
               \/ next = "mute" /\ ~Suppressed(r, lastSent[r.alert]) /\ pc = "lookup"
               \/ next \in {"record", "send"} /\ pc = "mute"
               \/ next = "record" /\ pc = "send"
               \/ next = "ok" /\ pc = "send" /\ r.state = "info"
               \/ next = "ok" /\ pc = "record"
               \/ next = "error"
<1>0. "ok" \in PCs /\ "error" \in PCs /\ "record" \in PCs /\ "send" \in PCs
  BY DEF PCs, Answers
<1>1. CASE Lookup(s)
  BY <1>1, LookupMoves DEF Lookup
<1>2. CASE CheckMute(s)
  BY <1>0, <1>2, GotoMoves DEF CheckMute
<1>3. CASE SendAccepted(s)
  BY <1>0, <1>3, GotoMoves DEF SendAccepted
<1>4. CASE Record(s)
  BY <1>0, <1>4, GotoMoves DEF Record
<1>5. CASE SendFailed(s)
  BY <1>0, <1>5, GotoMoves DEF SendFailed
<1>6. CASE SendUnsure(s)
  BY <1>0, <1>6, GotoMoves DEF SendUnsure
<1>7. CASE \E pcs \in SUBSET PCs : StoreFails(s, pcs)
  BY <1>0, <1>7, GotoMoves DEF StoreFails
<1>8. QED
  BY <1>1, <1>2, <1>3, <1>4, <1>5, <1>6, <1>7 DEF HandlerStep

LEMMA HandlerRelies ==
    ASSUME NEW s \in Slots, TypeOK, CallInv, HandlerInv, RecordInv, HandlerStep(s)
    PROVE  Relies(handler[s].pc, handler[s].req)'
<1> DEFINE r == handler[s].req
<1>0. /\ r \in Report
      /\ Proper(r)
      /\ Relies(handler[s].pc, r)
      /\ \A a \in Alerts : told[a] \subseteq told'[a]
      /\ handler'[s].req = r
  BY ToldGrows, HandlerMoves DEF TypeOK, RelayTypeOK, HandlerState, CallInv, HandlerInv
<1>1. r.state \in Words => r.alert \in Alerts
  BY <1>0 DEF Proper, Report, Words
<1>2. lastSent[r.alert].state = "firing" /\ r.alert \in Alerts
         => "firing" \in told[r.alert]
  BY DEF RecordInv
<1>3. handler'[s].pc = "record" => r.state \in told'[r.alert]
  BY RecordAfterTell
<1>4. handler'[s].pc \in {"mute", "send", "record"} /\ r.state = "ok"
         => "firing" \in told'[r.alert]
  <2> SUFFICES ASSUME handler'[s].pc \in {"mute", "send", "record"}, r.state = "ok"
               PROVE  "firing" \in told[r.alert]
    BY <1>0, <1>1 DEF Words
  <2>1. CASE handler[s].pc = "lookup" /\ ~Suppressed(r, lastSent[r.alert])
    BY <1>1, <1>2, <2>1 DEF Suppressed, Words
  <2>2. CASE handler[s].pc \in {"mute", "send"}
    BY <1>0, <2>2 DEF Relies
  <2>3. QED
    BY <2>1, <2>2, HandlerPaths
<1>5. handler'[s].pc = "ok" /\ r.state = "firing" => "firing" \in told'[r.alert]
  <2> SUFFICES ASSUME handler'[s].pc = "ok", r.state = "firing"
               PROVE  "firing" \in told[r.alert]
    BY <1>0, <1>1 DEF Words
  <2>1. CASE handler[s].pc = "lookup" /\ Suppressed(r, lastSent[r.alert])
    BY <1>1, <1>2, <2>1 DEF Suppressed, Words
  <2>2. CASE handler[s].pc = "record"
    BY <1>0, <2>2 DEF Relies
  <2>3. QED
    BY <2>1, <2>2, HandlerPaths
<1>6. handler'[s].pc # "unknown"
  BY HandlerMoves
<1>7. QED
  BY <1>0, <1>3, <1>4, <1>5, <1>6 DEF Relies

(***************************************************************************)
(* Every step keeps what the handlers rely on.                             *)
(***************************************************************************)
LEMMA HandlerInvStep ==
    ASSUME TypeOK, CallInv, HandlerInv, RecordInv, [Next]_vars
    PROVE  HandlerInv'
<1> USE DEF nodeVars, relayVars
<1>0. ASSUME NEW t \in Slots, handler'[t].pc = handler[t].pc,
             handler'[t].req = handler[t].req
      PROVE  Relies(handler[t].pc, handler[t].req)'
  <2>1. /\ handler[t].pc \in PCs
        /\ handler[t].req \in Report
        /\ Proper(handler[t].req)
        /\ handler[t].pc = "record" => handler[t].req.alert # Started
        /\ Relies(handler[t].pc, handler[t].req)
    BY DEF TypeOK, RelayTypeOK, HandlerState, CallInv, HandlerInv
  <2>2. \A pc \in PCs, r \in Report :
           Proper(r) /\ (pc = "record" => r.alert # Started) /\ Relies(pc, r)
              => /\ pc = "record" => r.state \in told'[r.alert]
                 /\ pc \in {"mute", "send", "record"} /\ r.state = "ok"
                       => "firing" \in told'[r.alert]
                 /\ pc = "ok" /\ r.state = "firing" => "firing" \in told'[r.alert]
                 /\ pc = "unknown" => ~paired'
    BY ReliesStays DEF Relies
  <2>3. QED
    BY <1>0, <2>1, <2>2 DEF Relies
<1>1. ASSUME NEW t \in Slots, handler'[t] = Idle
      PROVE  Relies(handler[t].pc, handler[t].req)'
  BY <1>1 DEF Relies, Idle
<1>2. ASSUME UNCHANGED handler PROVE HandlerInv'
  BY <1>0, <1>2 DEF HandlerInv
<1>3. CASE \/ Step \/ DaemonRestart \/ Heartbeat \/ LoseRequest
           \/ User \/ UNCHANGED vars
  BY <1>2, <1>3 DEF Step, DaemonRestart, Heartbeat, LoseRequest, User, Mute,
                    Unmute, Unpair, vars
<1>4. ASSUME NEW a \in Alerts, Turn(a) \/ DaemonReload(a) PROVE HandlerInv'
  BY <1>2, <1>4 DEF Turn, DaemonReload
<1>5. ASSUME NEW s \in Slots, Arrive(s) PROVE HandlerInv'
  <2>1. /\ handler'[s].req = call.req
        /\ handler'[s].pc \in {"unknown", "send", "lookup"}
        /\ handler'[s].pc = "send" => call.req.state = "info"
        /\ handler'[s].pc = "unknown" => ~paired
        /\ UNCHANGED paired
        /\ \A t \in Slots \ {s} : handler'[t] = handler[t]
    BY <1>5 DEF Arrive, Accept, TypeOK, RelayTypeOK
  <2>2. Relies(handler[s].pc, handler[s].req)'
    BY <2>1 DEF Relies
  <2>3. QED
    BY <1>0, <2>1, <2>2 DEF HandlerInv
<1>6. ASSUME NEW s \in Slots, Handle(s) \/ HandlerFails(s) PROVE HandlerInv'
  <2>1. HandlerStep(s)
    BY <1>6, HandlerSteps
  <2>2. \A t \in Slots \ {s} : handler'[t] = handler[t]
    BY <2>1, HandlerMoves
  <2>3. QED
    BY <1>0, <2>1, <2>2, HandlerRelies DEF HandlerInv
<1>7. ASSUME NEW s \in Slots, Finish(s) PROVE HandlerInv'
  <2>1. \A t \in Slots : handler'[t] = handler[t] \/ handler'[t] = Idle
    BY <1>7 DEF Finish, TypeOK, RelayTypeOK
  <2>2. QED
    BY <1>0, <1>1, <2>1 DEF HandlerInv
<1>8. ASSUME NEW s \in Slots, Reply(s) \/ LoseReply(s) \/ Abandon(s)
      PROVE  HandlerInv'
  BY <1>2, <1>7, <1>8 DEF Reply, LoseReply, Abandon
<1>9. CASE RelayRestart
  BY <1>1, <1>9 DEF RelayRestart, RelayCrash, HandlerInv
<1>10. CASE Tick
  <2>1. \A t \in Slots : /\ handler'[t].req = handler[t].req
                         /\ handler'[t].pc = handler[t].pc
    BY <1>10 DEF Tick, RelayTick, TypeOK, RelayTypeOK, HandlerState
  <2>2. QED
    BY <1>0, <2>1 DEF HandlerInv
<1>11. QED
  BY <1>3, <1>4, <1>5, <1>6, <1>8, <1>9, <1>10 DEF Next

-----------------------------------------------------------------------------
(***************************************************************************)
(* The records and the history.                                            *)
(***************************************************************************)
LEMMA HandlerRecords ==
    ASSUME NEW s \in Slots, TypeOK, CallInv, HandlerInv, RecordInv,
           RecoveryNeedsFiring, HandlerStep(s)
    PROVE  RecordInv' /\ RecoveryNeedsFiring'
<1> DEFINE r == handler[s].req
<1>0. /\ r \in Report
      /\ Proper(r)
      /\ Relies(handler[s].pc, r)
      /\ \A a \in Alerts : told[a] \subseteq told'[a]
  BY ToldGrows DEF TypeOK, RelayTypeOK, HandlerState, CallInv, HandlerInv
<1>1. RecordInv'
  <2>1. CASE Record(s)
    <3>1. r.alert # Started /\ handler[s].pc = "record" /\ UNCHANGED told
      BY <2>1 DEF Record, CallInv
    <3>2. r.alert \in Alerts /\ r.state \in Words
      BY <1>0, <3>1 DEF Proper, Report, States
    <3>3. \A a \in Alerts : lastSent'[a].state = IF a = r.alert THEN r.state
                                                             ELSE lastSent[a].state
      BY <2>1, <3>2 DEF Record, TypeOK, RelayTypeOK
    <3>4. r.state \in told[r.alert] /\ "firing" \in told[r.alert]
      BY <1>0, <3>1, <3>2 DEF Relies, Words
    <3>5. QED
      BY <3>1, <3>3, <3>4 DEF RecordInv
  <2>2. CASE UNCHANGED lastSent
    BY <1>0, <2>2 DEF RecordInv
  <2>3. QED
    BY <2>1, <2>2 DEF HandlerStep, Lookup, CheckMute, SendAccepted, SendFailed,
                      SendUnsure, StoreFails
<1>2. RecoveryNeedsFiring'
  <2>1. CASE UNCHANGED told
    BY <2>1 DEF RecoveryNeedsFiring
  <2>2. CASE Tell(r) /\ handler[s].pc \in {"mute", "send"}
    <3>1. r.state = "ok" => "firing" \in told[r.alert]
      BY <1>0, <2>2 DEF Relies
    <3>2. \A a \in Alerts : "ok" \in told'[a] => "firing" \in told[a]
      BY <2>2, <3>1, TellTells DEF RecoveryNeedsFiring
    <3>3. QED
      BY <1>0, <3>2 DEF RecoveryNeedsFiring
  <2>3. QED
    BY <2>1, <2>2 DEF HandlerStep, Lookup, CheckMute, SendAccepted, Record,
                      SendFailed, SendUnsure, StoreFails
<1>3. QED
  BY <1>1, <1>2

LEMMA RecordsStep ==
    ASSUME TypeOK, CallInv, HandlerInv, RecordInv, RecoveryNeedsFiring, [Next]_vars
    PROVE  RecordInv' /\ RecoveryNeedsFiring'
<1> USE DEF nodeVars, relayVars
<1>0. ASSUME UNCHANGED told,
             \A a \in Alerts : lastSent'[a].state \in {lastSent[a].state, ""}
      PROVE  RecordInv' /\ RecoveryNeedsFiring'
  BY <1>0 DEF RecordInv, RecoveryNeedsFiring
<1>1. ASSUME UNCHANGED <<told, lastSent>> PROVE RecordInv' /\ RecoveryNeedsFiring'
  BY <1>0, <1>1
<1>2. CASE \/ Step \/ DaemonRestart \/ Heartbeat \/ LoseRequest
           \/ RelayRestart \/ UNCHANGED vars
  BY <1>1, <1>2 DEF Step, DaemonRestart, Heartbeat, LoseRequest, RelayRestart,
                    RelayCrash, vars
<1>3. ASSUME NEW a \in Alerts, Turn(a) \/ DaemonReload(a)
      PROVE  RecordInv' /\ RecoveryNeedsFiring'
  BY <1>1, <1>3 DEF Turn, DaemonReload
<1>4. ASSUME NEW s \in Slots, Arrive(s) \/ Reply(s) \/ LoseReply(s) \/ Abandon(s)
      PROVE  RecordInv' /\ RecoveryNeedsFiring'
  BY <1>1, <1>4 DEF Arrive, Accept, Reply, LoseReply, Abandon, Finish
<1>5. ASSUME NEW s \in Slots, Handle(s) \/ HandlerFails(s)
      PROVE  RecordInv' /\ RecoveryNeedsFiring'
  BY <1>5, HandlerSteps, HandlerRecords
<1>6. CASE User
  <2>1. ASSUME NEW a \in Alerts, Mute(a) \/ Unmute(a)
        PROVE  UNCHANGED <<told, lastSent>>
    BY <2>1 DEF Mute, Unmute
  <2>2. ASSUME Unpair
        PROVE  /\ UNCHANGED told
               /\ \A a \in Alerts : lastSent'[a].state \in {lastSent[a].state, ""}
    BY <2>2 DEF Unpair, NeverSent
  <2>3. QED
    BY <1>0, <1>1, <1>6, <2>1, <2>2 DEF User
<1>7. CASE Tick
  <2>1. \A a \in Alerts : lastSent'[a].state = lastSent[a].state
    BY <1>7 DEF Tick, RelayTick, TypeOK, RelayTypeOK
  <2>2. QED
    BY <1>0, <1>7, <2>1 DEF Tick, RelayTick
<1>8. QED
  BY <1>2, <1>3, <1>4, <1>5, <1>6, <1>7 DEF Next

-----------------------------------------------------------------------------
(***************************************************************************)
(* What the daemon believes.                                               *)
(***************************************************************************)
\* An acknowledgement that a send brought, and that has not aged away.
Reported(r) == r.firing /\ r.acked /\ r.age < Reminder

\* A step of the rules never makes a report out of what was none.
LEMMA JudgedReported ==
    ASSUME NEW a \in Alerts, NEW prev \in RuleState, NEW d \in Results,
           Reported(Judged(a, prev, d))
    PROVE  Reported(prev)
BY WireAssumption DEF Judged, Baseline, Reported, LongAgo, RuleState

LEMMA AbsentUnreported == ~Reported(Absent)
BY DEF Absent, Reported

LEMMA BaselineUnreported == \A d : ~Reported(Baseline(d))
BY WireAssumption DEF Baseline, Reported, LongAgo

LEMMA StepReported ==
    ASSUME TypeOK, StepBegin, NEW a \in Alerts, Reported(rule'[a])
    PROVE  Reported(rule[a])
<1>1. rule[a] \in RuleState /\ rule[a].age \in Ages /\ elapsed \in Ages
  BY DEF TypeOK, NodeTypeOK, RuleState
<1>2. CASE baselined
  <2>1. rule'[a] = [rule[a] EXCEPT !.age = IF rule[a].age + elapsed < Reminder
                                           THEN rule[a].age + elapsed ELSE LongAgo]
    BY <1>2 DEF StepBegin
  <2>2. QED
    BY <1>1, <2>1, WireAssumption DEF Reported, RuleState, Ages, LongAgo
<1>3. CASE ~baselined
  <2>1. rule'[a] = rule[a] \/ rule'[a] = Baseline(result'[a])
    BY <1>3 DEF StepBegin
  <2>2. QED
    BY <2>1, BaselineUnreported
<1>4. QED
  BY <1>2, <1>3 DEF StepBegin

LEMMA TurnReported ==
    ASSUME TypeOK, NEW b \in Alerts, Evaluate(b), NEW a \in Alerts,
           Reported(rule'[a])
    PROVE  Reported(rule[a])
<1>1. rule[b] \in RuleState /\ result[b] \in Results
  BY DEF TypeOK, NodeTypeOK
<1>2. \/ rule'[a] = rule[a]
      \/ rule'[a] = Absent
      \/ a = b /\ rule'[a] = Judged(b, rule[b], result[b])
  BY DEF Evaluate, TypeOK, NodeTypeOK
<1>3. QED
  BY <1>1, <1>2, AbsentUnreported, JudgedReported

\* What a return makes of the rules: only a 2xx makes a report, of its alert.
LEMMA ReturnReported ==
    ASSUME TypeOK, NEW answer, SendReturns(answer), NEW a \in Alerts,
           Reported(rule'[a]), ~Reported(rule[a])
    PROVE  answer = "ok" /\ call.req.alert = a /\ rule[a].firing
BY DEF SendReturns, Reported, TypeOK, NodeTypeOK, RuleState

LEMMA DaemonStep ==
    ASSUME TypeOK, CallInv, HandlerInv, AckedFiringWasTold, UnpairedOnlyByRelay,
           [Next]_vars
    PROVE  AckedFiringWasTold' /\ UnpairedOnlyByRelay'
<1> USE DEF nodeVars, relayVars
<1>0. ASSUME \A a \in Alerts : Reported(rule'[a])
                                  => Reported(rule[a]) \/ "firing" \in told[a],
             unpaired' => unpaired \/ ~paired
      PROVE  AckedFiringWasTold' /\ UnpairedOnlyByRelay'
  BY <1>0, Monotone DEF AckedFiringWasTold, UnpairedOnlyByRelay, Reported
<1>1. ASSUME UNCHANGED <<rule, unpaired>>
      PROVE  AckedFiringWasTold' /\ UnpairedOnlyByRelay'
  BY <1>0, <1>1
<1>2. ASSUME SendReturns("error")
      PROVE  AckedFiringWasTold' /\ UnpairedOnlyByRelay'
  <2>1. UNCHANGED rule /\ unpaired' = unpaired
    BY <1>2 DEF SendReturns, TypeOK, NodeTypeOK
  <2>2. QED
    BY <1>1, <2>1
<1>3. CASE Step
  BY <1>0, <1>3, StepReported DEF Step, StepBegin
<1>4. ASSUME NEW b \in Alerts, Turn(b)
      PROVE  AckedFiringWasTold' /\ UnpairedOnlyByRelay'
  BY <1>0, <1>4, TurnReported DEF Turn, Evaluate
<1>5. ASSUME NEW b \in Alerts, DaemonReload(b)
      PROVE  AckedFiringWasTold' /\ UnpairedOnlyByRelay'
  BY <1>1, <1>5 DEF DaemonReload, Reload
<1>6. CASE DaemonRestart
  BY <1>0, <1>6, AbsentUnreported DEF DaemonRestart, Restart
<1>7. CASE LoseRequest \/ Heartbeat
  <2>1. CASE LoseRequest
    BY <1>2, <2>1 DEF LoseRequest
  <2>2. CASE Heartbeat
    BY <1>0, <2>2 DEF Heartbeat, HeartbeatRefused
  <2>3. QED
    BY <1>7, <2>1, <2>2
<1>8. ASSUME NEW s \in Slots, Arrive(s) \/ Handle(s) \/ HandlerFails(s)
      PROVE  AckedFiringWasTold' /\ UnpairedOnlyByRelay'
  BY <1>1, <1>8, HandlerSteps DEF Arrive
<1>9. ASSUME NEW s \in Slots, Reply(s)
      PROVE  AckedFiringWasTold' /\ UnpairedOnlyByRelay'
  <2>1. CASE call.at # s
    BY <1>1, <1>9, <2>1 DEF Reply
  <2>2. CASE call.at = s
    <3>1. SendReturns(handler[s].pc) /\ handler[s].req = call.req
      BY <1>9, <2>2 DEF Reply, CallInv
    <3>2. Relies(handler[s].pc, call.req)
      BY <3>1 DEF HandlerInv
    <3>3. ASSUME NEW a \in Alerts, Reported(rule'[a]), ~Reported(rule[a])
          PROVE  "firing" \in told[a]
      <4>1. handler[s].pc = "ok" /\ call.req.alert = a /\ rule[a].firing
        BY <3>1, <3>3, ReturnReported
      <4>2. call.req.state = "firing"
        BY <2>2, <4>1, PipelineAssumption DEF CallInv, Calling
      <4>3. QED
        BY <3>2, <4>1, <4>2 DEF Relies
    <3>4. unpaired' => unpaired \/ ~paired
      BY <3>1, <3>2 DEF SendReturns, Relies
    <3>5. QED
      BY <1>0, <3>3, <3>4
  <2>3. QED
    BY <2>1, <2>2
<1>10. ASSUME NEW s \in Slots, LoseReply(s) \/ Abandon(s)
      PROVE  AckedFiringWasTold' /\ UnpairedOnlyByRelay'
  BY <1>2, <1>10 DEF LoseReply, Abandon
<1>11. CASE RelayRestart
  <2>1. CASE call.at \in Slots
    BY <1>2, <1>11, <2>1 DEF RelayRestart
  <2>2. CASE call.at \notin Slots
    BY <1>1, <1>11, <2>2 DEF RelayRestart
  <2>3. QED
    BY <2>1, <2>2
<1>12. CASE User \/ Tick \/ UNCHANGED vars
  BY <1>1, <1>12 DEF User, Tick, vars
<1>13. QED
  BY <1>3, <1>4, <1>5, <1>6, <1>7, <1>8, <1>9, <1>10, <1>11, <1>12 DEF Next

-----------------------------------------------------------------------------
(***************************************************************************)
(* DeliveryInv is inductive.                                               *)
(***************************************************************************)
LEMMA DeliveryInit == Init => DeliveryInv
<1> SUFFICES ASSUME Init PROVE DeliveryInv
  OBVIOUS
<1>1. TypeOK
  BY InitType
<1>2. CallInv
  BY NoCallProper, IdleProper, WireAssumption
  DEF Init, NodeInit, RelayInit, CallInv, Calling
<1>3. HandlerInv
  BY IdleProper DEF Init, RelayInit, HandlerInv, Relies
<1>4. RecordInv /\ RecoveryNeedsFiring
  BY DEF Init, RelayInit, NeverSent, RecordInv, RecoveryNeedsFiring
<1>5. AckedFiringWasTold /\ UnpairedOnlyByRelay
  BY DEF Init, NodeInit, Absent, AckedFiringWasTold, UnpairedOnlyByRelay
<1>6. QED
  BY <1>1, <1>2, <1>3, <1>4, <1>5 DEF DeliveryInv

LEMMA DeliveryStep == DeliveryInv /\ [Next]_vars => DeliveryInv'
BY TypeStep, CallStep, HandlerInvStep, RecordsStep, DaemonStep DEF DeliveryInv

(***************************************************************************)
(* The invariant of the pipeline: the types, the custody of requests, what *)
(* the handlers of deliver rely on, and the promises below.                *)
(***************************************************************************)
THEOREM Delivery == Spec => []DeliveryInv
<1>1. QED
  BY DeliveryInit, DeliveryStep, PTL DEF Spec

(***************************************************************************)
(* Every reachable state of the daemon, the relay and the requests between *)
(* them is well-typed.                                                     *)
(***************************************************************************)
THEOREM Types == Spec => []TypeOK
<1>1. DeliveryInv => TypeOK
  BY DEF DeliveryInv
<1>2. QED
  BY <1>1, Delivery, PTL

(***************************************************************************)
(* deliver's order of notify before SetLastSent: whatever last_sent says   *)
(* has been told, for every number of interleaved handlers and faults.     *)
(***************************************************************************)
THEOREM RecordsAreTold == Spec => []RecordedWasTold
<1>1. DeliveryInv => RecordedWasTold
  BY DEF DeliveryInv, RecordInv, RecordedWasTold
<1>2. QED
  BY <1>1, Delivery, PTL

(***************************************************************************)
(* deliver's "never fired" return: no recovery is told before a firing.    *)
(***************************************************************************)
THEOREM RecoveriesFollowFirings == Spec => []RecoveryNeedsFiring
<1>1. DeliveryInv => RecoveryNeedsFiring
  BY DEF DeliveryInv
<1>2. QED
  BY <1>1, Delivery, PTL

(***************************************************************************)
(* evaluate's acknowledgement: no 2xx drops a firing alert that the chat   *)
(* has never been told of.                                                 *)
(***************************************************************************)
THEOREM AcknowledgedFiringsWereTold == Spec => []AckedFiringWasTold
<1>1. DeliveryInv => AckedFiringWasTold
  BY DEF DeliveryInv
<1>2. QED
  BY <1>1, Delivery, PTL

(***************************************************************************)
(* send and authed: the daemon falls silent only when its node is gone.    *)
(***************************************************************************)
THEOREM UnpairedIsTrue == Spec => []UnpairedOnlyByRelay
<1>1. DeliveryInv => UnpairedOnlyByRelay
  BY DEF DeliveryInv
<1>2. QED
  BY <1>1, Delivery, PTL

-----------------------------------------------------------------------------
(***************************************************************************)
(* What is guaranteed as long as no client gives up while its handler      *)
(* works: requests, answers and reads may be lost, sends refused, alerts   *)
(* muted and rules switched, but a handler that has told the chat records  *)
(* it, and the daemon waits for it.  Then the daemon, the relay and the    *)
(* chat agree, and the pipeline implements the safety part of              *)
(* AlertChannel, for every set of alerts, details and handlers.            *)
(***************************************************************************)
SerialFaults == {"loseRequest", "loseReply", "mute", "refuse", "storeRead", "reload"}

\* A handler at work is the one that holds the daemon's call.
CustodyInv == \A s \in Slots : handler[s].pc # "idle" => call.at = s

Recording(a) == \E s \in Slots : handler[s].pc = "record" /\ handler[s].req.alert = a

\* What the relay remembers is what was told last, until a handler that has
\* told something else has recorded it.
MemoryInv == \A a \in Alerts : ~Recording(a) => lastSent[a].state = word[a]

\* What a handler knows of the chat's last word at each point of deliver.
Knows(pc, r) ==
    /\ pc = "record" => word[r.alert] = r.state
    /\ pc \in {"mute", "send"} /\ r.state = "ok" => word[r.alert] = "firing"
    /\ pc = "ok" => (r.state = "firing" <=> word[r.alert] = "firing")

KnowledgeInv ==
    \A s \in Slots : handler[s].req.alert \in Alerts
                        => Knows(handler[s].pc, handler[s].req)

\* No promise is held of an alert whose report is under way.
OpenInv ==
    Calling /\ call.req.alert \in Alerts =>
        ~rule[call.req.alert].acked \/ rule[call.req.alert].age = LongAgo

SerialInv ==
    /\ CustodyInv
    /\ MemoryInv
    /\ KnowledgeInv
    /\ OpenInv
    /\ AckedMeansHeard

Serial == DeliveryInv /\ SerialInv

-----------------------------------------------------------------------------
(***************************************************************************)
(* The moves of a handler, with what each does to the chat's last word and *)
(* to last_sent.                                                           *)
(***************************************************************************)
LEMMA SerialMoves ==
    ASSUME NEW s \in Slots, TypeOK, CallInv, Faults \subseteq SerialFaults,
           Handle(s) \/ HandlerFails(s)
    PROVE  LET r == handler[s].req
               pc == handler[s].pc
               next == handler'[s].pc
           IN  /\ UNCHANGED nodeVars
               /\ handler'[s].req = r
               /\ \A t \in Slots \ {s} : handler'[t] = handler[t]
               /\ \/ /\ UNCHANGED <<word, lastSent>>
                     /\ \/ pc = "lookup" /\ next = "ok" /\ Suppressed(r, lastSent[r.alert])
                        \/ pc = "lookup" /\ next = "mute" /\ ~Suppressed(r, lastSent[r.alert])
                        \/ pc = "mute" /\ next = "send"
                        \/ pc = "send" /\ next = "ok" /\ r.alert \notin Alerts
                        \/ pc \in {"lookup", "mute", "send"} /\ next = "error"
                  \/ /\ pc \in {"mute", "send"} /\ next = "record" /\ r.alert \in Alerts
                     /\ word' = [word EXCEPT ![r.alert] = r.state]
                     /\ UNCHANGED lastSent
                  \/ /\ pc = "record" /\ next = "ok" /\ r.alert \in Alerts
                     /\ UNCHANGED word
                     /\ lastSent' = [lastSent EXCEPT ![r.alert] =
                                        [state |-> r.state, age |-> handler[s].age]]
<1> DEFINE r == handler[s].req
<1>0. "ok" \in PCs /\ "error" \in PCs /\ "record" \in PCs /\ "send" \in PCs
  BY DEF PCs, Answers
<1>1. HandlerStep(s) /\ UNCHANGED nodeVars
  BY HandlerSteps
<1>2. r \in Report /\ Proper(r) /\ (r.alert # Started => r.alert \in Alerts)
  BY DEF TypeOK, RelayTypeOK, HandlerState, CallInv, Report
<1>3. handler'[s].req = r /\ \A t \in Slots \ {s} : handler'[t] = handler[t]
  BY <1>1, HandlerMoves
<1>4. CASE Lookup(s)
  BY <1>1, <1>3, <1>4, LookupMoves DEF Lookup
<1>5. CASE CheckMute(s)
  <2>1. handler[s].pc = "mute" /\ r.alert \in Alerts /\ UNCHANGED lastSent
    BY <1>2, <1>5 DEF CheckMute, CallInv
  <2>2. \/ handler'[s].pc = "send" /\ UNCHANGED word
        \/ handler'[s].pc = "record" /\ Tell(r)
    BY <1>0, <1>5, GotoMoves DEF CheckMute
  <2>3. QED
    BY <1>1, <1>3, <2>1, <2>2 DEF Tell
<1>6. CASE SendAccepted(s)
  <2>1. handler[s].pc = "send" /\ UNCHANGED lastSent /\ Tell(r)
    BY <1>6 DEF SendAccepted
  <2>2. \/ handler'[s].pc = "ok" /\ r.state = "info"
        \/ handler'[s].pc = "record" /\ r.state # "info"
    BY <1>0, <1>6, GotoMoves DEF SendAccepted
  <2>3. r.state = "info" => r.alert \notin Alerts
    BY <1>2, WireAssumption DEF Proper, Started
  <2>4. r.state # "info" => r.alert \in Alerts
    BY <1>2 DEF Proper
  <2>5. QED
    BY <1>1, <1>3, <2>1, <2>2, <2>3, <2>4 DEF Tell
<1>7. CASE Record(s)
  BY <1>0, <1>1, <1>2, <1>3, <1>7, GotoMoves DEF Record, CallInv
<1>8. CASE HandlerFails(s)
  <2>1. SendFailed(s) \/ StoreFails(s, {"lookup", "mute"})
    BY <1>8 DEF HandlerFails, SerialFaults
  <2>2. /\ handler[s].pc \in {"lookup", "mute", "send"}
        /\ handler'[s].pc = "error"
        /\ UNCHANGED <<word, lastSent>>
    BY <1>0, <2>1, GotoMoves DEF SendFailed, StoreFails
  <2>3. QED
    BY <1>1, <1>3, <2>2
<1>9. QED
  BY <1>4, <1>5, <1>6, <1>7, <1>8 DEF Handle

\* No more than one handler works.
LEMMA OneHandler ==
    ASSUME CustodyInv, NEW s \in Slots, NEW t \in Slots,
           handler[s].pc # "idle", handler[t].pc # "idle"
    PROVE  s = t
BY DEF CustodyInv

LEMMA QuietRelay ==
    ASSUME CustodyInv, call.at \notin Slots
    PROVE  \A s \in Slots : handler[s].pc = "idle"
BY DEF CustodyInv

(***************************************************************************)
(* What the relay and its handlers know of the chat.                       *)
(***************************************************************************)
\* Nothing is told and nothing recorded, and no handler gets to know more.
LEMMA ChatStays ==
    ASSUME MemoryInv, KnowledgeInv, UNCHANGED word,
           \A a \in Alerts : lastSent'[a].state = lastSent[a].state,
           \A t \in Slots :
              \/ handler'[t].pc = handler[t].pc /\ handler'[t].req = handler[t].req
              \/ /\ handler[t].pc # "record" /\ handler'[t].pc # "record"
                 /\ \/ handler'[t].pc \in {"idle", "lookup", "error", "unknown"}
                    \/ handler'[t].req.alert \notin Alerts
    PROVE  MemoryInv' /\ KnowledgeInv'
<1>1. \A a \in Alerts : Recording(a) => Recording(a)'
  BY DEF Recording
<1>2. MemoryInv'
  BY <1>1 DEF MemoryInv
<1>3. KnowledgeInv'
  BY DEF KnowledgeInv, Knows
<1>4. QED
  BY <1>2, <1>3

LEMMA RelayKnows ==
    ASSUME NEW s \in Slots, Serial, Faults \subseteq SerialFaults,
           Handle(s) \/ HandlerFails(s)
    PROVE  MemoryInv' /\ KnowledgeInv'
<1> DEFINE r == handler[s].req
           pc == handler[s].pc
           next == handler'[s].pc
<1>0. /\ TypeOK /\ CallInv /\ CustodyInv /\ MemoryInv /\ KnowledgeInv
      /\ r \in Report /\ Proper(r)
  BY DEF Serial, SerialInv, DeliveryInv, TypeOK, RelayTypeOK, HandlerState, CallInv
<1>1. /\ handler'[s].req = r
      /\ \A t \in Slots \ {s} : handler'[t] = handler[t]
  BY <1>0, SerialMoves
<1>2. pc # "idle" => \A t \in Slots \ {s} : handler[t].pc = "idle"
  BY <1>0, OneHandler
<1>3. r.alert \in Alerts => r.state \in {"firing", "ok"}
  BY <1>0, WireAssumption DEF Proper, Report, States, Words, Started
<1>4. pc \notin {"record", "idle"} => (r.alert \in Alerts => lastSent[r.alert].state = word[r.alert])
  BY <1>0, <1>2 DEF MemoryInv, Recording
<1>5. r.alert \in Alerts => Knows(pc, r)
  BY <1>0 DEF KnowledgeInv
<1>6. CASE UNCHANGED <<word, lastSent>> /\ pc \notin {"record", "idle"} /\ next # "record"
  <2>1. MemoryInv'
    BY <1>0, <1>1, <1>2, <1>6 DEF MemoryInv, Recording
  <2>2. r.alert \in Alerts => Knows(next, r)
    BY <1>0, <1>3, <1>4, <1>5, <1>6, SerialMoves DEF Knows, Suppressed
  <2>3. KnowledgeInv'
    BY <1>0, <1>1, <1>2, <1>6, <2>2 DEF KnowledgeInv, Knows
  <2>4. QED
    BY <2>1, <2>3
<1>7. CASE /\ pc \in {"mute", "send"} /\ next = "record" /\ r.alert \in Alerts
           /\ word' = [word EXCEPT ![r.alert] = r.state]
           /\ UNCHANGED lastSent
  <2>1. \A a \in Alerts : word'[a] = IF a = r.alert THEN r.state ELSE word[a]
    BY <1>0, <1>7 DEF TypeOK, RelayTypeOK
  <2>2. MemoryInv'
    BY <1>0, <1>1, <1>2, <1>7, <2>1 DEF MemoryInv, Recording
  <2>3. KnowledgeInv'
    BY <1>0, <1>1, <1>2, <1>7, <2>1 DEF KnowledgeInv, Knows
  <2>4. QED
    BY <2>2, <2>3
<1>8. CASE /\ pc = "record" /\ next = "ok" /\ r.alert \in Alerts
           /\ UNCHANGED word
           /\ lastSent' = [lastSent EXCEPT ![r.alert] =
                              [state |-> r.state, age |-> handler[s].age]]
  <2>1. \A a \in Alerts : lastSent'[a].state = IF a = r.alert THEN r.state
                                                              ELSE lastSent[a].state
    BY <1>0, <1>8 DEF TypeOK, RelayTypeOK
  <2>2. word[r.alert] = r.state
    BY <1>5, <1>8 DEF Knows
  <2>3. MemoryInv'
    BY <1>0, <1>1, <1>2, <1>8, <2>1, <2>2 DEF MemoryInv, Recording
  <2>4. KnowledgeInv'
    BY <1>0, <1>1, <1>2, <1>3, <1>8, <2>2 DEF KnowledgeInv, Knows
  <2>5. QED
    BY <2>3, <2>4
<1>9. QED
  BY <1>0, <1>6, <1>7, <1>8, SerialMoves

-----------------------------------------------------------------------------
(***************************************************************************)
(* What the daemon believes.                                               *)
(***************************************************************************)
\* An acknowledgement, of either word, that has not aged away.
Fresh(r) == r.known /\ r.acked /\ r.age < Reminder

\* Steps that make no acknowledgement fresh keep the daemon right.
LEMMA FreshStays ==
    ASSUME AckedMeansHeard, UNCHANGED word,
           \A a \in Alerts : Fresh(rule'[a])
              => Fresh(rule[a]) /\ (rule'[a].firing <=> rule[a].firing)
    PROVE  AckedMeansHeard'
BY DEF AckedMeansHeard, Fresh

LEMMA JudgedFresh ==
    ASSUME NEW a \in Alerts, NEW prev \in RuleState, NEW d \in Results,
           Fresh(Judged(a, prev, d))
    PROVE  Fresh(prev) /\ (Judged(a, prev, d).firing <=> prev.firing)
BY WireAssumption DEF Judged, Baseline, Fresh, LongAgo, RuleState

LEMMA NothingFresh == ~Fresh(Absent) /\ \A d : ~Fresh(Baseline(d))
BY WireAssumption DEF Absent, Baseline, Fresh, LongAgo

LEMMA StepFresh ==
    ASSUME TypeOK, StepBegin, NEW a \in Alerts, Fresh(rule'[a])
    PROVE  Fresh(rule[a]) /\ (rule'[a].firing <=> rule[a].firing)
<1>1. rule[a] \in RuleState /\ rule[a].age \in Ages /\ elapsed \in Ages
  BY DEF TypeOK, NodeTypeOK, RuleState
<1>2. CASE baselined
  <2>1. rule'[a] = [rule[a] EXCEPT !.age = IF rule[a].age + elapsed < Reminder
                                           THEN rule[a].age + elapsed ELSE LongAgo]
    BY <1>2 DEF StepBegin
  <2>2. QED
    BY <1>1, <2>1, WireAssumption DEF Fresh, RuleState, Ages, LongAgo
<1>3. CASE ~baselined
  <2>1. rule'[a] = rule[a] \/ rule'[a] = Baseline(result'[a])
    BY <1>3 DEF StepBegin
  <2>2. QED
    BY <2>1, NothingFresh
<1>4. QED
  BY <1>2, <1>3 DEF TypeOK, NodeTypeOK

LEMMA TurnFresh ==
    ASSUME TypeOK, NEW b \in Alerts, Evaluate(b), NEW a \in Alerts, Fresh(rule'[a])
    PROVE  Fresh(rule[a]) /\ (rule'[a].firing <=> rule[a].firing)
<1>1. rule[b] \in RuleState /\ result[b] \in Results
  BY DEF TypeOK, NodeTypeOK
<1>2. \/ rule'[a] = rule[a]
      \/ rule'[a] = Absent
      \/ a = b /\ rule'[a] = Judged(b, rule[b], result[b])
  BY DEF Evaluate, TypeOK, NodeTypeOK
<1>3. QED
  BY <1>1, <1>2, NothingFresh, JudgedFresh

\* A report is posted only for an alert that is owed one.
LEMMA TurnOwes ==
    ASSUME TypeOK, NEW b \in Alerts, Evaluate(b)
    PROVE  OpenInv'
<1> DEFINE r == Judged(b, rule[b], result[b])
<1>1. CASE b \notin enabled
  BY <1>1 DEF Evaluate, OpenInv, Calling
<1>2. CASE b \in enabled /\ call' = NoCall
  BY <1>2 DEF OpenInv, Calling, NoCall
<1>3. CASE b \in enabled /\ call' # NoCall
  <2>1. NeedSend(b, r) /\ call'.req.alert = b
    BY <1>2, <1>3 DEF Evaluate, Post
  <2>2. rule'[b] = r
    BY <1>3 DEF Evaluate, TypeOK, NodeTypeOK
  <2>3. QED
    BY <2>1, <2>2 DEF OpenInv, NeedSend
<1>4. QED
  BY <1>1, <1>2, <1>3

\* An answer that is no acknowledgement changes no rule.
LEMMA ErrorReturns ==
    ASSUME TypeOK, NEW answer, SendReturns(answer), answer # "ok"
    PROVE  UNCHANGED <<rule, elapsed>> /\ call' = NoCall
BY DEF SendReturns

\* A 2xx acknowledges what the chat heard last.
LEMMA ReplyIsRight ==
    ASSUME NEW s \in Slots, Serial, Reply(s)
    PROVE  AckedMeansHeard' /\ call' = NoCall
<1> DEFINE b == call.req.alert
<1>0. TypeOK /\ CallInv /\ CustodyInv /\ KnowledgeInv /\ AckedMeansHeard
  BY DEF Serial, SerialInv, DeliveryInv
<1>1. /\ handler[s].pc # "idle"
      /\ UNCHANGED word
  BY DEF Reply, Finish, Answers
<1>2. call.at = s /\ handler[s].req = call.req /\ SendReturns(handler[s].pc)
  BY <1>0, <1>1 DEF CustodyInv, CallInv, Reply
<1>3. CASE handler[s].pc = "ok" /\ b \in Alerts
  <2>1. /\ rule'[b].firing = rule[b].firing
        /\ \A a \in Alerts \ {b} : rule'[a] = rule[a]
    BY <1>0, <1>2, <1>3 DEF SendReturns, TypeOK, NodeTypeOK, RuleState
  <2>2. rule[b].firing <=> call.req.state = "firing"
    BY <1>0, <1>2, <1>3, PipelineAssumption DEF CallInv, Calling
  <2>3. call.req.state = "firing" <=> word[b] = "firing"
    BY <1>0, <1>2, <1>3 DEF KnowledgeInv, Knows
  <2>4. QED
    BY <1>0, <1>1, <1>2, <2>1, <2>2, <2>3 DEF AckedMeansHeard, SendReturns
<1>4. CASE ~(handler[s].pc = "ok" /\ b \in Alerts)
  BY <1>0, <1>1, <1>2, <1>4 DEF SendReturns, AckedMeansHeard
<1>5. QED
  BY <1>3, <1>4

-----------------------------------------------------------------------------
(***************************************************************************)
(* SerialInv is inductive relative to DeliveryInv.                         *)
(***************************************************************************)
LEMMA SerialInit == Init => SerialInv
<1> SUFFICES ASSUME Init PROVE SerialInv
  OBVIOUS
<1>1. CustodyInv /\ KnowledgeInv
  BY IdleProper DEF Init, RelayInit, CustodyInv, KnowledgeInv, Knows
<1>2. MemoryInv
  BY DEF Init, RelayInit, NeverSent, MemoryInv
<1>3. OpenInv
  BY DEF Init, NodeInit, NoCall, OpenInv, Calling
<1>4. AckedMeansHeard
  BY DEF Init, NodeInit, Absent, AckedMeansHeard
<1>5. QED
  BY <1>1, <1>2, <1>3, <1>4 DEF SerialInv

LEMMA SerialStep ==
    ASSUME Serial, Faults \subseteq SerialFaults, [Next]_vars
    PROVE  SerialInv'
<1> USE DEF nodeVars, relayVars
<1>0. /\ TypeOK /\ CallInv
      /\ CustodyInv /\ MemoryInv /\ KnowledgeInv /\ OpenInv /\ AckedMeansHeard
  BY DEF Serial, SerialInv, DeliveryInv
<1>c. \A s \in Slots : s # "none" /\ s # "wire"
  BY PipelineAssumption
<1>s. ASSUME UNCHANGED <<word, lastSent, handler>>
      PROVE  MemoryInv' /\ KnowledgeInv'
  BY <1>0, <1>s DEF MemoryInv, KnowledgeInv, Knows, Recording
\* The daemon loses its answer while no handler works, or with the handler.
<1>e. ASSUME NEW answer, SendReturns(answer), answer # "ok", UNCHANGED word
      PROVE  OpenInv' /\ AckedMeansHeard' /\ call'.at = "none"
  BY <1>0, <1>e, ErrorReturns DEF OpenInv, Calling, NoCall, AckedMeansHeard
<1>1. CASE Step
  <2>1. ~Calling /\ UNCHANGED relayVars /\ (call'.at = "none" \/ call'.req.alert = Started)
    BY <1>0, <1>1 DEF Step, StepBegin, Resting, NoCall, Post, Calling
  <2>2. CustodyInv'
    BY <1>0, <1>c, <2>1, QuietRelay DEF CustodyInv, Calling
  <2>3. OpenInv'
    BY <2>1, WireAssumption DEF OpenInv, Calling, Started
  <2>4. AckedMeansHeard'
    BY <1>0, <1>1, <2>1, StepFresh, FreshStays DEF Step
  <2>5. QED
    BY <1>s, <2>1, <2>2, <2>3, <2>4 DEF SerialInv
<1>2. ASSUME NEW a \in Alerts, Turn(a) PROVE SerialInv'
  <2>1. ~Calling /\ UNCHANGED relayVars /\ Evaluate(a)
    BY <1>2 DEF Turn, Evaluate
  <2>2. CustodyInv'
    BY <1>0, <1>c, <2>1, QuietRelay DEF CustodyInv, Calling
  <2>3. OpenInv'
    BY <1>0, <2>1, TurnOwes
  <2>4. AckedMeansHeard'
    BY <1>0, <2>1, TurnFresh, FreshStays
  <2>5. QED
    BY <1>s, <2>1, <2>2, <2>3, <2>4 DEF SerialInv
<1>3. ASSUME NEW a \in Alerts, DaemonReload(a) PROVE SerialInv'
  BY <1>0, <1>3, <1>s
  DEF DaemonReload, Reload, SerialInv, CustodyInv, OpenInv, Calling, AckedMeansHeard
<1>4. CASE DaemonRestart
  BY <1>4 DEF DaemonRestart, SerialFaults
<1>5. CASE Heartbeat
  BY <1>0, <1>5, <1>s
  DEF Heartbeat, HeartbeatRefused, SerialInv, CustodyInv, OpenInv, Calling, AckedMeansHeard
<1>6. CASE LoseRequest
  <2>1. call.at \notin Slots /\ UNCHANGED relayVars /\ SendReturns("error")
    BY <1>6, <1>c DEF LoseRequest
  <2>2. CustodyInv'
    BY <1>0, <2>1, QuietRelay DEF CustodyInv
  <2>3. QED
    BY <1>e, <1>s, <2>1, <2>2 DEF SerialInv
<1>7. ASSUME NEW s \in Slots, Arrive(s) PROVE SerialInv'
  <2>1. /\ call.at = "wire" /\ call'.at = s /\ call'.req = call.req
        /\ UNCHANGED <<rule, word, lastSent>>
        /\ \A t \in Slots \ {s} : handler'[t] = handler[t]
    BY <1>0, <1>7 DEF Arrive, Accept, TypeOK, NodeTypeOK, RelayTypeOK, CallState
  <2>2. \A t \in Slots : handler[t].pc = "idle"
    BY <1>0, <1>c, <2>1, QuietRelay
  <2>3. \/ handler'[s].pc \in {"lookup", "unknown"}
        \/ handler'[s].pc = "send" /\ handler'[s].req.alert \notin Alerts
    BY <1>0, <1>7, WireAssumption
    DEF Arrive, Accept, TypeOK, RelayTypeOK, CallInv, Proper, Started
  <2>4. MemoryInv' /\ KnowledgeInv'
    BY <1>0, <2>1, <2>2, <2>3, ChatStays
  <2>5. CustodyInv' /\ OpenInv' /\ AckedMeansHeard'
    BY <1>0, <1>c, <2>1, <2>2 DEF CustodyInv, OpenInv, Calling, AckedMeansHeard
  <2>6. QED
    BY <2>4, <2>5 DEF SerialInv
<1>8. ASSUME NEW s \in Slots, Handle(s) \/ HandlerFails(s) PROVE SerialInv'
  <2>1. MemoryInv' /\ KnowledgeInv'
    BY <1>8, RelayKnows
  <2>2. /\ UNCHANGED nodeVars
        /\ handler[s].pc # "idle"
        /\ \A t \in Slots \ {s} : handler'[t] = handler[t]
    BY <1>0, <1>8, SerialMoves
  <2>3. CustodyInv' /\ OpenInv'
    BY <1>0, <2>2 DEF CustodyInv, OpenInv, Calling
  <2>4. AckedMeansHeard'
    <3>1. call.at = s /\ call.req = handler[s].req /\ Calling
      BY <1>0, <1>c, <2>2 DEF CustodyInv, CallInv, Calling
    <3>2. \A a \in Alerts : a # call.req.alert => word'[a] = word[a]
      <4>1. \/ word' = word
            \/ word' = [word EXCEPT ![handler[s].req.alert] = handler[s].req.state]
        BY <1>0, <1>8, SerialMoves
      <4>2. word \in [Alerts -> Words \cup {""}]
        BY <1>0 DEF TypeOK, RelayTypeOK
      <4>3. QED
        BY <3>1, <4>1, <4>2
    <3>3. call.req.alert \in Alerts => ~Fresh(rule[call.req.alert])
      BY <1>0, <3>1, WireAssumption DEF OpenInv, Fresh, LongAgo
    <3>4. QED
      BY <1>0, <2>2, <3>2, <3>3, Zenon DEF AckedMeansHeard, Fresh, nodeVars
  <2>5. QED
    BY <2>1, <2>3, <2>4 DEF SerialInv
<1>9. ASSUME NEW s \in Slots, Reply(s) \/ LoseReply(s) PROVE SerialInv'
  <2>1. /\ handler[s].pc \notin {"idle", "record"} /\ handler'[s] = Idle
        /\ \A t \in Slots \ {s} : handler'[t] = handler[t]
        /\ UNCHANGED <<word, lastSent>>
    BY <1>0, <1>9 DEF Reply, LoseReply, Finish, Answers, TypeOK, RelayTypeOK
  <2>2. MemoryInv' /\ KnowledgeInv'
    BY <1>0, <2>1, IdleProper, ChatStays
  <2>3. CustodyInv'
    BY <1>0, <2>1, OneHandler, IdleProper DEF CustodyInv
  <2>4. AckedMeansHeard' /\ call'.at = "none"
    <3>1. CASE Reply(s)
      BY <3>1, ReplyIsRight DEF NoCall
    <3>2. CASE LoseReply(s)
      BY <1>e, <2>1, <3>2 DEF LoseReply
    <3>3. QED
      BY <1>9, <3>1, <3>2
  <2>5. QED
    BY <2>2, <2>3, <2>4 DEF SerialInv, OpenInv, Calling
<1>10. ASSUME NEW s \in Slots, Abandon(s) PROVE SerialInv'
  BY <1>10 DEF Abandon, SerialFaults
<1>11. CASE RelayRestart
  BY <1>11 DEF RelayRestart, SerialFaults
<1>12. CASE User
  <2>1. UNCHANGED <<word, lastSent, handler, rule, call>>
    BY <1>12 DEF User, Mute, Unmute, SerialFaults
  <2>2. QED
    BY <1>0, <1>s, <2>1
    DEF SerialInv, CustodyInv, OpenInv, Calling, AckedMeansHeard
<1>13. CASE Tick
  <2>1. /\ UNCHANGED <<word, rule, call>>
        /\ \A a \in Alerts : lastSent'[a].state = lastSent[a].state
        /\ \A t \in Slots : handler'[t].pc = handler[t].pc /\ handler'[t].req = handler[t].req
    BY <1>0, <1>13 DEF Tick, RelayTick, TypeOK, RelayTypeOK, HandlerState
  <2>2. MemoryInv' /\ KnowledgeInv'
    BY <1>0, <2>1, ChatStays
  <2>3. QED
    BY <1>0, <2>1, <2>2
    DEF SerialInv, CustodyInv, OpenInv, Calling, AckedMeansHeard
<1>14. CASE UNCHANGED vars
  BY <1>0, <1>14, <1>s
  DEF vars, SerialInv, CustodyInv, OpenInv, Calling, AckedMeansHeard
<1>15. QED
  BY <1>1, <1>2, <1>3, <1>4, <1>5, <1>6, <1>7, <1>8, <1>9, <1>10, <1>11,
     <1>12, <1>13, <1>14 DEF Next

(***************************************************************************)
(* The invariant of the pipeline while no client gives up: custody of the  *)
(* request, what the relay remembers and what its handler knows of the     *)
(* chat, and what the daemon may believe.                                  *)
(***************************************************************************)
THEOREM SerialDelivery ==
    ASSUME Faults \subseteq SerialFaults
    PROVE  Spec => []Serial
<1>1. Init => Serial
  BY DeliveryInit, SerialInit DEF Serial
<1>2. Serial /\ [Next]_vars => Serial'
  BY DeliveryStep, SerialStep DEF Serial
<1>3. QED
  BY <1>1, <1>2, PTL DEF Spec

(***************************************************************************)
(* dispatchSync's acknowledgement and deliver's suppression together: what *)
(* the daemon holds as acknowledged is what the chat last heard.           *)
(***************************************************************************)
THEOREM AcknowledgedIsHeard ==
    ASSUME Faults \subseteq SerialFaults
    PROVE  Spec => []AckedMeansHeard
<1>1. Serial => AckedMeansHeard
  BY DEF Serial, SerialInv
<1>2. QED
  BY <1>1, SerialDelivery, PTL

-----------------------------------------------------------------------------
(***************************************************************************)
(* The steps in which the chat hears something.                            *)
(***************************************************************************)
\* A report that is told is true, and a recovery follows a firing.
LEMMA ToldIsTrue ==
    ASSUME NEW s \in Slots, Serial, Faults \subseteq SerialFaults,
           Handle(s) \/ HandlerFails(s), word' # word
    PROVE  LET r == handler[s].req
           IN  /\ UNCHANGED rule
               /\ r.alert \in Alerts
               /\ word' = [word EXCEPT ![r.alert] = r.state]
               /\ \/ r.state = "firing" /\ rule[r.alert].firing
                  \/ r.state = "ok" /\ ~rule[r.alert].firing /\ word[r.alert] = "firing"
<1> DEFINE r == handler[s].req
<1>0. TypeOK /\ CallInv /\ CustodyInv /\ KnowledgeInv /\ r \in Report /\ Proper(r)
  BY DEF Serial, SerialInv, DeliveryInv, TypeOK, RelayTypeOK, HandlerState, CallInv
<1>1. /\ UNCHANGED nodeVars
      /\ handler[s].pc \in {"mute", "send"}
      /\ r.alert \in Alerts
      /\ word' = [word EXCEPT ![r.alert] = r.state]
  BY <1>0, SerialMoves
<1>2. call.at = s /\ call.req = r /\ Calling
  BY <1>0, <1>1, PipelineAssumption DEF CustodyInv, CallInv, Calling
<1>3. rule[r.alert].firing <=> r.state = "firing"
  BY <1>0, <1>1, <1>2 DEF CallInv
<1>4. r.state \in {"firing", "ok"}
  BY <1>0, <1>1, WireAssumption DEF Proper, Report, States, Words, Started
<1>5. r.state = "ok" => word[r.alert] = "firing"
  BY <1>0, <1>1 DEF KnowledgeInv, Knows
<1>6. QED
  BY <1>1, <1>3, <1>4, <1>5 DEF nodeVars

\* No other step does.
LEMMA OthersTellNothing ==
    ASSUME TypeOK, [Next]_vars, word' # word
    PROVE  \E s \in Slots : Handle(s) \/ HandlerFails(s)
BY DEF Next, Step, Turn, DaemonReload, DaemonRestart, Heartbeat, LoseRequest, Arrive,
       Accept, Reply, LoseReply, Abandon, Finish, RelayRestart, RelayCrash, User, Mute,
       Unmute, Unpair, Tick, RelayTick, vars, relayVars

(***************************************************************************)
(* deliver's "ok after ok" and "never fired" returns: a recovery is told   *)
(* only to a chat whose last word on the alert is "firing".                *)
(***************************************************************************)
THEOREM RecoveriesAreNews ==
    ASSUME Faults \subseteq SerialFaults
    PROVE  Spec => NoRepeatedRecovery
<1>1. ASSUME Serial, NEW s \in Slots, handler[s].pc \in {"mute", "send"},
             handler'[s].pc = "record", handler[s].req.state = "ok", [Next]_vars
      PROVE  word[handler[s].req.alert] = "firing"
  <2>1. handler[s].req.alert \in Alerts
    BY <1>1 DEF Serial, DeliveryInv, TypeOK, RelayTypeOK, HandlerState, CallInv,
                Proper, Report
  <2>2. QED
    BY <1>1, <2>1 DEF Serial, SerialInv, KnowledgeInv, Knows
<1>2. Serial /\ [Next]_vars =>
        [\A s \in Slots :
           handler[s].pc \in {"mute", "send"} /\ handler'[s].pc = "record"
               /\ handler[s].req.state = "ok"
             => word[handler[s].req.alert] = "firing"]_vars
  BY <1>1
<1>3. QED
  BY <1>2, SerialDelivery, PTL DEF Spec, NoRepeatedRecovery

(***************************************************************************)
(* The daemon, HTTP and the relay together make every move of the abstract *)
(* channel or none: the chat is told the truth the daemon holds, and a     *)
(* recovery only after a firing (the safety part of ChannelSpec).          *)
(***************************************************************************)
THEOREM PipelineIsChannel ==
    ASSUME Faults \subseteq SerialFaults
    PROVE  Spec => Channel!Init /\ [][Channel!Next]_(Channel!channelVars)
<1>1. Init => Channel!Init
  <2> SUFFICES ASSUME Init PROVE Channel!Init
    OBVIOUS
  <2>1. \A a \in Alerts : rule[a].firing = FALSE
    BY DEF Init, NodeInit, Absent
  <2>2. [a \in Alerts |-> rule[a].firing] = [a \in Alerts |-> FALSE]
    BY <2>1, Zenon
  <2>3. QED
    BY <2>2 DEF Init, RelayInit, Channel!Init
<1>2. ASSUME Serial, [Next]_vars, Serial'
      PROVE  [Channel!Next]_(Channel!channelVars)
  <2>1. CASE word' = word
    <3>1. [a \in Alerts |-> rule[a].firing]' \in [Alerts -> BOOLEAN]
      BY <1>2 DEF Serial, DeliveryInv, TypeOK, NodeTypeOK, RuleState
    <3>2. QED
      BY <2>1, <3>1 DEF Channel!Next, Channel!Observe
  <2>2. CASE word' # word
    <3>1. PICK s \in Slots : Handle(s) \/ HandlerFails(s)
      BY <1>2, <2>2, OthersTellNothing DEF Serial, DeliveryInv
    <3>2. QED
      BY <1>2, <2>2, <3>1, ToldIsTrue
      DEF Channel!Next, Channel!Tell, Channel!TellFiring, Channel!TellRecovery
  <2>3. QED
    BY <2>1, <2>2
<1>3. QED
  BY <1>1, <1>2, SerialDelivery, PTL DEF Spec
=============================================================================
