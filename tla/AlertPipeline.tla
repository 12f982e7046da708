---------------------------- MODULE AlertPipeline ----------------------------
(***************************************************************************)
(* A node's daemon and the relay, joined by HTTP requests that can be      *)
(* lost, answered too late or not at all.  CONSTANT Faults names the       *)
(* events of the environment that a run allows.                            *)
(***************************************************************************)
EXTENDS NodeDaemon, RelayDelivery

CONSTANT Faults

FaultNames == {"loseRequest", "loseReply", "abandon", "restart", "reload",
               "mute", "refuse", "unsure", "storeRead", "storeWrite",
               "relayCrash", "unpair"}

ASSUME PipelineAssumption ==
    /\ Faults \subseteq FaultNames
    /\ Slots \cap {"none", "wire"} = {}
    /\ Slots # {}

vars == <<nodeVars, relayVars>>

Init == NodeInit /\ RelayInit

-----------------------------------------------------------------------------
\* The daemon alone.
Step == StepBegin /\ UNCHANGED relayVars
Turn(a) == Evaluate(a) /\ UNCHANGED relayVars
DaemonRestart == "restart" \in Faults /\ Restart /\ UNCHANGED relayVars
DaemonReload(a) == "reload" \in Faults /\ Reload(a) /\ UNCHANGED relayVars

Heartbeat == ~paired /\ HeartbeatRefused /\ UNCHANGED relayVars

\* The request reaches the relay.
Arrive(s) ==
    /\ call.at = "wire"
    /\ Accept(s, call.req)
    /\ call' = [call EXCEPT !.at = s]
    /\ UNCHANGED <<enabled, rule, baselined, result, todo, elapsed, unpaired>>

\* The request never reaches deliver: no connection, a rate limit, a clock
\* outside the replay window, a store error in authed.
LoseRequest ==
    /\ "loseRequest" \in Faults
    /\ call.at = "wire"
    /\ SendReturns("error")
    /\ UNCHANGED relayVars

\* The handler's answer is written: to the daemon if it still waits for it.
Reply(s) ==
    /\ Finish(s)
    /\ IF call.at = s THEN SendReturns(handler[s].pc) ELSE UNCHANGED nodeVars

\* The answer is lost with the connection.
LoseReply(s) ==
    /\ "loseReply" \in Faults
    /\ call.at = s
    /\ Finish(s)
    /\ SendReturns("error")

\* The client's 15 s timeout: the handler goes on for up to 30 s.
Abandon(s) ==
    /\ "abandon" \in Faults
    /\ call.at = s
    /\ SendReturns("error")
    /\ UNCHANGED relayVars

\* The relay alone.
Handle(s) ==
    /\ \/ Lookup(s)
       \/ CheckMute(s)
       \/ SendAccepted(s)
       \/ Record(s)
    /\ UNCHANGED nodeVars

HandlerFails(s) ==
    /\ \/ "refuse" \in Faults /\ SendFailed(s)
       \/ "unsure" \in Faults /\ SendUnsure(s)
       \/ "storeRead" \in Faults /\ StoreFails(s, {"lookup", "mute"})
       \/ "storeWrite" \in Faults /\ StoreFails(s, {"record"})
    /\ UNCHANGED nodeVars

RelayRestart ==
    /\ "relayCrash" \in Faults
    /\ RelayCrash
    /\ IF call.at \in Slots THEN SendReturns("error") ELSE UNCHANGED nodeVars

User ==
    /\ \/ "mute" \in Faults /\ \E a \in Alerts : Mute(a) \/ Unmute(a)
       \/ "unpair" \in Faults /\ Unpair
    /\ UNCHANGED nodeVars

Tick ==
    /\ elapsed' = Older(elapsed)
    /\ RelayTick
    /\ UNCHANGED <<enabled, rule, baselined, result, todo, call, unpaired>>

Next ==
    \/ Step
    \/ \E a \in Alerts : Turn(a) \/ DaemonReload(a)
    \/ DaemonRestart
    \/ Heartbeat
    \/ LoseRequest
    \/ \E s \in Slots :
          Arrive(s) \/ Handle(s) \/ HandlerFails(s) \/ Reply(s) \/ LoseReply(s)
                    \/ Abandon(s)
    \/ RelayRestart
    \/ User
    \/ Tick

Spec == Init /\ [][Next]_vars

(***************************************************************************)
(* The daemon's loop, the relay's handlers and the clock never stop, and   *)
(* whatever can fail for an alert does not fail for ever: its requests     *)
(* arrive, its store and Telegram calls succeed and its answers come back  *)
(* again and again if they are tried again and again (strong fairness of   *)
(* the good outcomes).  Nothing is assumed of faults or of users.          *)
(***************************************************************************)
Fairness ==
    /\ WF_vars(Step)
    /\ \A a \in Alerts : WF_vars(Turn(a))
    /\ WF_vars(Tick)
    /\ \A s \in Slots : WF_vars(Handle(s) \/ HandlerFails(s) \/ Reply(s))
    /\ \A a \in Alerts \cup {Started} :
         /\ SF_vars(\E s \in Slots : Arrive(s) /\ call.req.alert = a)
         /\ SF_vars(\E s \in Slots : Reply(s) /\ call.at = s /\ call.req.alert = a)
    /\ \A a \in Alerts, pc \in {"lookup", "mute", "send", "record"} :
         SF_vars(\E s \in Slots : Handle(s) /\ handler[s].req.alert = a
                                            /\ handler[s].pc = pc)

FairSpec == Spec /\ Fairness

-----------------------------------------------------------------------------
TypeOK == NodeTypeOK /\ RelayTypeOK

(***************************************************************************)
(* "The relay records an alert as sent only after Telegram accepted it",   *)
(* or after a mute withheld it (website/docs/alerts/rules.md:46): whatever *)
(* last_sent says has been told, however handlers interleave.              *)
(***************************************************************************)
RecordedWasTold ==
    \A a \in Alerts : lastSent[a].state # "" => lastSent[a].state \in told[a]

(***************************************************************************)
(* No recovery is announced for an alert that was never announced as       *)
(* firing: deliver's "never fired as far as the relay knows" return.       *)
(***************************************************************************)
RecoveryNeedsFiring == \A a \in Alerts : "ok" \in told[a] => "firing" \in told[a]

(***************************************************************************)
(* A transition the daemon holds as acknowledged after a send has reached  *)
(* the chat: no path through the relay answers 2xx and drops a firing      *)
(* alert the chat has not been told of.                                    *)
(***************************************************************************)
AckedFiringWasTold ==
    \A a \in Alerts :
        rule[a].firing /\ rule[a].acked /\ rule[a].age < Reminder
            => "firing" \in told[a]

(***************************************************************************)
(* "Store or transport errors never turn into 'unpaired'; only an unknown  *)
(* node id does" (website/docs/alerts/relay.md:49).                        *)
(***************************************************************************)
UnpairedOnlyByRelay == unpaired => ~paired

(***************************************************************************)
(* What the daemon holds as acknowledged is what the chat last heard: an   *)
(* acknowledged firing was the last word, and after an acknowledged        *)
(* recovery the last word is not "firing".                                 *)
(***************************************************************************)
AckedMeansHeard ==
    \A a \in Alerts :
        rule[a].known /\ rule[a].acked /\ rule[a].age < Reminder
            => (rule[a].firing <=> word[a] = "firing")

(***************************************************************************)
(* A chat does not hear the same recovery twice: every "ok" told follows   *)
(* a "firing".                                                             *)
(***************************************************************************)
NoRepeatedRecovery ==
    [][\A s \in Slots :
         handler[s].pc \in {"mute", "send"} /\ handler'[s].pc = "record"
             /\ handler[s].req.state = "ok"
           => word[handler[s].req.alert] = "firing"]_vars

(***************************************************************************)
(* An acknowledged informational alert was told with the detail the daemon *)
(* holds: "a changed detail ... is a new event" (daemon.go:184).           *)
(***************************************************************************)
AckedDetailHeard ==
    \A a \in InfoAlerts :
        rule[a].firing /\ rule[a].acked /\ rule[a].age < Reminder
            => heard[a] = rule[a].detail

(***************************************************************************)
(* "Every alert has a recovery message" (website/docs/alerts/rules.md:43): *)
(* a rule that stays clear does not stay "firing" in the chat.             *)
(***************************************************************************)
RecoveryHeard ==
    \A a \in Alerts :
        <>[](result[a] = NoDetail) => []<>(word[a] # "firing")

(***************************************************************************)
(* An alert that stays firing becomes, and stays, the chat's last word,    *)
(* whatever is lost, late, repeated or forgotten on the way, once the      *)
(* daemon stops being restarted: the reminder repairs it.                  *)
(***************************************************************************)
FiringHeard ==
    \A a \in Alerts \ InfoAlerts :
        <>[](baselined /\ result[a] # NoDetail) => <>[](word[a] = "firing")

(***************************************************************************)
(* The channel the daemon and the relay are meant to be, together.         *)
(***************************************************************************)
Channel == INSTANCE AlertChannel WITH
               truth <- [a \in Alerts |-> rule[a].firing], word <- word

ChannelSpec == Channel!Spec
=============================================================================
