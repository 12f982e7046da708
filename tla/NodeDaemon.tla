----------------------------- MODULE NodeDaemon -----------------------------
(***************************************************************************)
(* The alerts daemon on a node (internal/alerts/daemon.go).  It is one     *)
(* goroutine: a step evaluates every rule over one sample, and every send  *)
(* blocks the step until the relay answers or the client gives up.  Its    *)
(* memory dies with the process; the state file is written for             *)
(* `nomctl alerts status` and never read back.                             *)
(***************************************************************************)
EXTENDS AlertWire

VARIABLES
    enabled,     \* rules switched on in the configuration the daemon runs with
    rule,        \* [Alerts -> AlertState]: what the daemon holds per rule
    baselined,   \* d.evaluated: the first evaluation has happened
    result,      \* what each rule evaluated to on this step's sample
    todo,        \* rules this step has still to evaluate
    elapsed,     \* ticks since this step began
    call,        \* the outstanding request, and where it is
    unpaired     \* d.state.Unpaired

nodeVars == <<enabled, rule, baselined, result, todo, elapsed, call, unpaired>>

\* AlertState; "known" is membership in the daemon's map.  "age" is the time
\* from LastSent to the start of the current step.
RuleState == [known : BOOLEAN, firing : BOOLEAN, acked : BOOLEAN,
              age : Ages, detail : Results]

Absent == [known |-> FALSE, firing |-> FALSE, acked |-> TRUE,
           age |-> LongAgo, detail |-> NoDetail]

\* A baseline is taken as already reported, so it is never a transition.
Baseline(d) == [known |-> TRUE, firing |-> d # NoDetail, acked |-> TRUE,
                age |-> LongAgo, detail |-> d]

\* A call is nowhere, on the wire, or held by one of the relay's handlers.
CallState == [at : Slots \cup {"none", "wire"}, req : Report]
NoCall == [at |-> "none",
           req |-> [alert |-> Started, state |-> "info", detail |-> NoDetail]]
Post(a, s, d) == [at |-> "wire",
                  req |-> [alert |-> a, state |-> s, detail |-> d]]
Calling == call.at # "none"

NodeTypeOK ==
    /\ enabled \subseteq Alerts
    /\ rule \in [Alerts -> RuleState]
    /\ baselined \in BOOLEAN
    /\ result \in [Alerts -> Results]
    /\ todo \subseteq Alerts
    /\ elapsed \in Ages
    /\ call \in CallState
    /\ unpaired \in BOOLEAN

NodeInit ==
    /\ enabled = Alerts
    /\ rule = [a \in Alerts |-> Absent]
    /\ baselined = FALSE
    /\ result = [a \in Alerts |-> NoDetail]
    /\ todo = {}
    /\ elapsed = 0
    /\ call = NoCall
    /\ unpaired = FALSE

-----------------------------------------------------------------------------
\* Mutant: a flip keeps the previous acknowledgement.
JudgedKeepsAck(a, prev, d) ==
    IF ~prev.known THEN Baseline(d)
    ELSE [prev EXCEPT !.firing = d # NoDetail, !.detail = d]

\* The rule state once this step's result d is compared with what was held:
\* a flip opens a new transition, and so does a changed detail of an
\* informational alert that was already reported.
Judged(a, prev, d) ==
    IF ~prev.known THEN Baseline(d)
    ELSE IF prev.firing # (d # NoDetail)
    THEN [known |-> TRUE, firing |-> d # NoDetail, acked |-> FALSE,
          age |-> LongAgo, detail |-> d]
    ELSE IF d = NoDetail THEN prev
    ELSE [prev EXCEPT !.detail = d,
                      !.acked = @ /\ ~( /\ a \in InfoAlerts
                                        /\ prev.detail # NoDetail
                                        /\ prev.detail # d )]

\* Mutant: only reminders are sent, so an unacknowledged transition waits.
NeedSendRemindersOnly(a, r) == r.firing /\ a \notin InfoAlerts /\ r.age = LongAgo
\* Mutant: no reminders, for any severity.
NeedSendNoReminders(a, r) == ~r.acked

NeedSend(a, r) ==
    \/ ~r.acked
    \/ r.firing /\ a \notin InfoAlerts /\ r.age = LongAgo

Resting == todo = {} /\ ~Calling

\* Step: sample, then either take the baseline and announce, or start
\* evaluating the rules one after the other.  The age of every LastSent
\* is brought forward to this step's "now".
StepBegin ==
    /\ Resting
    /\ result' \in [Alerts -> Results]
    /\ elapsed' = 0
    /\ baselined' = TRUE
    /\ IF baselined
       THEN /\ todo' = Alerts
            /\ rule' = [a \in Alerts |-> [rule[a] EXCEPT
                            !.age = IF @ + elapsed < Reminder THEN @ + elapsed
                                                              ELSE LongAgo]]
            /\ call' = call
       ELSE /\ todo' = {}
            /\ rule' = [a \in Alerts |-> IF a \in enabled
                                         THEN Baseline(result'[a])
                                         ELSE rule[a]]
            /\ call' = IF unpaired THEN NoCall
                                   ELSE Post(Started, "info", NoDetail)
    /\ UNCHANGED <<enabled, unpaired>>

\* One turn of evaluate's loop, up to the POST.
Evaluate(a) ==
    /\ a \in todo
    /\ ~Calling
    /\ todo' = todo \ {a}
    /\ IF a \notin enabled
       THEN /\ rule' = [rule EXCEPT ![a] = Absent]
            /\ call' = call
       ELSE LET r == Judged(a, rule[a], result[a])
            IN  /\ rule' = [rule EXCEPT ![a] = r]
                /\ call' = IF NeedSend(a, r) /\ ~unpaired
                           THEN Post(a, IF r.firing THEN "firing" ELSE "ok",
                                     result[a])
                           ELSE NoCall
    /\ UNCHANGED <<enabled, baselined, result, elapsed, unpaired>>

\* Mutant: a refusal of any kind is taken for "unknown node".
SendReturnsAnyRefusal(answer) ==
    /\ Calling
    /\ call' = NoCall
    /\ rule' = IF answer = "ok" /\ call.req.alert \in Alerts
               THEN [rule EXCEPT ![call.req.alert].acked = TRUE,
                                 ![call.req.alert].age = 0]
               ELSE rule
    /\ unpaired' = (unpaired \/ answer # "ok")
    /\ UNCHANGED <<enabled, baselined, result, todo, elapsed>>

\* send returns: a 2xx acknowledges the transition as of this step, a 401 for
\* an unknown node silences the daemon, any other outcome leaves it pending.
SendReturns(answer) ==
    /\ Calling
    /\ call' = NoCall
    /\ rule' = IF answer = "ok" /\ call.req.alert \in Alerts
               THEN [rule EXCEPT ![call.req.alert].acked = TRUE,
                                 ![call.req.alert].age = 0]
               ELSE rule
    /\ unpaired' = (unpaired \/ answer = "unknown")
    /\ UNCHANGED <<enabled, baselined, result, todo, elapsed>>

\* The heartbeat that ends a step meets a relay that no longer knows the node.
\* A heartbeat with any other outcome changes nothing here.
HeartbeatRefused ==
    /\ Resting
    /\ baselined
    /\ unpaired' = TRUE
    /\ UNCHANGED <<enabled, rule, baselined, result, todo, elapsed, call>>

\* The process is stopped or killed and systemd starts it again.
Restart ==
    /\ rule' = [a \in Alerts |-> Absent]
    /\ baselined' = FALSE
    /\ todo' = {}
    /\ elapsed' = 0
    /\ call' = NoCall
    /\ unpaired' = FALSE
    /\ UNCHANGED <<enabled, result>>

\* A reload between two steps installs a configuration in which the operator
\* has enabled or disabled a rule; the credentials are the same.
Reload(a) ==
    /\ Resting
    /\ enabled' = (enabled \ {a}) \cup ({a} \ enabled)
    /\ UNCHANGED <<rule, baselined, result, todo, elapsed, call, unpaired>>
=============================================================================
