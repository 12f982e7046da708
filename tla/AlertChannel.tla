---------------------------- MODULE AlertChannel ----------------------------
(***************************************************************************)
(* What the alerting pipeline promises for each alert: the chat is told    *)
(* the current truth, a recovery only after a firing, and a truth that     *)
(* lasts is told in the end.                                               *)
(***************************************************************************)
CONSTANT Alerts

VARIABLES
    truth,    \* [Alerts -> BOOLEAN]: the alert is firing
    word      \* [Alerts -> {"", "firing", "ok"}]: the last word told

channelVars == <<truth, word>>

Init ==
    /\ truth = [a \in Alerts |-> FALSE]
    /\ word = [a \in Alerts |-> ""]

Observe ==
    /\ truth' \in [Alerts -> BOOLEAN]
    /\ UNCHANGED word

TellFiring(a) ==
    /\ truth[a]
    /\ word' = [word EXCEPT ![a] = "firing"]
    /\ UNCHANGED truth

TellRecovery(a) ==
    /\ ~truth[a]
    /\ word[a] = "firing"
    /\ word' = [word EXCEPT ![a] = "ok"]
    /\ UNCHANGED truth

Tell(a) == TellFiring(a) \/ TellRecovery(a)

Next == Observe \/ \E a \in Alerts : Tell(a)

Spec ==
    /\ Init
    /\ [][Next]_channelVars
    /\ \A a \in Alerts : WF_channelVars(Tell(a))
=============================================================================
