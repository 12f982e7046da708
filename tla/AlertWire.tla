------------------------------ MODULE AlertWire ------------------------------
(***************************************************************************)
(* What a node's alerts daemon and the relay have in common: the alerts,   *)
(* the words a report can say, and the reminder interval both sides keep.  *)
(* (internal/alertproto and the ReminderEvery constants.)                  *)
(***************************************************************************)
EXTENDS Naturals

CONSTANTS
    Alerts,      \* the alerts a node raises through rules
    InfoAlerts,  \* those of severity "info": never reminded, detail matters
    Details,     \* the details a firing alert can carry
    NoDetail,    \* the empty detail of an alert that is not firing
    Reminder,    \* ReminderEvery, in ticks of the clock
    Slots        \* the requests the relay can be handling at once

ASSUME WireAssumption ==
    /\ InfoAlerts \subseteq Alerts
    /\ NoDetail \notin Details
    /\ "started" \notin Alerts
    /\ Reminder \in Nat \ {0}

\* The event a daemon announces itself with; it is always reported as "info".
Started == "started"

\* The states of a rule-raised alert, and the state of an event.
Words == {"firing", "ok"}
States == Words \cup {"info"}

\* A rule's result is the detail it fires with, or NoDetail.
Results == Details \cup {NoDetail}

Report == [alert : Alerts \cup {Started}, state : States, detail : Results]

\* Time since an event, in ticks; everything at least Reminder ago is alike,
\* and so is a zero time.
Ages == 0 .. Reminder
LongAgo == Reminder
Older(age) == IF age < Reminder THEN age + 1 ELSE Reminder
==============================================================================
