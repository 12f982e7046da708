---------------------------- MODULE RelayDelivery ----------------------------
(***************************************************************************)
(* The relay's side of one paired node's reports (internal/relay).  Every  *)
(* request runs in a handler of its own; deliver reads last_sent, reads    *)
(* the mutes, calls Telegram and writes last_sent as four separate steps,  *)
(* with no lock between them, so handlers interleave.                      *)
(***************************************************************************)
EXTENDS AlertWire

VARIABLES
    paired,      \* the node's row exists
    lastSent,    \* the last_sent table
    muted,       \* alerts with a mute in force ("all" mutes every one)
    handler,     \* [Slots -> HandlerState]
    word,        \* history: the last word told for an alert, or withheld
    heard,       \* history: the detail of the last firing told
    told         \* history: every word ever told for an alert

relayVars == <<paired, lastSent, muted, handler, word, heard, told>>

\* Where a handler is in deliver, or the answer it has ready.
Answers == {"ok", "error", "unknown"}
PCs == {"idle", "lookup", "mute", "send", "record"} \cup Answers
HandlerState == [pc : PCs, req : Report, age : Ages]
Idle == [pc |-> "idle", age |-> 0,
         req |-> [alert |-> Started, state |-> "info", detail |-> NoDetail]]

NeverSent == [state |-> "", age |-> LongAgo]

RelayTypeOK ==
    /\ paired \in BOOLEAN
    /\ lastSent \in [Alerts -> [state : Words \cup {""}, age : Ages]]
    /\ muted \subseteq Alerts
    /\ handler \in [Slots -> HandlerState]
    /\ word \in [Alerts -> Words \cup {""}]
    /\ heard \in [Alerts -> Results]
    /\ told \in [Alerts -> SUBSET Words]

RelayInit ==
    /\ paired = TRUE
    /\ lastSent = [a \in Alerts |-> NeverSent]
    /\ muted = {}
    /\ handler = [s \in Slots |-> Idle]
    /\ word = [a \in Alerts |-> ""]
    /\ heard = [a \in Alerts |-> NoDetail]
    /\ told = [a \in Alerts |-> {}]

-----------------------------------------------------------------------------
Goto(s, pc) == handler' = [handler EXCEPT ![s].pc = pc]

\* authed: an unknown node is refused, anything else reaches its handler; an
\* "info" report goes straight to notify.
Accept(s, r) ==
    /\ handler[s] = Idle
    /\ handler' = [handler EXCEPT ![s] =
         [pc |-> IF ~paired THEN "unknown"
                 ELSE IF r.state = "info" THEN "send" ELSE "lookup",
          req |-> r, age |-> 0]]
    /\ UNCHANGED <<paired, lastSent, muted, word, heard, told>>

\* What deliver answers without sending: a recovery already recorded or of
\* an alert with no record, and a firing repeated before its reminder is due.
\* Mutant: a recovery is sent even when nothing was recorded.
SuppressedNoFirstCheck(r, last) ==
    \/ r.state = "ok" /\ last.state = "ok"
    \/ r.state = "firing" /\ last.state = "firing" /\ last.age < Reminder
\* Mutant: the "ok after ok" return is missing.
SuppressedRepeatsOK(r, last) ==
    IF r.state = "ok" THEN last.state = ""
    ELSE last.state = "firing" /\ last.age < Reminder

Suppressed(r, last) ==
    IF r.state = "ok" THEN last.state # "firing"
    ELSE last.state = "firing" /\ last.age < Reminder

Lookup(s) ==
    /\ handler[s].pc = "lookup"
    /\ LET r == handler[s].req
       IN  handler' = [handler EXCEPT
             ![s].pc = IF Suppressed(r, lastSent[r.alert]) THEN "ok" ELSE "mute",
             ![s].age = 0]
    /\ UNCHANGED <<paired, lastSent, muted, word, heard, told>>

\* The chat hears a report, or the user has asked not to.
Tell(r) ==
    IF r.alert \in Alerts
    THEN /\ word' = [word EXCEPT ![r.alert] = r.state]
         /\ told' = [told EXCEPT ![r.alert] = @ \cup {r.state}]
         /\ heard' = IF r.state = "firing"
                     THEN [heard EXCEPT ![r.alert] = r.detail] ELSE heard
    ELSE UNCHANGED <<word, heard, told>>

CheckMute(s) ==
    /\ handler[s].pc = "mute"
    /\ IF handler[s].req.alert \in muted
       THEN Goto(s, "record") /\ Tell(handler[s].req)
       ELSE Goto(s, "send") /\ UNCHANGED <<word, heard, told>>
    /\ UNCHANGED <<paired, lastSent, muted>>

\* notify: Telegram takes the message.
SendAccepted(s) ==
    /\ handler[s].pc = "send"
    /\ Tell(handler[s].req)
    /\ Goto(s, IF handler[s].req.state = "info" THEN "ok" ELSE "record")
    /\ UNCHANGED <<paired, lastSent, muted>>

\* Mutant: a failed send is recorded as sent all the same.
SendFailedRecorded(s) ==
    /\ handler[s].pc = "send"
    /\ Goto(s, IF handler[s].req.state = "info" THEN "error" ELSE "record")
    /\ UNCHANGED <<paired, lastSent, muted, word, heard, told>>
\* Mutant: a failed send is answered 204.
SendFailedAnswered(s) ==
    /\ handler[s].pc = "send"
    /\ Goto(s, "ok")
    /\ UNCHANGED <<paired, lastSent, muted, word, heard, told>>

\* notify: blocked, chat limit, an API error or the 30 s deadline.
SendFailed(s) ==
    /\ handler[s].pc = "send"
    /\ Goto(s, "error")
    /\ UNCHANGED <<paired, lastSent, muted, word, heard, told>>

\* The connection breaks after Telegram took the message: Send is not retried
\* and reports an error.
SendUnsure(s) ==
    /\ handler[s].pc = "send"
    /\ Tell(handler[s].req)
    /\ Goto(s, "error")
    /\ UNCHANGED <<paired, lastSent, muted>>

\* Mutant: every delivery is recorded with the "info" state.
RecordAsInfo(s) ==
    /\ handler[s].pc = "record"
    /\ lastSent' = [lastSent EXCEPT ![handler[s].req.alert] =
                        [state |-> "info", age |-> handler[s].age]]
    /\ Goto(s, "ok")
    /\ UNCHANGED <<paired, muted, word, heard, told>>

\* SetLastSent stamps the time deliver began.
Record(s) ==
    /\ handler[s].pc = "record"
    /\ lastSent' = [lastSent EXCEPT ![handler[s].req.alert] =
                        [state |-> handler[s].req.state, age |-> handler[s].age]]
    /\ Goto(s, "ok")
    /\ UNCHANGED <<paired, muted, word, heard, told>>

\* A read or a write of the store fails: deliver returns an error.
StoreFails(s, pcs) ==
    /\ handler[s].pc \in pcs
    /\ Goto(s, "error")
    /\ UNCHANGED <<paired, lastSent, muted, word, heard, told>>

\* The response is written and the handler is gone.
Finish(s) ==
    /\ handler[s].pc \in Answers
    /\ handler' = [handler EXCEPT ![s] = Idle]
    /\ UNCHANGED <<paired, lastSent, muted, word, heard, told>>

\* The relay process dies: its handlers with it, its database not.
RelayCrash ==
    /\ \E s \in Slots : handler[s] # Idle
    /\ handler' = [s \in Slots |-> Idle]
    /\ UNCHANGED <<paired, lastSent, muted, word, heard, told>>

\* /mute, /unmute and a mute's expiry.
Mute(a) == /\ muted' = muted \cup {a}
           /\ UNCHANGED <<paired, lastSent, handler, word, heard, told>>
Unmute(a) == /\ muted' = muted \ {a}
             /\ UNCHANGED <<paired, lastSent, handler, word, heard, told>>

\* /unpair in the chat: DeleteNode removes the row, the mutes and last_sent.
Unpair ==
    /\ paired
    /\ paired' = FALSE
    /\ muted' = {}
    /\ lastSent' = [a \in Alerts |-> NeverSent]
    /\ UNCHANGED <<handler, word, heard, told>>

RelayTick ==
    /\ lastSent' = [a \in Alerts |-> [lastSent[a] EXCEPT !.age = Older(@)]]
    /\ handler' = [s \in Slots |->
                     IF handler[s].pc \in {"mute", "send", "record"}
                     THEN [handler[s] EXCEPT !.age = Older(@)] ELSE handler[s]]
    /\ UNCHANGED <<paired, muted, word, heard, told>>
=============================================================================
