----------------------------- MODULE RelayNodes -----------------------------
(***************************************************************************)
(* The row the relay keeps of one paired node (internal/relay): when it    *)
(* was last seen, whether it is flagged silent, whether its chat blocked   *)
(* the bot.  Requests, the silence ticker and the command poller all read  *)
(* the whole row, work on their copy, and write the whole copy back with   *)
(* UpdateNode, with no lock or transaction around the three.               *)
(***************************************************************************)
EXTENDS Naturals

CONSTANTS
    Requests,    \* the node's requests the relay can be serving at once
    Quiet,       \* RELAY_SILENT_AFTER, in ticks
    Reminder,    \* ReminderEvery, in ticks
    Faults       \* the events of the environment this run allows

FaultNames == {"overlap", "mute", "refuse", "unsure", "blocks", "disconnect",
               "storeRead", "storeWrite", "restart"}

ASSUME NodesAssumption ==
    /\ Quiet \in Nat \ {0}
    /\ Reminder \in Nat \ {0}
    /\ Faults \subseteq FaultNames
    /\ Requests \cap {"ticker", "poller"} = {}

VARIABLES
    row,         \* the node's row
    sent,        \* last_sent for node_silent
    proc,        \* [Procs -> what each goroutine is doing]
    up,          \* the node's daemon is sending requests
    chatBlocks,  \* the user has blocked the bot
    word,        \* history: the last of node_silent told to the chat, or withheld
    told         \* history: it was told as firing at least once

vars == <<row, sent, proc, up, chatBlocks, word, told>>

Procs == Requests \cup {"ticker", "poller"}

Row == [seen : 0 .. Quiet, silent : BOOLEAN, blocked : BOOLEAN]
PCs == {"idle", "touch", "lookup", "send", "record", "undo", "handle", "mark",
        "clear"}
\* A goroutine: its copy of the row, the ticks since it began (deliver's
\* "now"), and whether the context of its request is still alive.
ProcState == [pc : PCs, node : Row, age : 0 .. Reminder, live : BOOLEAN]

\* A clock that has run to its cap stays there.
Older(n, cap) == IF n < cap THEN n + 1 ELSE n

NewRow == [seen |-> 0, silent |-> FALSE, blocked |-> FALSE]
IdleProc == [pc |-> "idle", node |-> NewRow, age |-> 0, live |-> TRUE]

TypeOK ==
    /\ row \in Row
    /\ sent \in [state : {"", "firing", "ok"}, age : 0 .. Reminder]
    /\ proc \in [Procs -> ProcState]
    /\ up \in BOOLEAN
    /\ chatBlocks \in BOOLEAN
    /\ word \in {"", "firing", "ok"}
    /\ told \in BOOLEAN

Init ==
    /\ row = NewRow
    /\ sent = [state |-> "", age |-> Reminder]
    /\ proc = [p \in Procs |-> IdleProc]
    /\ up = TRUE
    /\ chatBlocks = FALSE
    /\ word = ""
    /\ told = FALSE

-----------------------------------------------------------------------------
AllIdle == \A p \in Procs : proc[p].pc = "idle"
MayBegin(p) == proc[p].pc = "idle" /\ ("overlap" \in Faults \/ AllIdle)

Begin(p, pc) ==
    /\ MayBegin(p)
    /\ proc' = [proc EXCEPT ![p] = [IdleProc EXCEPT !.pc = pc, !.node = row]]
    /\ UNCHANGED <<row, sent, up, chatBlocks, word, told>>

Goto(p, pc) == proc' = [proc EXCEPT ![p].pc = pc]
Done(p) == proc' = [proc EXCEPT ![p] = IdleProc]

\* A statement on the store fails: it is broken, or the context is cancelled.
WriteFails(p) == "storeWrite" \in Faults \/ ~proc[p].live
ReadFails(p) == "storeRead" \in Faults \/ ~proc[p].live

\* authed's GetNode, and the clearing of the flag at once.
Get(s) == up /\ Begin(s, "touch")

Touch(s) ==
    /\ proc[s].pc = "touch"
    /\ proc[s].live
    /\ LET seen == [proc[s].node EXCEPT !.seen = 0, !.silent = FALSE]
       IN  /\ row' = seen
           /\ proc' = [proc EXCEPT ![s].node = seen,
                           ![s].pc = IF proc[s].node.silent THEN "lookup"
                                                            ELSE "handle"]
    /\ UNCHANGED <<sent, up, chatBlocks, word, told>>

TouchFails(s) ==
    /\ proc[s].pc = "touch"
    /\ WriteFails(s)
    /\ Done(s)
    /\ UNCHANGED <<row, sent, up, chatBlocks, word, told>>

-----------------------------------------------------------------------------
(***************************************************************************)
(* deliver, for node_silent: the ticker delivers "firing", a request "ok". *)
(***************************************************************************)
State(p) == IF p = "ticker" THEN "firing" ELSE "ok"

\* What the caller does with deliver's answer.
\* Mutant: the ticker flags the node although the delivery failed.
AfterMarksAnyway(p, ok) ==
    IF p = "ticker" THEN "mark" ELSE IF ok THEN "handle" ELSE "undo"
\* Mutant: a failed recovery is not kept for the next request.
AfterForgets(p, ok) ==
    IF p = "ticker" THEN (IF ok THEN "mark" ELSE "idle") ELSE "handle"
After(p, ok) ==
    IF p = "ticker" THEN (IF ok THEN "mark" ELSE "idle")
    ELSE IF ok THEN "handle" ELSE "undo"

Suppressed(p) ==
    IF State(p) = "ok" THEN sent.state # "firing"
    ELSE sent.state = "firing" /\ sent.age < Reminder

Lookup(p) ==
    /\ proc[p].pc = "lookup"
    /\ proc[p].live
    /\ Goto(p, IF Suppressed(p) THEN After(p, TRUE) ELSE "send")
    /\ UNCHANGED <<row, sent, up, chatBlocks, word, told>>

LookupFails(p) ==
    /\ proc[p].pc = "lookup"
    /\ ReadFails(p)
    /\ Goto(p, After(p, FALSE))
    /\ UNCHANGED <<row, sent, up, chatBlocks, word, told>>

Tell(p) ==
    /\ word' = State(p)
    /\ told' = (told \/ State(p) = "firing")

\* Telegram takes the message, or a mute withholds it.
Send(p) ==
    /\ proc[p].pc = "send"
    /\ proc[p].live
    /\ "mute" \in Faults \/ (~proc[p].node.blocked /\ ~chatBlocks)
    /\ Tell(p)
    /\ Goto(p, "record")
    /\ UNCHANGED <<row, sent, up, chatBlocks>>

\* notify skips a chat known to have blocked the bot; or Telegram is down,
\* the chat's limit is reached, or the context is cancelled.
SendFails(p) ==
    /\ proc[p].pc = "send"
    /\ proc[p].node.blocked \/ "refuse" \in Faults \/ ~proc[p].live
    /\ Goto(p, After(p, FALSE))
    /\ UNCHANGED <<row, sent, up, chatBlocks, word, told>>

\* Telegram took the message but the answer is lost.
SendUnsure(p) ==
    /\ "unsure" \in Faults
    /\ proc[p].pc = "send"
    /\ ~proc[p].node.blocked /\ ~chatBlocks
    /\ Tell(p)
    /\ Goto(p, After(p, FALSE))
    /\ UNCHANGED <<row, sent, up, chatBlocks>>

\* Telegram answers 403: notify flags its own copy and writes it; the
\* caller's copy stays as it was.
SendBlocked(p) ==
    /\ proc[p].pc = "send"
    /\ proc[p].live
    /\ ~proc[p].node.blocked /\ chatBlocks
    /\ row' = [proc[p].node EXCEPT !.blocked = TRUE]
    /\ Goto(p, After(p, FALSE))
    /\ UNCHANGED <<sent, up, chatBlocks, word, told>>

Record(p) ==
    /\ proc[p].pc = "record"
    /\ proc[p].live
    /\ sent' = [state |-> State(p), age |-> proc[p].age]
    /\ Goto(p, After(p, TRUE))
    /\ UNCHANGED <<row, up, chatBlocks, word, told>>

RecordFails(p) ==
    /\ proc[p].pc = "record"
    /\ WriteFails(p)
    /\ Goto(p, After(p, FALSE))
    /\ UNCHANGED <<row, sent, up, chatBlocks, word, told>>

Deliver(p) ==
    \/ Lookup(p) \/ LookupFails(p)
    \/ Send(p) \/ SendFails(p) \/ SendUnsure(p) \/ SendBlocked(p)
    \/ Record(p) \/ RecordFails(p)

-----------------------------------------------------------------------------
\* authed keeps the flag for the next request when its recovery failed.
\* The error of this UpdateNode is ignored.
Undo(s) ==
    /\ proc[s].pc = "undo"
    /\ proc' = [proc EXCEPT ![s].node.silent = TRUE, ![s].pc = "handle"]
    /\ \/ proc[s].live /\ row' = [proc[s].node EXCEPT !.silent = TRUE]
       \/ WriteFails(s) /\ UNCHANGED row
    /\ UNCHANGED <<sent, up, chatBlocks, word, told>>

\* handleHeartbeat stores the summary with the rest of authed's copy.
HandleHeartbeat(s) ==
    /\ proc[s].pc = "handle"
    /\ \/ proc[s].live /\ row' = proc[s].node
       \/ WriteFails(s) /\ UNCHANGED row
    /\ Done(s)
    /\ UNCHANGED <<sent, up, chatBlocks, word, told>>

\* handleAlert writes the row only when notify meets a 403; its context
\* outlives the request.
HandleAlert(s) ==
    /\ proc[s].pc = "handle"
    /\ \/ UNCHANGED row
       \/ /\ chatBlocks /\ ~proc[s].node.blocked
          /\ row' = [proc[s].node EXCEPT !.blocked = TRUE]
    /\ Done(s)
    /\ UNCHANGED <<sent, up, chatBlocks, word, told>>

\* CheckSilent: the candidates, then deliver, then the flag.
Candidate ==
    /\ ~row.silent
    /\ row.seen = Quiet
    /\ Begin("ticker", "lookup")

Mark ==
    /\ proc["ticker"].pc = "mark"
    /\ \/ row' = [proc["ticker"].node EXCEPT !.silent = TRUE]
       \/ WriteFails("ticker") /\ UNCHANGED row
    /\ Done("ticker")
    /\ UNCHANGED <<sent, up, chatBlocks, word, told>>

\* clearBlocked, on any command: a chat that blocks the bot sends none.
Command ==
    /\ ~chatBlocks
    /\ row.blocked
    /\ Begin("poller", "clear")

Clear ==
    /\ proc["poller"].pc = "clear"
    /\ \/ row' = [proc["poller"].node EXCEPT !.blocked = FALSE]
       \/ WriteFails("poller") /\ UNCHANGED row
    /\ Done("poller")
    /\ UNCHANGED <<sent, up, chatBlocks, word, told>>

-----------------------------------------------------------------------------
\* The client gives up on a request: its context is cancelled.
Disconnect(s) ==
    /\ "disconnect" \in Faults
    /\ proc[s].pc # "idle"
    /\ proc' = [proc EXCEPT ![s].live = FALSE]
    /\ UNCHANGED <<row, sent, up, chatBlocks, word, told>>

Restart ==
    /\ "restart" \in Faults
    /\ proc' = [p \in Procs |-> IdleProc]
    /\ UNCHANGED <<row, sent, up, chatBlocks, word, told>>

\* The node dies or comes back; the user blocks or unblocks the bot.
NodeChanges ==
    /\ up' = ~up
    /\ UNCHANGED <<row, sent, proc, chatBlocks, word, told>>

ChatChanges ==
    /\ "blocks" \in Faults
    /\ chatBlocks' = ~chatBlocks
    /\ UNCHANGED <<row, sent, proc, up, word, told>>

\* A request is over, or its client is gone, long before SilentAfter (15 s
\* and 30 s against 5 minutes): it sees the clock tick at most once.
Tick ==
    /\ \A s \in Requests : proc[s].age = 0
    /\ row' = [row EXCEPT !.seen = Older(@, Quiet)]
    /\ sent' = [sent EXCEPT !.age = Older(@, Reminder)]
    /\ proc' = [p \in Procs |->
         IF proc[p].pc = "idle" THEN proc[p]
         ELSE [proc[p] EXCEPT !.node.seen = Older(@, Quiet),
                              !.age = Older(@, Reminder)]]
    /\ UNCHANGED <<up, chatBlocks, word, told>>

Serve(s) ==
    \/ Touch(s) \/ TouchFails(s)
    \/ Deliver(s)
    \/ Undo(s)
    \/ HandleHeartbeat(s) \/ HandleAlert(s)

Next ==
    \/ \E s \in Requests : Get(s) \/ Serve(s) \/ Disconnect(s)
    \/ Candidate \/ Deliver("ticker") \/ Mark
    \/ Command \/ Clear
    \/ Restart
    \/ NodeChanges \/ ChatChanges
    \/ Tick

Spec == Init /\ [][Next]_vars

(***************************************************************************)
(* Every goroutine goes on, the daemon keeps sending while it is up, the   *)
(* ticker and the clock keep ticking, and a store or Telegram call that is *)
(* made again and again succeeds again and again.                          *)
(***************************************************************************)
Fairness ==
    /\ WF_vars(Tick)
    /\ WF_vars(\E s \in Requests : Get(s))
    /\ WF_vars(Candidate)
    /\ \A s \in Requests : WF_vars(Serve(s))
    /\ WF_vars(Deliver("ticker") \/ Mark)
    /\ WF_vars(Clear)
    /\ SF_vars(\E s \in Requests : Touch(s))
    /\ SF_vars(\E s \in Requests : Lookup(s))
    /\ SF_vars(\E s \in Requests : Send(s))
    /\ SF_vars(Lookup("ticker"))
    /\ SF_vars(Send("ticker"))

FairSpec == Spec /\ Fairness

-----------------------------------------------------------------------------
(***************************************************************************)
(* A node is flagged silent only after node_silent was told: CheckSilent   *)
(* leaves a node whose delivery failed a candidate for the next tick, and  *)
(* no copy of the row that is written back invents the flag.               *)
(***************************************************************************)
SilentWasTold == row.silent => told

(***************************************************************************)
(* Between two operations the flag is what the chat believes: a node is    *)
(* flagged exactly while node_silent is the last word of it, so the next   *)
(* request knows whether a recovery is owed (authed, CheckSilent).         *)
(***************************************************************************)
FlagMatchesWord == AllIdle => (row.silent <=> word = "firing")

(***************************************************************************)
(* A node that stays away is announced in the end (CheckSilent retries     *)
(* every 30 seconds until it goes through, website/docs/alerts/rules.md:46)*)
(***************************************************************************)
SilenceHeard == <>[](~up /\ ~chatBlocks /\ ~row.blocked) => <>[](word = "firing")

(***************************************************************************)
(* "node_silent after 5 minutes, then node reporting again" (website/docs/ *)
(* alerts/rules.md:31): a node that keeps reporting does not stay silent   *)
(* in the chat.                                                            *)
(***************************************************************************)
ReturnHeard == <>[](up /\ ~chatBlocks /\ ~row.blocked) => []<>(word # "firing")
=============================================================================
