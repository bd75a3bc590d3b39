------------------------------ MODULE AutoReply ------------------------------
(***************************************************************************)
(* The automatic reply of a mailbox and its responders: every running      *)
(* service answers received mail for as long as it runs, and a command     *)
(* answers what waits once.  A message is claimed before anything else,    *)
(* then looked at, replied to through the mailbox, and its decision        *)
(* recorded, each a statement of its own: another responder, an import, a  *)
(* changed reply, the mailbox's deletion, a crash or a failing database    *)
(* may come between any two.                                               *)
(***************************************************************************)
EXTENDS Naturals, FiniteSets

CONSTANTS
  Messages, Senders,
  SenderOf,     \* the address a reply to each message goes to
  Services,     \* running `skrzynka serve` processes
  Commands,     \* `mailbox responder --answer` and the route, one pass each
  LastTime,     \* bound: instants are 1 .. LastTime
  MaxFaults,    \* bound: how often the database fails
  MaxChanges,   \* bound: how often the automatic reply is set
  Asked,        \* the settings operators ask for
  NoMessage

ASSUME AutoReplyAssumption ==
  /\ SenderOf \in [Messages -> Senders]
  /\ Asked \subseteq [starts : 1 .. LastTime, ends : 1 .. LastTime + 1, span : 0 .. LastTime]
  /\ LastTime \in Nat \ {0} /\ MaxFaults \in Nat /\ MaxChanges \in Nat
  /\ NoMessage \notin Messages /\ Services \cap Commands = {}

VARIABLES
  now,
  reply,       \* the mailbox's automatic reply, or NoReply
  received,    \* when each message was received; NotYet before
  gone,        \* whether the mailbox was deleted, with its mail, reply and decisions
  decision,    \* each message's decision row
  attempt,     \* the reply attempt under the key auto-reply:<message>
  pass,        \* each responder's pass
  heard,       \* whether each service has an announcement to hear
  faults, changes,
  answers,     \* history: the automatic replies the provider took
  lost,        \* history: the messages whose reply's end was not recorded
  broken       \* history: the services whose last pass failed

vars == <<now, reply, received, gone, decision, attempt, pass, heard, faults,
          changes, answers, lost, broken>>

Responders == Services \cup Commands
Instants == 1 .. LastTime
NotYet == 0
Open == LastTime + 1                \* no end
NoReply == [starts |-> NotYet, ends |-> Open, span |-> 0]
NoPass == [pc |-> "down", reply |-> NoReply, todo |-> {}, message |-> NoMessage, told |-> "none"]

Decisions == {"none", "claimed", "answered", "skipped"}
Statuses == {"none", "sending", "sent", "failed", "uncertain"}
Deciding == {"check", "source", "begin", "submit", "record"}
Places == {"down", "read", "list", "next", "wait", "deaf"} \cup Deciding

TypeOK ==
  /\ now \in Instants
  /\ reply \in [starts : 0 .. LastTime, ends : 1 .. Open, span : 0 .. LastTime]
  /\ reply # NoReply => reply.starts < reply.ends /\ reply.span > 0
  /\ received \in [Messages -> 0 .. LastTime]
  /\ gone \in BOOLEAN /\ gone => reply = NoReply
  /\ decision \in [Messages -> [state : Decisions, at : 0 .. LastTime]]
  /\ attempt \in [Messages -> Statuses]
  /\ \A r \in Responders :
       /\ pass[r].pc \in Places /\ pass[r].todo \subseteq Messages
       /\ pass[r].told \in {"none", "answered", "skipped"}
       /\ pass[r].pc \in Deciding <=> pass[r].message # NoMessage
       /\ pass[r].pc \in Deciding => pass[r].message \in Messages /\ pass[r].reply # NoReply
  /\ heard \in [Services -> BOOLEAN]
  /\ faults \in 0 .. MaxFaults /\ changes \in 0 .. MaxChanges
  /\ answers \subseteq [message : Messages, to : Senders, at : Instants, span : Instants]
  /\ lost \subseteq Messages /\ broken \subseteq Services

Init ==
  /\ now = 1
  /\ reply = NoReply
  /\ received = [m \in Messages |-> NotYet]
  /\ gone = FALSE
  /\ decision = [m \in Messages |-> [state |-> "none", at |-> 0]]
  /\ attempt = [m \in Messages |-> "none"]
  /\ pass = [r \in Responders |-> NoPass]
  /\ heard = [s \in Services |-> FALSE]
  /\ faults = 0 /\ changes = 0
  /\ answers = {} /\ lost = {} /\ broken = {}

-----------------------------------------------------------------------------
(* Rows. *)

Stored == {m \in Messages : received[m] # NotYet /\ ~gone}

\* skrzynka_announce_received: it reaches the services that are subscribed.
Announce == heard' = [s \in Services |-> heard[s] \/ pass[s].pc \notin {"down", "deaf"}]

InWindow(m, row) == row.starts <= received[m] /\ received[m] < row.ends

Candidates(row) == {m \in Stored : InWindow(m, row) /\ decision[m].state = "none"}

AnsweredSince(sender, since) ==
  \E m \in Stored : /\ SenderOf[m] = sender /\ decision[m].state = "answered"
                    /\ decision[m].at >= since

Unclaimed_Always(m) == TRUE   \* mutant: a claimed message is claimed again

\* claim_auto_reply: ON CONFLICT DO NOTHING.
Unclaimed(m) == decision[m].state = "none"

Decide(m, what) ==
  decision' = IF gone THEN decision
              ELSE [decision EXCEPT ![m] = [state |-> what, at |-> now]]

Fault == faults < MaxFaults /\ faults' = faults + 1

-----------------------------------------------------------------------------
(* Imports and the operator. *)

\* An import writes a message, which the provider may have received earlier.
Receive(m) ==
  /\ received[m] = NotYet /\ ~gone
  /\ \E at \in 1 .. now : received' = [received EXCEPT ![m] = at]
  /\ Announce
  /\ UNCHANGED <<now, reply, gone, decision, attempt, pass, faults, changes, answers, lost, broken>>

\* delete_mailbox: its messages, their decisions and attempts, and its reply go with it.
DeleteMailbox ==
  /\ ~gone /\ gone' = TRUE
  /\ reply' = NoReply
  /\ decision' = [m \in Messages |-> [state |-> "none", at |-> 0]]
  /\ attempt' = [m \in Messages |-> "none"]
  /\ UNCHANGED <<now, received, pass, heard, faults, changes, answers, lost, broken>>

Settable_Any(row) == row.starts < row.ends   \* mutant: a span that is none is taken

\* A text without letters, a span that is none and an end not after the start are refused.
Settable(row) == row.span > 0 /\ row.starts < row.ends

SetReply ==
  /\ changes < MaxChanges /\ ~gone
  /\ \E row \in Asked : Settable(row) /\ reply' = row
  /\ changes' = changes + 1
  /\ Announce
  /\ UNCHANGED <<now, received, gone, decision, attempt, pass, faults, answers, lost, broken>>

\* Removing it announces nothing.
ClearReply ==
  /\ reply # NoReply
  /\ reply' = NoReply
  /\ UNCHANGED <<now, received, gone, decision, attempt, pass, heard, faults, changes, answers, lost, broken>>

Tick ==
  /\ now < LastTime
  /\ now' = now + 1
  /\ UNCHANGED <<reply, received, gone, decision, attempt, pass, heard, faults, changes, answers,
                 lost, broken>>

-----------------------------------------------------------------------------
(* One pass over what is undecided. *)

Goto(r, place) == pass' = [pass EXCEPT ![r].pc = place]

\* A message is decided, or not to be: the next of the pass.
Proceed(r) == pass' = [pass EXCEPT ![r].pc = "next", ![r].message = NoMessage, ![r].told = "none"]

\* A pass is over: a service waits for an announcement, a command ends.
Over(r) == pass' = [pass EXCEPT ![r] = IF r \in Services THEN [NoPass EXCEPT !.pc = "wait"] ELSE NoPass]

Rows == <<now, reply, received, gone, changes>>

\* start_answering subscribes, then runs its first pass; starting also ends the
\* replies an earlier process left `sending`.
StartService(s) ==
  /\ pass[s].pc = "down"
  /\ Goto(s, "read")
  /\ heard' = [heard EXCEPT ![s] = FALSE]
  /\ attempt' = [m \in Messages |-> IF attempt[m] = "sending" THEN "uncertain" ELSE attempt[m]]
  /\ UNCHANGED <<Rows, decision, faults, answers, lost, broken>>

\* `mailbox responder --answer`.
Answer(c) ==
  /\ pass[c].pc = "down"
  /\ Goto(c, "read")
  /\ UNCHANGED <<Rows, decision, attempt, heard, faults, answers, lost, broken>>

\* auto_replies: the rows this pass goes by, to its end.
ReadReply(r) ==
  /\ pass[r].pc = "read"
  /\ IF reply = NoReply THEN Over(r)
     ELSE pass' = [pass EXCEPT ![r].pc = "list", ![r].reply = reply]
  /\ broken' = broken \ {r}
  /\ UNCHANGED <<Rows, decision, attempt, heard, faults, answers, lost>>

\* A statement that fails ends the pass; what it claimed stays claimed.
Fails(r) == Over(r) /\ broken' = broken \cup ({r} \cap Services)

\* get_mailbox_internal and auto_reply_candidates.
List(r) ==
  /\ pass[r].pc = "list"
  /\ IF gone THEN Fails(r)
     ELSE /\ pass' = [pass EXCEPT ![r].pc = "next", ![r].todo = Candidates(pass[r].reply)]
          /\ UNCHANGED broken
  /\ UNCHANGED <<Rows, decision, attempt, heard, faults, answers, lost>>

\* The oldest candidate left is claimed, or was claimed by another pass; of a
\* deleted mailbox none can be.
Claim(r) ==
  /\ pass[r].pc = "next" /\ ~gone
  /\ \E m \in pass[r].todo :
       /\ \A n \in pass[r].todo : received[m] <= received[n]
       /\ IF Unclaimed(m)
            THEN /\ Decide(m, "claimed")
                 /\ pass' = [pass EXCEPT ![r].pc = "check", ![r].message = m, ![r].todo = @ \ {m}]
            ELSE /\ pass' = [pass EXCEPT ![r].todo = @ \ {m}]
                 /\ UNCHANGED decision
  /\ UNCHANGED <<Rows, attempt, heard, faults, answers, lost, broken>>

ClaimRefused(r) ==
  /\ pass[r].pc = "next" /\ gone /\ pass[r].todo # {}
  /\ Fails(r)
  /\ UNCHANGED <<Rows, decision, attempt, heard, faults, answers, lost>>

EndPass(r) ==
  /\ pass[r].pc = "next" /\ pass[r].todo = {}
  /\ Over(r)
  /\ UNCHANGED <<Rows, decision, attempt, heard, faults, answers, lost, broken>>

\* answered_since, over the span the pass goes by.
Unanswerable(m, row) ==
  AnsweredSince(SenderOf[m], IF now > row.span THEN now - row.span ELSE 0)

Tell(r, what) == pass' = [pass EXCEPT ![r].pc = "record", ![r].told = what]

Check(r) ==
  /\ pass[r].pc = "check"
  /\ IF Unanswerable(pass[r].message, pass[r].reply) THEN Tell(r, "skipped") ELSE Goto(r, "source")
  /\ UNCHANGED <<Rows, decision, attempt, heard, faults, answers, lost, broken>>

\* machine_sent: what a message's headers are found to say of who wrote it.
Headers == {"unreadable", "machine", "person"}

\* message_source: a message is skipped when its headers cannot be read or name
\* a machine, as one of the mailbox's own address is; a deleted one has none.
ReadSource(r) ==
  /\ pass[r].pc = "source"
  /\ \E found \in IF gone THEN {"unreadable"} ELSE Headers :
       IF found = "person" THEN Goto(r, "begin") ELSE Tell(r, "skipped")
  /\ UNCHANGED <<Rows, decision, attempt, heard, faults, answers, lost, broken>>

\* begin_reply: the key is claimed, was claimed before, or the limit refuses.
BeginReply(r) ==
  LET m == pass[r].message IN
  /\ pass[r].pc = "begin"
  /\ \/ /\ ~gone /\ attempt[m] = "none"
        /\ attempt' = [attempt EXCEPT ![m] = "sending"]
        /\ Goto(r, "submit")
     \/ /\ Tell(r, IF attempt[m] # "none" THEN "answered" ELSE "skipped")
        /\ UNCHANGED attempt
  /\ UNCHANGED <<Rows, decision, heard, faults, answers, lost, broken>>

\* What reply answers for its end: the attempt, unless it failed.
Told(status) == IF status \in {"sent", "uncertain"} THEN "answered" ELSE "skipped"

\* A reply of a message deleted meanwhile has no attempt row left to answer with.
Ended(r, m, status) ==
  IF gone THEN Tell(r, "skipped") /\ lost' = lost \cup {m} /\ UNCHANGED attempt
  ELSE /\ attempt' = [attempt EXCEPT ![m] = status]
       /\ Tell(r, Told(status)) /\ UNCHANGED lost

Take(r, m) ==
  answers' = answers \cup {[message |-> m, to |-> SenderOf[m], at |-> now, span |-> pass[r].reply.span]}

\* The provider takes the reply, refuses it, or leaves it uncertain whether it did.
Submit(r) ==
  LET m == pass[r].message IN
  /\ pass[r].pc = "submit"
  /\ \/ Take(r, m) /\ Ended(r, m, "sent")
     \/ Take(r, m) /\ Ended(r, m, "uncertain")
     \/ Ended(r, m, "uncertain") /\ UNCHANGED answers
     \/ Ended(r, m, "failed") /\ UNCHANGED answers
  /\ UNCHANGED <<Rows, decision, heard, faults, broken>>

\* The end could not be written: an error, though the provider took the reply.
SubmitUnrecorded(r) ==
  LET m == pass[r].message IN
  /\ pass[r].pc = "submit" /\ Fault
  /\ Take(r, m)
  /\ Tell(r, "skipped")
  /\ lost' = lost \cup {m}
  /\ UNCHANGED <<Rows, decision, attempt, heard, broken>>

Record(r) ==
  /\ pass[r].pc = "record"
  /\ Decide(pass[r].message, pass[r].told)
  /\ Proceed(r)
  /\ UNCHANGED <<Rows, attempt, heard, faults, answers, lost, broken>>

PassFails(r) ==
  /\ pass[r].pc \in {"read", "list", "next", "check", "record"} /\ Fault
  /\ Fails(r)
  /\ UNCHANGED <<Rows, decision, attempt, heard, answers, lost>>

-----------------------------------------------------------------------------
(* Waiting for the next announcement. *)

Hear(s) ==
  /\ pass[s].pc = "wait" /\ heard[s]
  /\ heard' = [heard EXCEPT ![s] = FALSE]
  /\ Goto(s, "read")
  /\ UNCHANGED <<Rows, decision, attempt, faults, answers, lost, broken>>

Resumed_Wait(s) == Goto(s, "wait")   \* mutant: the new subscription is waited on at once

\* The subscription was made again; what was announced in between is looked for.
Resumed(s) == Goto(s, "read")

\* The subscription ended, with what it had to tell: made again, or never answered.
Unsubscribed(s) ==
  /\ pass[s].pc = "wait" /\ Fault
  /\ heard' = [heard EXCEPT ![s] = FALSE]
  /\ Resumed(s) \/ Goto(s, "deaf")
  /\ UNCHANGED <<Rows, decision, attempt, answers, lost, broken>>

\* A process stops anywhere.
Stop(r) ==
  /\ pass[r].pc # "down" /\ Fault
  /\ pass' = [pass EXCEPT ![r] = NoPass]
  /\ broken' = broken \ {r}
  /\ UNCHANGED <<Rows, decision, attempt, heard, answers, lost>>

PassStep(r) ==
  \/ ReadReply(r) \/ List(r) \/ Claim(r) \/ ClaimRefused(r) \/ EndPass(r) \/ Check(r) \/ ReadSource(r)
  \/ BeginReply(r) \/ Submit(r) \/ SubmitUnrecorded(r) \/ Record(r) \/ PassFails(r) \/ Stop(r)

ServiceStep(s) == StartService(s) \/ Hear(s) \/ Unsubscribed(s)

OperatorStep == SetReply \/ ClearReply \/ \E c \in Commands : Answer(c)

Next ==
  \/ \E r \in Responders : PassStep(r)
  \/ \E s \in Services : ServiceStep(s)
  \/ OperatorStep
  \/ \E m \in Messages : Receive(m)
  \/ DeleteMailbox
  \/ Tick

Spec == Init /\ [][Next]_vars

-----------------------------------------------------------------------------
(* Properties. *)

\* A message is answered at most once, and a decision that says why nothing was
\* sent is true: the provider took no reply to the message, unless the end of
\* that reply could not be recorded (record_auto_reply after reply).
AnswerIsTold ==
  \A m \in Messages :
    LET took == {a \in answers : a.message = m} IN
    /\ Cardinality(took) <= 1
    /\ took # {} /\ ~gone /\ m \notin lost => decision[m].state \in {"claimed", "answered"}

\* A service that waits with nothing to hear has overlooked nothing: every
\* stored message of the window is claimed, unless its last pass failed
\* (start_answering subscribes before it looks, and looks again).
NoneIsOverlooked ==
  \A s \in Services :
    pass[s].pc = "wait" /\ ~heard[s] /\ s \notin broken /\ reply # NoReply => Candidates(reply) = {}

\* What the code does not keep.  docs/replies/auto-reply.md: one sender is
\* answered at most once within the span, counted from the last automatic reply
\* that went to the address.
AnsweredOncePerSpan ==
  \A a, b \in answers :
    a.to = b.to /\ a.message # b.message /\ a.at <= b.at => b.at > a.at + b.span
=============================================================================
