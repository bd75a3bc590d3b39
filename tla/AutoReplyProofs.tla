--------------------------- MODULE AutoReplyProofs ---------------------------
(***************************************************************************)
(* A message is answered once and its decision is true, and no service     *)
(* waits over a message it could answer, for any number of services,       *)
(* commands, messages and senders.  What has to be added is what a pass    *)
(* knows of the message it has claimed, and of those it has yet to take.   *)
(***************************************************************************)
EXTENDS AutoReply, FiniteSetTheorems, TLAPS

Replies == [starts : 0 .. LastTime, ends : 1 .. Open, span : 0 .. LastTime]
Passes == [pc : Places, reply : Replies, todo : SUBSET Messages,
           message : Messages \cup {NoMessage}, told : {"none", "answered", "skipped"}]

\* The types of what a pass has, and of everything else.
PassTypes ==
  /\ pass \in [Responders -> Passes]
  /\ \A r \in Responders :
       /\ pass[r].pc \in Deciding <=> pass[r].message # NoMessage
       /\ pass[r].pc \in {"list", "next"} \cup Deciding => pass[r].reply # NoReply
       /\ pass[r].reply # NoReply => pass[r].reply.span > 0
       /\ pass[r].pc = "record" => pass[r].told # "none"
RowTypes ==
  /\ now \in Instants
  /\ reply \in Replies
  /\ reply # NoReply => reply.starts < reply.ends /\ reply.span > 0
  /\ received \in [Messages -> 0 .. LastTime]
  /\ gone \in BOOLEAN /\ (gone => reply = NoReply)
  /\ decision \in [Messages -> [state : Decisions, at : 0 .. LastTime]]
  /\ attempt \in [Messages -> Statuses]
  /\ heard \in [Services -> BOOLEAN]
  /\ faults \in 0 .. MaxFaults /\ changes \in 0 .. MaxChanges
  /\ answers \subseteq [message : Messages, to : Senders, at : Instants, span : Instants]
  /\ lost \subseteq Messages /\ broken \subseteq Services

Took(m) == {a \in answers : a.message = m}

\* A pass that decides a message has claimed it, and nobody else decides it.
\* Until its reply ends the provider took none, and at the submission the
\* attempt is there; afterwards what is to be recorded is so.
Claims(r) ==
  pass[r].pc \in Deciding =>
    LET m == pass[r].message IN
    /\ ~gone => decision[m].state = "claimed"
    /\ \A q \in Responders : pass[q].message = m => q = r
    /\ pass[r].pc # "record" => Took(m) = {}
    /\ pass[r].pc = "submit" /\ ~gone => attempt[m] # "none"
    /\ pass[r].pc = "record" /\ pass[r].told = "skipped" /\ ~gone /\ m \notin lost => Took(m) = {}

\* One answer at most; a message answered is claimed or decided for good.
Once(m) ==
  /\ \A a, b \in answers : a.message = m /\ b.message = m => a = b
  /\ Took(m) # {} /\ ~gone => decision[m].state # "none"
  /\ Took(m) # {} /\ ~gone /\ m \notin lost => decision[m].state \in {"claimed", "answered"}

\* A pass with nothing new to hear goes by the reply that is set, and has all
\* that is still to be decided before it.
Sees(s) ==
  ~heard[s] /\ s \notin broken /\ reply # NoReply =>
    /\ pass[s].pc \in {"list", "next"} \cup Deciding => pass[s].reply = reply
    /\ pass[s].pc \in {"next"} \cup Deciding => Candidates(reply) \subseteq pass[s].todo
    /\ pass[s].pc = "wait" => Candidates(reply) = {}

IInv ==
  /\ PassTypes /\ RowTypes
  /\ (\A r \in Responders : Claims(r)) /\ (\A m \in Messages : Once(m))
  /\ \A s \in Services : Sees(s)
-----------------------------------------------------------------------------
(* Proof of the types. *)

\* What each way to move a pass on makes of it.
LEMMA GotoPass ==
  ASSUME PassTypes, NEW r \in Responders, NEW place \in Places, Goto(r, place)
  PROVE  /\ pass' \in [Responders -> Passes]
         /\ \A q \in Responders \ {r} : pass'[q] = pass[q]
         /\ pass'[r].pc = place /\ pass'[r].reply = pass[r].reply /\ pass'[r].todo = pass[r].todo
         /\ pass'[r].message = pass[r].message /\ pass'[r].told = pass[r].told
  BY DEF PassTypes, Passes, Goto

LEMMA TellPass ==
  ASSUME PassTypes, NEW r \in Responders, NEW what \in {"answered", "skipped"}, Tell(r, what)
  PROVE  /\ pass' \in [Responders -> Passes]
         /\ \A q \in Responders \ {r} : pass'[q] = pass[q]
         /\ pass'[r].pc = "record" /\ pass'[r].reply = pass[r].reply /\ pass'[r].todo = pass[r].todo
         /\ pass'[r].message = pass[r].message /\ pass'[r].told = what
  BY DEF PassTypes, Passes, Tell, Places, Deciding

LEMMA ProceedPass ==
  ASSUME PassTypes, NEW r \in Responders, Proceed(r)
  PROVE  /\ pass' \in [Responders -> Passes]
         /\ \A q \in Responders \ {r} : pass'[q] = pass[q]
         /\ pass'[r].pc = "next" /\ pass'[r].reply = pass[r].reply /\ pass'[r].todo = pass[r].todo
         /\ pass'[r].message = NoMessage
  BY DEF PassTypes, Passes, Proceed, Places

LEMMA NoPassTypes == NoPass \in Passes /\ [NoPass EXCEPT !.pc = "wait"] \in Passes /\ NoReply \in Replies
  BY AutoReplyAssumption DEF NoPass, Passes, NoReply, Replies, Places, NotYet, Open

LEMMA OverPass ==
  ASSUME PassTypes, NEW r \in Responders, Over(r)
  PROVE  /\ pass' \in [Responders -> Passes]
         /\ \A q \in Responders \ {r} : pass'[q] = pass[q]
         /\ pass'[r].pc \in {"down", "wait"} /\ pass'[r].message = NoMessage /\ pass'[r].reply = NoReply
  <1>1. pass' \in [Responders -> Passes] /\ (\A q \in Responders \ {r} : pass'[q] = pass[q])
    BY NoPassTypes DEF PassTypes, Over
  <1>2. pass'[r] \in {NoPass, [NoPass EXCEPT !.pc = "wait"]}
    BY DEF PassTypes, Over
  <1>3. pass'[r].pc \in {"down", "wait"} /\ pass'[r].message = NoMessage /\ pass'[r].reply = NoReply
    BY <1>2 DEF NoPass
  <1> QED BY <1>1, <1>3

\* A pass that is listed for, and one that claims a message or passes it over.
LEMMA ReadPass ==
  ASSUME PassTypes, RowTypes, NEW r \in Responders, pass' = [pass EXCEPT ![r].pc = "list", ![r].reply = reply]
  PROVE  /\ pass' \in [Responders -> Passes]
         /\ \A q \in Responders \ {r} : pass'[q] = pass[q]
         /\ pass'[r].pc = "list" /\ pass'[r].reply = reply /\ pass'[r].message = pass[r].message
  BY DEF PassTypes, RowTypes, Passes, Places

LEMMA ListPass ==
  ASSUME PassTypes, NEW r \in Responders, NEW D \in SUBSET Messages,
         pass' = [pass EXCEPT ![r].pc = "next", ![r].todo = D]
  PROVE  /\ pass' \in [Responders -> Passes]
         /\ \A q \in Responders \ {r} : pass'[q] = pass[q]
         /\ pass'[r].pc = "next" /\ pass'[r].reply = pass[r].reply /\ pass'[r].todo = D
         /\ pass'[r].message = pass[r].message
  BY DEF PassTypes, Passes, Places

LEMMA ClaimPass ==
  ASSUME PassTypes, NEW r \in Responders, NEW m \in Messages,
         pass' = [pass EXCEPT ![r].pc = "check", ![r].message = m, ![r].todo = @ \ {m}]
  PROVE  /\ pass' \in [Responders -> Passes]
         /\ \A q \in Responders \ {r} : pass'[q] = pass[q]
         /\ pass'[r].pc = "check" /\ pass'[r].reply = pass[r].reply /\ pass'[r].todo = pass[r].todo \ {m}
         /\ pass'[r].message = m
  <1> USE DEF PassTypes, Passes
  <1>1. pass'[r] = [pass[r] EXCEPT !.pc = "check", !.message = m, !.todo = @ \ {m}]
    OBVIOUS
  <1>2. [pass[r] EXCEPT !.pc = "check", !.message = m, !.todo = @ \ {m}] \in Passes
    BY DEF Places, Deciding
  <1>3. pass' = [pass EXCEPT ![r] = [pass[r] EXCEPT !.pc = "check", !.message = m, !.todo = @ \ {m}]]
    OBVIOUS
  <1>4. pass' \in [Responders -> Passes] /\ \A q \in Responders \ {r} : pass'[q] = pass[q]
    BY <1>2, <1>3
  <1> QED BY <1>1, <1>4

LEMMA PassedOver ==
  ASSUME PassTypes, NEW r \in Responders, NEW m \in Messages, pass' = [pass EXCEPT ![r].todo = @ \ {m}]
  PROVE  /\ pass' \in [Responders -> Passes]
         /\ \A q \in Responders \ {r} : pass'[q] = pass[q]
         /\ pass'[r].pc = pass[r].pc /\ pass'[r].reply = pass[r].reply
         /\ pass'[r].todo = pass[r].todo \ {m}
         /\ pass'[r].message = pass[r].message /\ pass'[r].told = pass[r].told
  BY DEF PassTypes, Passes

LEMMA StepPassTypes ==
  ASSUME PassTypes, RowTypes, [Next]_vars
  PROVE  PassTypes'
  <1> USE DEF PassTypes, Places, Deciding, Responders, Rows
  <1>1. ASSUME NEW r \in Responders, ReadReply(r) PROVE PassTypes'
    <2>1. CASE Over(r)
      BY <2>1, OverPass
    <2>2. CASE pass' = [pass EXCEPT ![r].pc = "list", ![r].reply = reply] /\ reply # NoReply
      BY <1>1, <2>2, ReadPass DEF ReadReply, RowTypes
    <2> QED BY <1>1, <2>1, <2>2 DEF ReadReply
  <1>2. ASSUME NEW r \in Responders, List(r) PROVE PassTypes'
    <2>1. CASE Over(r)
      BY <2>1, OverPass
    <2>2. CASE \E D \in SUBSET Messages : pass' = [pass EXCEPT ![r].pc = "next", ![r].todo = D]
      <3>1. PICK D \in SUBSET Messages : pass' = [pass EXCEPT ![r].pc = "next", ![r].todo = D]
        BY <2>2
      <3>2. pass[r].pc = "list"
        BY <1>2 DEF List
      <3>3. /\ pass' \in [Responders -> Passes] /\ \A q \in Responders \ {r} : pass'[q] = pass[q]
            /\ pass'[r].pc = "next" /\ pass'[r].reply = pass[r].reply
            /\ pass'[r].message = pass[r].message
        BY <3>1, ListPass
      <3> QED BY <3>2, <3>3
    <2>3. Candidates(pass[r].reply) \in SUBSET Messages
      BY DEF Candidates, Stored
    <2> QED BY <1>2, <2>1, <2>2, <2>3 DEF List, Fails
  <1>3. ASSUME NEW r \in Responders, Claim(r) PROVE PassTypes'
    <2>1. PICK m \in pass[r].todo :
            \/ pass' = [pass EXCEPT ![r].pc = "check", ![r].message = m, ![r].todo = @ \ {m}]
            \/ pass' = [pass EXCEPT ![r].todo = @ \ {m}]
      BY <1>3 DEF Claim
    <2>2. m \in Messages /\ m # NoMessage /\ pass[r].pc = "next"
      BY <1>3, AutoReplyAssumption DEF Claim, Passes
    <2>3. CASE pass' = [pass EXCEPT ![r].pc = "check", ![r].message = m, ![r].todo = @ \ {m}]
      <3>1. /\ pass' \in [Responders -> Passes] /\ \A q \in Responders \ {r} : pass'[q] = pass[q]
            /\ pass'[r].pc = "check" /\ pass'[r].reply = pass[r].reply /\ pass'[r].message = m
        BY <2>2, <2>3, ClaimPass
      <3> QED BY <2>2, <3>1
    <2>4. CASE pass' = [pass EXCEPT ![r].todo = @ \ {m}]
      <3>1. /\ pass' \in [Responders -> Passes] /\ \A q \in Responders \ {r} : pass'[q] = pass[q]
            /\ pass'[r].pc = pass[r].pc /\ pass'[r].reply = pass[r].reply
            /\ pass'[r].message = pass[r].message /\ pass'[r].told = pass[r].told
        BY <2>2, <2>4, PassedOver
      <3> QED BY <2>2, <3>1
    <2> QED BY <2>1, <2>3, <2>4
  <1>4. ASSUME NEW r \in Responders, ClaimRefused(r) PROVE PassTypes'
    BY <1>4, OverPass DEF ClaimRefused, Fails
  <1>5. ASSUME NEW r \in Responders, EndPass(r) PROVE PassTypes'
    BY <1>5, OverPass DEF EndPass
  <1>6. ASSUME NEW r \in Responders, Check(r) PROVE PassTypes'
    <2>1. pass[r].pc = "check" /\ (Goto(r, "source") \/ Tell(r, "skipped"))
      BY <1>6 DEF Check
    <2> QED BY <2>1, GotoPass, TellPass
  <1>7. ASSUME NEW r \in Responders, ReadSource(r) PROVE PassTypes'
    <2>1. pass[r].pc = "source" /\ (Goto(r, "begin") \/ Tell(r, "skipped"))
      BY <1>7 DEF ReadSource
    <2> QED BY <2>1, GotoPass, TellPass
  <1>8. ASSUME NEW r \in Responders, BeginReply(r) PROVE PassTypes'
    <2>1. CASE Goto(r, "submit")
      BY <1>8, <2>1, GotoPass DEF BeginReply
    <2>2. CASE Tell(r, "answered")
      BY <1>8, <2>2, TellPass DEF BeginReply
    <2>3. CASE Tell(r, "skipped")
      BY <1>8, <2>3, TellPass DEF BeginReply
    <2> QED BY <1>8, <2>1, <2>2, <2>3 DEF BeginReply
  <1>9. ASSUME NEW r \in Responders, Submit(r) PROVE PassTypes'
    <2>1. pass[r].pc = "submit" /\ (Tell(r, "answered") \/ Tell(r, "skipped"))
      BY <1>9 DEF Submit, Ended, Told
    <2> QED BY <2>1, TellPass
  <1>10. ASSUME NEW r \in Responders, SubmitUnrecorded(r) PROVE PassTypes'
    <2>1. pass[r].pc = "submit" /\ Tell(r, "skipped")
      BY <1>10 DEF SubmitUnrecorded
    <2> QED BY <2>1, TellPass
  <1>11. ASSUME NEW r \in Responders, Record(r) PROVE PassTypes'
    BY <1>11, ProceedPass DEF Record, Decide
  <1>12. ASSUME NEW r \in Responders, PassFails(r) PROVE PassTypes'
    BY <1>12, OverPass DEF PassFails, Fault, Fails
  <1>13. ASSUME NEW r \in Responders, Stop(r) PROVE PassTypes'
    BY <1>13, NoPassTypes DEF Stop, Fault, NoPass
  <1>14. ASSUME NEW s \in Services, StartService(s) PROVE PassTypes'
    <2>1. s \in Responders /\ pass[s].pc = "down" /\ Goto(s, "read")
      BY <1>14 DEF StartService
    <2> QED BY <2>1, GotoPass
  <1>15. ASSUME NEW s \in Services, Hear(s) PROVE PassTypes'
    <2>1. s \in Responders /\ pass[s].pc = "wait" /\ Goto(s, "read")
      BY <1>15 DEF Hear
    <2> QED BY <2>1, GotoPass
  <1>16. ASSUME NEW s \in Services, Unsubscribed(s) PROVE PassTypes'
    <2>1. s \in Responders /\ pass[s].pc = "wait" /\ (Goto(s, "read") \/ Goto(s, "deaf"))
      BY <1>16 DEF Unsubscribed, Resumed
    <2> QED BY <2>1, GotoPass
  <1>17. ASSUME NEW c \in Commands, Answer(c) PROVE PassTypes'
    <2>1. c \in Responders /\ pass[c].pc = "down" /\ Goto(c, "read")
      BY <1>17 DEF Answer
    <2> QED BY <2>1, GotoPass
  <1>18. ASSUME SetReply PROVE PassTypes'
    BY <1>18 DEF SetReply, Announce, Settable
  <1>19. ASSUME ClearReply PROVE PassTypes'
    BY <1>19 DEF ClearReply
  <1>20. ASSUME NEW m \in Messages, Receive(m) PROVE PassTypes'
    BY <1>20 DEF Receive, Announce
  <1>21. ASSUME DeleteMailbox PROVE PassTypes'
    BY <1>21 DEF DeleteMailbox
  <1>22. ASSUME Tick PROVE PassTypes'
    BY <1>22 DEF Tick
  <1>23. CASE UNCHANGED vars
    BY <1>23 DEF vars
  <1> QED
    BY <1>1, <1>2, <1>3, <1>4, <1>5, <1>6, <1>7, <1>8, <1>9, <1>10, <1>11, <1>12, <1>13,
       <1>14, <1>15, <1>16, <1>17, <1>18, <1>19, <1>20, <1>21, <1>22, <1>23
    DEF Next, PassStep, ServiceStep, OperatorStep

LEMMA StepRowTypes ==
  ASSUME PassTypes, RowTypes, [Next]_vars
  PROVE  RowTypes'
  <1> USE AutoReplyAssumption DEF PassTypes, RowTypes, Passes, Replies, Decisions, Statuses,
     Instants, NoReply, NotYet, Open, Rows, Responders, Deciding
  <1>1. ASSUME NEW r \in Responders, ReadReply(r) PROVE RowTypes'
    BY <1>1 DEF ReadReply
  <1>2. ASSUME NEW r \in Responders, List(r) PROVE RowTypes'
    BY <1>2 DEF List, Fails
  <1>3. ASSUME NEW r \in Responders, Claim(r) PROVE RowTypes'
    BY <1>3 DEF Claim, Decide, Unclaimed
  <1>4. ASSUME NEW r \in Responders, ClaimRefused(r) PROVE RowTypes'
    BY <1>4 DEF ClaimRefused, Fails
  <1>5. ASSUME NEW r \in Responders, EndPass(r) PROVE RowTypes'
    BY <1>5 DEF EndPass
  <1>6. ASSUME NEW r \in Responders, Check(r) PROVE RowTypes'
    BY <1>6 DEF Check
  <1>7. ASSUME NEW r \in Responders, ReadSource(r) PROVE RowTypes'
    BY <1>7 DEF ReadSource, Headers
  <1>8. ASSUME NEW r \in Responders, BeginReply(r) PROVE RowTypes'
    <2>1. pass[r].message \in Messages
      BY <1>8 DEF BeginReply
    <2>2. attempt' \in {attempt, [attempt EXCEPT ![pass[r].message] = "sending"]}
      BY <1>8 DEF BeginReply
    <2> QED BY <1>8, <2>1, <2>2 DEF BeginReply
  <1>9. ASSUME NEW r \in Responders, Submit(r) PROVE RowTypes'
    BY <1>9 DEF Submit, Take, Ended, Told
  <1>10. ASSUME NEW r \in Responders, SubmitUnrecorded(r) PROVE RowTypes'
    BY <1>10 DEF SubmitUnrecorded, Take, Fault
  <1>11. ASSUME NEW r \in Responders, Record(r) PROVE RowTypes'
    BY <1>11 DEF Record, Decide
  <1>12. ASSUME NEW r \in Responders, PassFails(r) PROVE RowTypes'
    BY <1>12 DEF PassFails, Fault, Fails
  <1>13. ASSUME NEW r \in Responders, Stop(r) PROVE RowTypes'
    BY <1>13 DEF Stop, Fault
  <1>14. ASSUME NEW s \in Services, StartService(s) PROVE RowTypes'
    BY <1>14 DEF StartService
  <1>15. ASSUME NEW s \in Services, Hear(s) PROVE RowTypes'
    BY <1>15 DEF Hear
  <1>16. ASSUME NEW s \in Services, Unsubscribed(s) PROVE RowTypes'
    BY <1>16 DEF Unsubscribed, Fault, Resumed
  <1>17. ASSUME NEW c \in Commands, Answer(c) PROVE RowTypes'
    BY <1>17 DEF Answer
  <1>18. ASSUME SetReply PROVE RowTypes'
    BY <1>18 DEF SetReply, Announce, Settable
  <1>19. ASSUME ClearReply PROVE RowTypes'
    BY <1>19 DEF ClearReply
  <1>20. ASSUME NEW m \in Messages, Receive(m) PROVE RowTypes'
    BY <1>20 DEF Receive, Announce
  <1>21. ASSUME DeleteMailbox PROVE RowTypes'
    BY <1>21 DEF DeleteMailbox
  <1>22. ASSUME Tick PROVE RowTypes'
    BY <1>22 DEF Tick
  <1>23. CASE UNCHANGED vars
    BY <1>23 DEF vars
  <1> QED
    BY <1>1, <1>2, <1>3, <1>4, <1>5, <1>6, <1>7, <1>8, <1>9, <1>10, <1>11, <1>12, <1>13,
       <1>14, <1>15, <1>16, <1>17, <1>18, <1>19, <1>20, <1>21, <1>22, <1>23
    DEF Next, PassStep, ServiceStep, OperatorStep

-----------------------------------------------------------------------------
(* What a pass knows of its message. *)

\* A step that leaves every decision, attempt and answer as it is, and moves at
\* most one pass on.
LEMMA QuietStep ==
  ASSUME PassTypes, \A q \in Responders : Claims(q), \A m \in Messages : Once(m),
         UNCHANGED <<gone, decision, attempt, answers, lost>>,
         NEW r \in Responders, \A q \in Responders \ {r} : pass'[q] = pass[q],
         pass'[r].message \in {pass[r].message, NoMessage},
         pass'[r].pc \in Deciding =>
           /\ pass[r].pc \in Deciding /\ pass'[r].message = pass[r].message
           /\ pass'[r].pc = "submit" => pass[r].pc = "submit"
           /\ pass[r].pc = "record" => pass'[r].pc = "record" /\ pass'[r].told = pass[r].told
  PROVE  (\A q \in Responders : Claims(q)') /\ (\A m \in Messages : Once(m)')
  <1>1. ASSUME NEW m \in Messages PROVE Once(m)'
    BY DEF Once, Took
  <1>2. ASSUME NEW q \in Responders, pass'[q].pc \in Deciding PROVE Claims(q)'
    <2>1. /\ pass[q].pc \in Deciding /\ pass'[q].message = pass[q].message
          /\ pass'[q].message \in Messages
      BY <1>2 DEF PassTypes, Passes
    <2>2. \A x \in Responders : pass'[x].message = pass'[q].message => x = q
      BY <2>1, AutoReplyAssumption DEF Claims
    <2>3. CASE q = r
      BY <1>2, <2>1, <2>2, <2>3 DEF Claims, Took
    <2>4. CASE q # r
      BY <1>2, <2>1, <2>2, <2>4 DEF Claims, Took
    <2> QED BY <2>3, <2>4
  <1>3. ASSUME NEW q \in Responders PROVE Claims(q)'
    BY <1>2 DEF Claims
  <1> QED BY <1>1, <1>3

\* A step of one pass about the message it decides disturbs no other.
LEMMA OthersStand ==
  ASSUME PassTypes, NEW r \in Responders, NEW q \in Responders \ {r}, Claims(q),
         pass'[q] = pass[q], \A x \in Responders : pass'[x].message \in {pass[x].message, NoMessage},
         gone' = gone,
         \A m \in Messages : m # pass[r].message =>
           /\ decision'[m] = decision[m] /\ attempt'[m] = attempt[m] /\ Took(m)' = Took(m)
           /\ m \in lost => m \in lost'
  PROVE  Claims(q)'
  <1>1. CASE pass[q].pc \in Deciding
    <2>1. pass[q].message \in Messages /\ pass[q].message # pass[r].message
      BY <1>1 DEF PassTypes, Passes, Claims
    <2>2. \A x \in Responders : pass'[x].message = pass'[q].message => x = q
      BY <1>1, <2>1, AutoReplyAssumption DEF Claims
    <2> QED BY <1>1, <2>1, <2>2 DEF Claims
  <1>2. CASE pass[q].pc \notin Deciding
    BY <1>2 DEF Claims
  <1> QED BY <1>1, <1>2

LEMMA StillStands ==
  ASSUME PassTypes, \A q \in Responders : Claims(q), \A m \in Messages : Once(m),
         UNCHANGED <<pass, gone, decision, attempt, answers, lost>>
  PROVE  (\A q \in Responders : Claims(q)') /\ (\A m \in Messages : Once(m)')
  BY DEF Claims, Once, Took

LEMMA StepClaims ==
  ASSUME PassTypes, RowTypes, \A q \in Responders : Claims(q), \A m \in Messages : Once(m), [Next]_vars
  PROVE  (\A q \in Responders : Claims(q)') /\ (\A m \in Messages : Once(m)')
  <1> USE DEF Rows, Responders, Deciding
  <1>1. ASSUME NEW r \in Responders, ReadReply(r)
        PROVE  (\A q \in Responders : Claims(q)') /\ (\A m \in Messages : Once(m)')
    <2>1. UNCHANGED <<gone, decision, attempt, answers, lost>>
      BY <1>1 DEF ReadReply
    <2>2. CASE Over(r)
      <3>1. /\ \A q \in Responders \ {r} : pass'[q] = pass[q]
            /\ pass'[r].pc \notin Deciding /\ pass'[r].message = NoMessage
        BY <2>2, OverPass
      <3> QED BY <2>1, <3>1, QuietStep
    <2>3. CASE pass' = [pass EXCEPT ![r].pc = "list", ![r].reply = reply]
      <3>1. /\ \A q \in Responders \ {r} : pass'[q] = pass[q]
            /\ pass'[r].pc \notin Deciding /\ pass'[r].message = pass[r].message
        BY <2>3, ReadPass
      <3> QED BY <2>1, <3>1, QuietStep
    <2> QED BY <1>1, <2>2, <2>3 DEF ReadReply
  <1>2. ASSUME NEW r \in Responders, List(r)
        PROVE  (\A q \in Responders : Claims(q)') /\ (\A m \in Messages : Once(m)')
    <2>1. UNCHANGED <<gone, decision, attempt, answers, lost>>
      BY <1>2 DEF List
    <2>2. CASE Over(r)
      <3>1. /\ \A q \in Responders \ {r} : pass'[q] = pass[q]
            /\ pass'[r].pc \notin Deciding /\ pass'[r].message = NoMessage
        BY <2>2, OverPass
      <3> QED BY <2>1, <3>1, QuietStep
    <2>3. CASE \E D \in SUBSET Messages : pass' = [pass EXCEPT ![r].pc = "next", ![r].todo = D]
      <3>1. /\ \A q \in Responders \ {r} : pass'[q] = pass[q]
            /\ pass'[r].pc \notin Deciding /\ pass'[r].message = pass[r].message
        BY <2>3, ListPass
      <3> QED BY <2>1, <3>1, QuietStep
    <2>4. Candidates(pass[r].reply) \in SUBSET Messages
      BY DEF Candidates, Stored
    <2> QED BY <1>2, <2>2, <2>3, <2>4 DEF List, Fails
  <1>3. ASSUME NEW r \in Responders, Claim(r)
        PROVE  (\A q \in Responders : Claims(q)') /\ (\A m \in Messages : Once(m)')
    <2>1. /\ UNCHANGED <<gone, attempt, answers, lost>> /\ ~gone
          /\ pass[r].pc = "next" /\ pass[r].message = NoMessage
      BY <1>3 DEF Claim, PassTypes
    <2>2. CASE \E m \in pass[r].todo : pass' = [pass EXCEPT ![r].todo = @ \ {m}] /\ UNCHANGED decision
      <3>1. /\ \A q \in Responders \ {r} : pass'[q] = pass[q]
            /\ pass'[r].pc \notin Deciding /\ pass'[r].message = pass[r].message
        BY <2>1, <2>2, PassedOver DEF PassTypes, Passes
      <3> QED BY <2>1, <2>2, <3>1, QuietStep
    <2>3. CASE \E m \in pass[r].todo :
                 /\ Unclaimed(m) /\ Decide(m, "claimed")
                 /\ pass' = [pass EXCEPT ![r].pc = "check", ![r].message = m, ![r].todo = @ \ {m}]
      <3>1. PICK m \in pass[r].todo :
                 /\ Unclaimed(m) /\ Decide(m, "claimed")
                 /\ pass' = [pass EXCEPT ![r].pc = "check", ![r].message = m, ![r].todo = @ \ {m}]
        BY <2>3
      <3>2. m \in Messages
        BY DEF PassTypes, Passes
      <3>3. /\ \A q \in Responders \ {r} : pass'[q] = pass[q]
            /\ pass'[r].pc = "check" /\ pass'[r].message = m
        BY <3>1, <3>2, ClaimPass
      <3>4. /\ decision[m].state = "none" /\ decision'[m].state = "claimed"
            /\ \A x \in Messages \ {m} : decision'[x] = decision[x]
        BY <2>1, <3>1, <3>2 DEF Unclaimed, Decide, RowTypes
      <3>5. \A q \in Responders : pass[q].message # m
        <4>1. ASSUME NEW q \in Responders, pass[q].message = m PROVE FALSE
          <5>1. pass[q].pc \in Deciding
            BY <3>2, <4>1, AutoReplyAssumption DEF PassTypes
          <5> QED BY <2>1, <3>4, <4>1, <5>1 DEF Claims
        <4> QED BY <4>1
      <3>6. Took(m) = {}
        BY <2>1, <3>2, <3>4 DEF Once
      <3>7. ASSUME NEW q \in Responders PROVE Claims(q)'
        <4>1. CASE q = r
          BY <2>1, <3>3, <3>4, <3>5, <3>6, <4>1 DEF Claims, Took
        <4>2. CASE q # r
          <5>1. pass'[q] = pass[q] /\ pass[q].message # m
            BY <3>3, <3>5, <4>2
          <5>2. pass[q].pc \in Deciding => decision'[pass[q].message] = decision[pass[q].message]
            BY <3>4, <5>1 DEF PassTypes, Passes
          <5>3. \A x \in Responders : pass'[x].message = pass[q].message => pass[x].message = pass[q].message
            BY <3>3, <3>5
          <5> QED BY <2>1, <5>1, <5>2, <5>3 DEF Claims, Took
        <4> QED BY <4>1, <4>2
      <3>8. ASSUME NEW x \in Messages PROVE Once(x)'
        <4>1. Took(x)' = Took(x)
          BY <2>1 DEF Took
        <4>2. CASE x = m
          BY <2>1, <3>4, <3>6, <4>1, <4>2 DEF Once
        <4>3. CASE x # m
          BY <2>1, <3>4, <4>1, <4>3 DEF Once
        <4> QED BY <4>2, <4>3
      <3> QED BY <3>7, <3>8
    <2> QED BY <1>3, <2>2, <2>3 DEF Claim
  <1>4. ASSUME NEW r \in Responders, ClaimRefused(r)
        PROVE  (\A q \in Responders : Claims(q)') /\ (\A m \in Messages : Once(m)')
    <2>1. UNCHANGED <<gone, decision, attempt, answers, lost>>
      BY <1>4 DEF ClaimRefused, Fails
    <2>2. Over(r)
      BY <1>4 DEF ClaimRefused, Fails
    <2>3. /\ \A q \in Responders \ {r} : pass'[q] = pass[q]
          /\ pass'[r].pc \notin Deciding /\ pass'[r].message = NoMessage
      BY <2>2, OverPass
    <2> QED BY <2>1, <2>3, QuietStep
  <1>5. ASSUME NEW r \in Responders, EndPass(r)
        PROVE  (\A q \in Responders : Claims(q)') /\ (\A m \in Messages : Once(m)')
    <2>1. UNCHANGED <<gone, decision, attempt, answers, lost>>
      BY <1>5 DEF EndPass, Fails
    <2>2. Over(r)
      BY <1>5 DEF EndPass, Fails
    <2>3. /\ \A q \in Responders \ {r} : pass'[q] = pass[q]
          /\ pass'[r].pc \notin Deciding /\ pass'[r].message = NoMessage
      BY <2>2, OverPass
    <2> QED BY <2>1, <2>3, QuietStep
  <1>6. ASSUME NEW r \in Responders, Check(r)
        PROVE  (\A q \in Responders : Claims(q)') /\ (\A m \in Messages : Once(m)')
    <2>1. /\ UNCHANGED <<gone, decision, attempt, answers, lost>>
          /\ pass[r].pc = "check" /\ (Goto(r, "source") \/ Tell(r, "skipped"))
      BY <1>6 DEF Check
    <2>2. /\ \A q \in Responders \ {r} : pass'[q] = pass[q]
          /\ pass'[r].pc \in {"source", "record"} /\ pass'[r].message = pass[r].message
      BY <2>1, GotoPass, TellPass DEF Places
    <2> QED BY <2>1, <2>2, QuietStep
  <1>7. ASSUME NEW r \in Responders, ReadSource(r)
        PROVE  (\A q \in Responders : Claims(q)') /\ (\A m \in Messages : Once(m)')
    <2>1. /\ UNCHANGED <<gone, decision, attempt, answers, lost>>
          /\ pass[r].pc = "source" /\ (Goto(r, "begin") \/ Tell(r, "skipped"))
      BY <1>7 DEF ReadSource
    <2>2. /\ \A q \in Responders \ {r} : pass'[q] = pass[q]
          /\ pass'[r].pc \in {"begin", "record"} /\ pass'[r].message = pass[r].message
      BY <2>1, GotoPass, TellPass DEF Places
    <2> QED BY <2>1, <2>2, QuietStep
  <1>8. ASSUME NEW r \in Responders, BeginReply(r)
        PROVE  (\A q \in Responders : Claims(q)') /\ (\A m \in Messages : Once(m)')
    <2>1. /\ UNCHANGED <<gone, decision, answers, lost>>
          /\ pass[r].pc = "begin" /\ pass[r].message \in Messages
      BY <1>8 DEF BeginReply, PassTypes, Passes
    <2>2. CASE /\ Goto(r, "submit") /\ attempt' = [attempt EXCEPT ![pass[r].message] = "sending"]
      <3>1. /\ \A q \in Responders \ {r} : pass'[q] = pass[q]
            /\ pass'[r].pc = "submit" /\ pass'[r].message = pass[r].message
        BY <2>2, GotoPass DEF Places
      <3>2. /\ attempt'[pass[r].message] = "sending"
            /\ \A m \in Messages : m # pass[r].message => attempt'[m] = attempt[m]
        BY <2>1, <2>2 DEF RowTypes
      <3>3. Claims(r)'
        BY <2>1, <3>1, <3>2 DEF Claims, Took
      <3>4. ASSUME NEW q \in Responders \ {r} PROVE Claims(q)'
        BY <2>1, <3>1, <3>2, OthersStand DEF Took
      <3>5. ASSUME NEW m \in Messages PROVE Once(m)'
        BY <2>1 DEF Once, Took
      <3> QED BY <3>3, <3>4, <3>5
    <2>3. CASE UNCHANGED attempt /\ (Tell(r, "answered") \/ Tell(r, "skipped"))
      <3>1. /\ \A q \in Responders \ {r} : pass'[q] = pass[q]
            /\ pass'[r].pc = "record" /\ pass'[r].message = pass[r].message
        BY <2>3, TellPass
      <3> QED BY <2>1, <2>3, <3>1, QuietStep
    <2> QED BY <1>8, <2>2, <2>3 DEF BeginReply
  <1>9. ASSUME NEW r \in Responders, Submit(r)
        PROVE  (\A q \in Responders : Claims(q)') /\ (\A m \in Messages : Once(m)')
    <2>1. /\ UNCHANGED <<gone, decision>>
          /\ pass[r].pc = "submit" /\ pass[r].message \in Messages
          /\ Tell(r, "answered") \/ Tell(r, "skipped")
          /\ lost \subseteq lost'
          /\ \A m \in Messages : m # pass[r].message => attempt'[m] = attempt[m]
      BY <1>9 DEF Submit, Ended, Told, PassTypes, Passes, RowTypes, Rows
    <2>2. /\ \/ answers' = answers
             \/ \E x : x.message = pass[r].message /\ answers' = answers \cup {x}
          /\ Tell(r, "skipped") /\ ~gone => answers' = answers
      <3>1. Tell(r, "answered") => ~Tell(r, "skipped")
        <4>1. ASSUME Tell(r, "answered"), Tell(r, "skipped") PROVE FALSE
          <5>1. pass'[r].told = "answered"
            BY <4>1, TellPass
          <5>2. pass'[r].told = "skipped"
            BY <4>1, TellPass
          <5> QED BY <5>1, <5>2
        <4> QED BY <4>1
      <3>2. /\ \/ answers' = answers
               \/ Take(r, pass[r].message) /\ (gone \/ Tell(r, "answered"))
        BY <1>9 DEF Submit, Ended, Told
      <3>3. Take(r, pass[r].message) =>
              \E x : x.message = pass[r].message /\ answers' = answers \cup {x}
        BY DEF Take
      <3> QED BY <3>1, <3>2, <3>3
    <2>3. /\ \A q \in Responders \ {r} : pass'[q] = pass[q]
          /\ pass'[r].pc = "record" /\ pass'[r].message = pass[r].message
          /\ pass'[r].told = "skipped" => Tell(r, "skipped")
      BY <2>1, TellPass
    <2>4. /\ ~gone => decision[pass[r].message].state = "claimed"
          /\ Took(pass[r].message) = {}
          /\ \A q \in Responders : pass[q].message = pass[r].message => q = r
      BY <2>1 DEF Claims
    <2>5. \A m \in Messages : m # pass[r].message => Took(m)' = Took(m)
      BY <2>2 DEF Took
    <2>6. Claims(r)'
      BY <2>1, <2>2, <2>3, <2>4 DEF Claims, Took
    <2>7. ASSUME NEW q \in Responders \ {r} PROVE Claims(q)'
      BY <2>1, <2>3, <2>5, OthersStand
    <2>8. ASSUME NEW m \in Messages PROVE Once(m)'
      <3>1. CASE m = pass[r].message
        <4>1. \A x \in answers : x.message # m
          BY <2>4, <3>1 DEF Took
        <4>2. \A x, y \in answers' : x.message = m /\ y.message = m => x = y
          BY <2>2, <4>1
        <4> QED BY <2>1, <2>4, <3>1, <4>2 DEF Once
      <3>2. CASE m # pass[r].message
        <4>1. Took(m)' = Took(m)
          BY <2>5, <3>2
        <4>2. \A x, y \in answers' : x.message = m /\ y.message = m => x = y
          BY <2>2, <3>2 DEF Once
        <4> QED BY <2>1, <4>1, <4>2 DEF Once
      <3> QED BY <3>1, <3>2
    <2> QED BY <2>6, <2>7, <2>8
  <1>10. ASSUME NEW r \in Responders, SubmitUnrecorded(r)
         PROVE  (\A q \in Responders : Claims(q)') /\ (\A m \in Messages : Once(m)')
    <2>1. /\ UNCHANGED <<gone, decision, attempt>>
          /\ pass[r].pc = "submit" /\ pass[r].message \in Messages
          /\ Tell(r, "answered") \/ Tell(r, "skipped")
          /\ lost' = lost \cup {pass[r].message}
      BY <1>10 DEF SubmitUnrecorded, PassTypes, Passes
    <2>2. \E x : x.message = pass[r].message /\ answers' = answers \cup {x}
      BY <1>10 DEF SubmitUnrecorded, Take
    <2>3. /\ \A q \in Responders \ {r} : pass'[q] = pass[q]
          /\ pass'[r].pc = "record" /\ pass'[r].message = pass[r].message
          /\ pass'[r].told = "skipped" => Tell(r, "skipped")
      BY <2>1, TellPass
    <2>4. /\ ~gone => decision[pass[r].message].state = "claimed"
          /\ Took(pass[r].message) = {}
          /\ \A q \in Responders : pass[q].message = pass[r].message => q = r
      BY <2>1 DEF Claims
    <2>5. \A m \in Messages : m # pass[r].message => Took(m)' = Took(m)
      BY <2>2 DEF Took
    <2>6. Claims(r)'
      BY <2>1, <2>2, <2>3, <2>4 DEF Claims, Took
    <2>7. ASSUME NEW q \in Responders \ {r} PROVE Claims(q)'
      BY <2>1, <2>3, <2>5, OthersStand
    <2>8. ASSUME NEW m \in Messages PROVE Once(m)'
      <3>1. CASE m = pass[r].message
        <4>1. \A x \in answers : x.message # m
          BY <2>4, <3>1 DEF Took
        <4>2. \A x, y \in answers' : x.message = m /\ y.message = m => x = y
          BY <2>2, <4>1
        <4> QED BY <2>1, <2>4, <3>1, <4>2 DEF Once
      <3>2. CASE m # pass[r].message
        <4>1. Took(m)' = Took(m)
          BY <2>5, <3>2
        <4>2. \A x, y \in answers' : x.message = m /\ y.message = m => x = y
          BY <2>2, <3>2 DEF Once
        <4> QED BY <2>1, <4>1, <4>2 DEF Once
      <3> QED BY <3>1, <3>2
    <2> QED BY <2>6, <2>7, <2>8
  <1>11. ASSUME NEW r \in Responders, Record(r)
         PROVE  (\A q \in Responders : Claims(q)') /\ (\A m \in Messages : Once(m)')
    <2>1. /\ UNCHANGED <<gone, attempt, answers, lost>> /\ Proceed(r)
          /\ pass[r].pc = "record" /\ pass[r].message \in Messages
          /\ pass[r].told \in {"answered", "skipped"}
      BY <1>11 DEF Record, PassTypes, Passes
    <2>2. /\ \A q \in Responders \ {r} : pass'[q] = pass[q]
          /\ pass'[r].pc = "next" /\ pass'[r].message = NoMessage
      BY <2>1, ProceedPass
    <2>3. /\ ~gone => decision'[pass[r].message].state = pass[r].told
          /\ \A m \in Messages : m # pass[r].message => decision'[m] = decision[m]
      BY <1>11, <2>1 DEF Record, Decide, RowTypes
    <2>4. Claims(r)'
      BY <2>2 DEF Claims
    <2>5. ASSUME NEW q \in Responders \ {r} PROVE Claims(q)'
      BY <2>1, <2>2, <2>3, OthersStand DEF Took
    <2>6. ASSUME NEW m \in Messages PROVE Once(m)'
      <3>1. Took(m)' = Took(m)
        BY <2>1 DEF Took
      <3>2. CASE m = pass[r].message
        BY <2>1, <2>3, <3>1, <3>2 DEF Once, Claims
      <3>3. CASE m # pass[r].message
        BY <2>1, <2>3, <3>1, <3>3 DEF Once
      <3> QED BY <3>2, <3>3
    <2> QED BY <2>4, <2>5, <2>6
  <1>12. ASSUME NEW r \in Responders, PassFails(r)
         PROVE  (\A q \in Responders : Claims(q)') /\ (\A m \in Messages : Once(m)')
    <2>1. UNCHANGED <<gone, decision, attempt, answers, lost>>
      BY <1>12 DEF PassFails, Fails
    <2>2. Over(r)
      BY <1>12 DEF PassFails, Fails
    <2>3. /\ \A q \in Responders \ {r} : pass'[q] = pass[q]
          /\ pass'[r].pc \notin Deciding /\ pass'[r].message = NoMessage
      BY <2>2, OverPass
    <2> QED BY <2>1, <2>3, QuietStep
  <1>13. ASSUME NEW r \in Responders, Stop(r)
         PROVE  (\A q \in Responders : Claims(q)') /\ (\A m \in Messages : Once(m)')
    <2>1. /\ UNCHANGED <<gone, decision, attempt, answers, lost>>
          /\ pass' = [pass EXCEPT ![r] = NoPass]
      BY <1>13 DEF Stop
    <2>2. /\ \A q \in Responders \ {r} : pass'[q] = pass[q]
          /\ pass'[r].pc \notin Deciding /\ pass'[r].message = NoMessage
      BY <2>1 DEF PassTypes, NoPass
    <2> QED BY <2>1, <2>2, QuietStep
  <1>14. ASSUME NEW s \in Services, StartService(s)
         PROVE  (\A q \in Responders : Claims(q)') /\ (\A m \in Messages : Once(m)')
    <2>1. /\ UNCHANGED <<gone, decision, answers, lost>> /\ s \in Responders /\ Goto(s, "read")
          /\ \A m \in Messages : attempt'[m] = "none" => attempt[m] = "none"
      BY <1>14 DEF StartService, RowTypes
    <2>2. /\ \A q \in Responders \ {s} : pass'[q] = pass[q]
          /\ pass'[s].pc \notin Deciding /\ pass'[s].message = pass[s].message
      BY <2>1, GotoPass DEF Places
    <2>3. ASSUME NEW q \in Responders PROVE Claims(q)'
      <3>1. pass[q].pc \in Deciding => pass[q].message \in Messages
        BY DEF PassTypes, Passes
      <3>2. \A x \in Responders : pass'[x].message = pass[x].message
        BY <2>2
      <3>3. CASE q = s
        BY <2>2, <3>3 DEF Claims
      <3>4. CASE q # s
        <4>1. pass'[q] = pass[q]
          BY <2>2, <3>4
        <4> QED BY <2>1, <3>1, <3>2, <4>1 DEF Claims, Took
      <3> QED BY <3>3, <3>4
    <2>4. ASSUME NEW m \in Messages PROVE Once(m)'
      BY <2>1 DEF Once, Took
    <2> QED BY <2>3, <2>4
  <1>15. ASSUME NEW s \in Services, Hear(s)
         PROVE  (\A q \in Responders : Claims(q)') /\ (\A m \in Messages : Once(m)')
    <2>1. /\ UNCHANGED <<gone, decision, attempt, answers, lost>>
          /\ s \in Responders /\ (Goto(s, "read"))
      BY <1>15 DEF Hear
    <2>2. /\ \A q \in Responders \ {s} : pass'[q] = pass[q]
          /\ pass'[s].pc \notin Deciding /\ pass'[s].message = pass[s].message
      BY <2>1, GotoPass DEF Places
    <2> QED BY <2>1, <2>2, QuietStep
  <1>16. ASSUME NEW s \in Services, Unsubscribed(s)
         PROVE  (\A q \in Responders : Claims(q)') /\ (\A m \in Messages : Once(m)')
    <2>1. /\ UNCHANGED <<gone, decision, attempt, answers, lost>>
          /\ s \in Responders /\ (Goto(s, "read") \/ Goto(s, "deaf"))
      BY <1>16 DEF Unsubscribed, Resumed
    <2>2. /\ \A q \in Responders \ {s} : pass'[q] = pass[q]
          /\ pass'[s].pc \notin Deciding /\ pass'[s].message = pass[s].message
      BY <2>1, GotoPass DEF Places
    <2> QED BY <2>1, <2>2, QuietStep
  <1>17. ASSUME NEW c \in Commands, Answer(c)
         PROVE  (\A q \in Responders : Claims(q)') /\ (\A m \in Messages : Once(m)')
    <2>1. /\ UNCHANGED <<gone, decision, attempt, answers, lost>>
          /\ c \in Responders /\ (Goto(c, "read"))
      BY <1>17 DEF Answer
    <2>2. /\ \A q \in Responders \ {c} : pass'[q] = pass[q]
          /\ pass'[c].pc \notin Deciding /\ pass'[c].message = pass[c].message
      BY <2>1, GotoPass DEF Places
    <2> QED BY <2>1, <2>2, QuietStep
  <1>18. ASSUME SetReply PROVE (\A q \in Responders : Claims(q)') /\ (\A m \in Messages : Once(m)')
    <2>1. UNCHANGED <<gone, decision, attempt, answers, lost>> /\ pass' = pass
      BY <1>18 DEF SetReply
    <2> QED BY <2>1, StillStands
  <1>19. ASSUME ClearReply
         PROVE  (\A q \in Responders : Claims(q)') /\ (\A m \in Messages : Once(m)')
    <2>1. UNCHANGED <<gone, decision, attempt, answers, lost>> /\ pass' = pass
      BY <1>19 DEF ClearReply
    <2> QED BY <2>1, StillStands
  <1>20. ASSUME NEW m \in Messages, Receive(m)
         PROVE  (\A q \in Responders : Claims(q)') /\ (\A n \in Messages : Once(n)')
    <2>1. UNCHANGED <<gone, decision, attempt, answers, lost>> /\ pass' = pass
      BY <1>20 DEF Receive
    <2> QED BY <2>1, StillStands
  <1>21. ASSUME DeleteMailbox
         PROVE  (\A q \in Responders : Claims(q)') /\ (\A m \in Messages : Once(m)')
    <2>1. UNCHANGED <<pass, answers, lost>> /\ gone'
      BY <1>21 DEF DeleteMailbox
    <2> QED BY <2>1 DEF Claims, Once, Took
  <1>22. ASSUME Tick PROVE (\A q \in Responders : Claims(q)') /\ (\A m \in Messages : Once(m)')
    <2>1. UNCHANGED <<gone, decision, attempt, answers, lost>> /\ pass' = pass
      BY <1>22 DEF Tick
    <2> QED BY <2>1, StillStands
  <1>23. CASE UNCHANGED vars
    BY <1>23, StillStands DEF vars
  <1> QED
    BY <1>1, <1>2, <1>3, <1>4, <1>5, <1>6, <1>7, <1>8, <1>9, <1>10, <1>11, <1>12, <1>13,
       <1>14, <1>15, <1>16, <1>17, <1>18, <1>19, <1>20, <1>21, <1>22, <1>23
    DEF Next, PassStep, ServiceStep, OperatorStep

-----------------------------------------------------------------------------
(* What a service has seen. *)

\* A service whose pass stands, while nothing becomes a candidate.
LEMMA SeesStill ==
  ASSUME NEW s \in Services, Sees(s), pass'[s] = pass[s], heard'[s] = heard[s],
         s \notin broken' => s \notin broken,
         reply' = reply, Candidates(reply)' \subseteq Candidates(reply)
  PROVE  Sees(s)'
  BY DEF Sees

\* A pass that goes on with the same reply and all it had to take.
LEMMA SeesOn ==
  ASSUME NEW s \in Services, Sees(s), pass[s].pc \in Deciding, pass'[s].pc \in {"next"} \cup Deciding,
         pass'[s].reply = pass[s].reply, pass'[s].todo = pass[s].todo,
         heard'[s] = heard[s], broken' = broken,
         reply' = reply, Candidates(reply)' \subseteq Candidates(reply)
  PROVE  Sees(s)'
  BY DEF Sees, Deciding

\* A service that starts anew, waits for nothing or cannot hear.
LEMMA SeesNothing ==
  ASSUME NEW s \in Services, pass'[s].pc \in {"down", "read", "deaf"}
  PROVE  Sees(s)'
  BY DEF Sees, Deciding

LEMMA SameCandidates ==
  ASSUME UNCHANGED <<reply, received, gone, decision>>
  PROVE  Candidates(reply)' = Candidates(reply)
  BY DEF Candidates, Stored, InWindow

\* Once a message is decided about it is a candidate no more.
LEMMA FewerCandidates ==
  ASSUME RowTypes, NEW m \in Messages, NEW what \in {"claimed", "answered", "skipped"}, Decide(m, what),
         UNCHANGED <<reply, received, gone>>
  PROVE  /\ Candidates(reply)' \subseteq Candidates(reply)
         /\ ~gone => m \notin Candidates(reply)'
  BY DEF RowTypes, Decide, Candidates, Stored, InWindow

LEMMA StepSees ==
  ASSUME PassTypes, RowTypes, \A s \in Services : Sees(s), [Next]_vars
  PROVE  \A s \in Services : Sees(s)'
  <1> USE DEF Rows, Responders, Deciding
  <1>1. ASSUME NEW r \in Responders, ReadReply(r) PROVE \A s \in Services : Sees(s)'
    <2>1. /\ UNCHANGED <<reply, heard>> /\ Candidates(reply)' = Candidates(reply) /\ broken' = broken \ {r}
      BY <1>1, SameCandidates DEF ReadReply
    <2>2. \/ reply = NoReply /\ Over(r)
          \/ pass' = [pass EXCEPT ![r].pc = "list", ![r].reply = reply]
      BY <1>1 DEF ReadReply
    <2>3. \A q \in Responders \ {r} : pass'[q] = pass[q]
      BY <2>2, OverPass, ReadPass
    <2>4. ASSUME NEW s \in Services, s # r PROVE Sees(s)'
      BY <2>1, <2>3, <2>4, SeesStill
    <2>5. ASSUME r \in Services PROVE Sees(r)'
      <3>1. reply = NoReply \/ (pass'[r].pc = "list" /\ pass'[r].reply = reply)
        BY <2>2, ReadPass
      <3> QED BY <2>1, <3>1 DEF Sees
    <2> QED BY <2>4, <2>5
  <1>2. ASSUME NEW r \in Responders, List(r) PROVE \A s \in Services : Sees(s)'
    <2>1. /\ UNCHANGED <<reply, heard>>
          /\ Candidates(reply)' = Candidates(reply) /\ pass[r].pc = "list"
      BY <1>2, SameCandidates DEF List
    <2>2. CASE Fails(r)
      <3>1. \A q \in Responders \ {r} : pass'[q] = pass[q]
        BY <2>2, OverPass DEF Fails
      <3>2. ASSUME NEW s \in Services, s # r PROVE Sees(s)'
        BY <2>1, <2>2, <3>1, <3>2, SeesStill DEF Fails
      <3>3. ASSUME r \in Services PROVE Sees(r)'
        BY <2>2, <3>3 DEF Sees, Fails
      <3> QED BY <3>2, <3>3
    <2>3. CASE /\ broken' = broken
               /\ pass' = [pass EXCEPT ![r].pc = "next", ![r].todo = Candidates(pass[r].reply)]
      <3>1. PICK D \in SUBSET Messages : D = Candidates(pass[r].reply)
        BY DEF Candidates, Stored
      <3>2. /\ \A q \in Responders \ {r} : pass'[q] = pass[q]
            /\ pass'[r].pc = "next" /\ pass'[r].reply = pass[r].reply /\ pass'[r].todo = D
        <4>1. pass' = [pass EXCEPT ![r].pc = "next", ![r].todo = D]
          BY <2>3, <3>1
        <4> QED BY <4>1, ListPass
      <3>3. ASSUME NEW s \in Services, s # r PROVE Sees(s)'
        BY <2>1, <2>3, <3>2, <3>3, SeesStill
      <3>4. ASSUME r \in Services PROVE Sees(r)'
        BY <2>1, <2>3, <3>1, <3>2, <3>4 DEF Sees
      <3> QED BY <3>3, <3>4
    <2> QED BY <1>2, <2>2, <2>3 DEF List
  <1>3. ASSUME NEW r \in Responders, Claim(r) PROVE \A s \in Services : Sees(s)'
    <2>1. /\ UNCHANGED <<reply, received, gone, heard, broken>> /\ ~gone /\ pass[r].pc = "next"
      BY <1>3 DEF Claim
    <2>2. PICK m \in pass[r].todo :
            IF Unclaimed(m)
              THEN /\ Decide(m, "claimed")
                   /\ pass' = [pass EXCEPT ![r].pc = "check", ![r].message = m, ![r].todo = @ \ {m}]
              ELSE pass' = [pass EXCEPT ![r].todo = @ \ {m}] /\ UNCHANGED decision
      BY <1>3 DEF Claim
    <2>3. m \in Messages
      BY DEF PassTypes, Passes
    <2>4. Candidates(reply)' \subseteq Candidates(reply) \ {m}
      <3>1. CASE Unclaimed(m)
        BY <2>1, <2>2, <2>3, <3>1, FewerCandidates
      <3>2. CASE ~Unclaimed(m)
        <4>1. m \notin Candidates(reply)
          BY <3>2 DEF Unclaimed, Candidates
        <4> QED BY <2>1, <2>2, <3>2, <4>1, SameCandidates
      <3> QED BY <3>1, <3>2
    <2>5. /\ \A q \in Responders \ {r} : pass'[q] = pass[q]
          /\ pass'[r].pc \in {"next", "check"} /\ pass'[r].reply = pass[r].reply
          /\ pass'[r].todo = pass[r].todo \ {m}
      <3>1. CASE Unclaimed(m)
        BY <2>2, <2>3, <3>1, ClaimPass
      <3>2. CASE ~Unclaimed(m)
        BY <2>1, <2>2, <2>3, <3>2, PassedOver
      <3> QED BY <3>1, <3>2
    <2>6. ASSUME NEW s \in Services, s # r PROVE Sees(s)'
      BY <2>1, <2>4, <2>5, <2>6, SeesStill
    <2>7. ASSUME r \in Services PROVE Sees(r)'
      BY <2>1, <2>4, <2>5, <2>7 DEF Sees
    <2> QED BY <2>6, <2>7
  <1>4. ASSUME NEW r \in Responders, ClaimRefused(r) PROVE \A s \in Services : Sees(s)'
    <2>1. /\ UNCHANGED <<reply, heard>> /\ Candidates(reply)' = Candidates(reply)
          /\ Over(r) /\ broken' = broken \cup ({r} \cap Services)
      BY <1>4, SameCandidates DEF ClaimRefused, Fails
    <2>2. \A q \in Responders \ {r} : pass'[q] = pass[q]
      BY <2>1, OverPass
    <2>3. ASSUME NEW s \in Services, s # r PROVE Sees(s)'
      BY <2>1, <2>2, <2>3, SeesStill
    <2>4. ASSUME r \in Services PROVE Sees(r)'
      BY <2>1, <2>4 DEF Sees
    <2> QED BY <2>3, <2>4
  <1>5. ASSUME NEW r \in Responders, EndPass(r) PROVE \A s \in Services : Sees(s)'
    <2>1. /\ UNCHANGED <<reply, heard, broken>> /\ Candidates(reply)' = Candidates(reply)
          /\ Over(r) /\ pass[r].pc = "next" /\ pass[r].todo = {}
      BY <1>5, SameCandidates DEF EndPass
    <2>2. /\ \A q \in Responders \ {r} : pass'[q] = pass[q]
          /\ pass'[r].pc \in {"down", "wait"}
      BY <2>1, OverPass
    <2>3. ASSUME NEW s \in Services, s # r PROVE Sees(s)'
      BY <2>1, <2>2, <2>3, SeesStill
    <2>4. ASSUME r \in Services PROVE Sees(r)'
      BY <2>1, <2>2, <2>4 DEF Sees
    <2> QED BY <2>3, <2>4
  <1>6. ASSUME NEW r \in Responders, Check(r) PROVE \A s \in Services : Sees(s)'
    <2>1. /\ UNCHANGED <<reply, heard, broken>> /\ Candidates(reply)' = Candidates(reply)
          /\ pass[r].pc = "check" /\ (Goto(r, "source") \/ Tell(r, "skipped"))
      BY <1>6, SameCandidates DEF Check
    <2>2. /\ \A q \in Responders \ {r} : pass'[q] = pass[q]
          /\ pass'[r].pc \in Deciding /\ pass'[r].reply = pass[r].reply /\ pass'[r].todo = pass[r].todo
      BY <2>1, GotoPass, TellPass DEF Places
    <2>3. ASSUME NEW s \in Services, s # r PROVE Sees(s)'
      BY <2>1, <2>2, <2>3, SeesStill
    <2>4. ASSUME r \in Services PROVE Sees(r)'
      BY <2>1, <2>2, <2>4, SeesOn
    <2> QED BY <2>3, <2>4
  <1>7. ASSUME NEW r \in Responders, ReadSource(r) PROVE \A s \in Services : Sees(s)'
    <2>1. /\ UNCHANGED <<reply, heard, broken>> /\ Candidates(reply)' = Candidates(reply)
          /\ pass[r].pc = "source" /\ (Goto(r, "begin") \/ Tell(r, "skipped"))
      BY <1>7, SameCandidates DEF ReadSource
    <2>2. /\ \A q \in Responders \ {r} : pass'[q] = pass[q]
          /\ pass'[r].pc \in Deciding /\ pass'[r].reply = pass[r].reply /\ pass'[r].todo = pass[r].todo
      BY <2>1, GotoPass, TellPass DEF Places
    <2>3. ASSUME NEW s \in Services, s # r PROVE Sees(s)'
      BY <2>1, <2>2, <2>3, SeesStill
    <2>4. ASSUME r \in Services PROVE Sees(r)'
      BY <2>1, <2>2, <2>4, SeesOn
    <2> QED BY <2>3, <2>4
  <1>8. ASSUME NEW r \in Responders, BeginReply(r) PROVE \A s \in Services : Sees(s)'
    <2>1. /\ UNCHANGED <<reply, heard, broken>> /\ Candidates(reply)' = Candidates(reply)
          /\ pass[r].pc = "begin" /\ (Goto(r, "submit") \/ Tell(r, "answered") \/ Tell(r, "skipped"))
      BY <1>8, SameCandidates DEF BeginReply
    <2>2. /\ \A q \in Responders \ {r} : pass'[q] = pass[q]
          /\ pass'[r].pc \in Deciding /\ pass'[r].reply = pass[r].reply /\ pass'[r].todo = pass[r].todo
      BY <2>1, GotoPass, TellPass DEF Places
    <2>3. ASSUME NEW s \in Services, s # r PROVE Sees(s)'
      BY <2>1, <2>2, <2>3, SeesStill
    <2>4. ASSUME r \in Services PROVE Sees(r)'
      BY <2>1, <2>2, <2>4, SeesOn
    <2> QED BY <2>3, <2>4
  <1>9. ASSUME NEW r \in Responders, Submit(r) PROVE \A s \in Services : Sees(s)'
    <2>1. /\ UNCHANGED <<reply, heard, broken>> /\ Candidates(reply)' = Candidates(reply)
          /\ pass[r].pc = "submit" /\ (Tell(r, "answered") \/ Tell(r, "skipped"))
      BY <1>9, SameCandidates DEF Submit, Ended, Told
    <2>2. /\ \A q \in Responders \ {r} : pass'[q] = pass[q]
          /\ pass'[r].pc \in Deciding /\ pass'[r].reply = pass[r].reply /\ pass'[r].todo = pass[r].todo
      BY <2>1, TellPass DEF Places
    <2>3. ASSUME NEW s \in Services, s # r PROVE Sees(s)'
      BY <2>1, <2>2, <2>3, SeesStill
    <2>4. ASSUME r \in Services PROVE Sees(r)'
      BY <2>1, <2>2, <2>4, SeesOn
    <2> QED BY <2>3, <2>4
  <1>10. ASSUME NEW r \in Responders, SubmitUnrecorded(r) PROVE \A s \in Services : Sees(s)'
    <2>1. /\ UNCHANGED <<reply, heard, broken>> /\ Candidates(reply)' = Candidates(reply)
          /\ pass[r].pc = "submit" /\ (Tell(r, "answered") \/ Tell(r, "skipped"))
      BY <1>10, SameCandidates DEF SubmitUnrecorded
    <2>2. /\ \A q \in Responders \ {r} : pass'[q] = pass[q]
          /\ pass'[r].pc \in Deciding /\ pass'[r].reply = pass[r].reply /\ pass'[r].todo = pass[r].todo
      BY <2>1, TellPass DEF Places
    <2>3. ASSUME NEW s \in Services, s # r PROVE Sees(s)'
      BY <2>1, <2>2, <2>3, SeesStill
    <2>4. ASSUME r \in Services PROVE Sees(r)'
      BY <2>1, <2>2, <2>4, SeesOn
    <2> QED BY <2>3, <2>4
  <1>11. ASSUME NEW r \in Responders, Record(r) PROVE \A s \in Services : Sees(s)'
    <2>1. /\ UNCHANGED <<reply, received, gone, heard, broken>> /\ Proceed(r) /\ pass[r].pc = "record"
          /\ Decide(pass[r].message, pass[r].told)
          /\ pass[r].message \in Messages /\ pass[r].told \in {"answered", "skipped"}
      BY <1>11 DEF Record, PassTypes, Passes
    <2>2. Candidates(reply)' \subseteq Candidates(reply)
      BY <2>1, FewerCandidates
    <2>3. /\ \A q \in Responders \ {r} : pass'[q] = pass[q]
          /\ pass'[r].pc = "next" /\ pass'[r].reply = pass[r].reply /\ pass'[r].todo = pass[r].todo
      BY <2>1, ProceedPass
    <2>4. ASSUME NEW s \in Services, s # r PROVE Sees(s)'
      BY <2>1, <2>2, <2>3, <2>4, SeesStill
    <2>5. ASSUME r \in Services PROVE Sees(r)'
      BY <2>1, <2>2, <2>3, <2>5, SeesOn
    <2> QED BY <2>4, <2>5
  <1>12. ASSUME NEW r \in Responders, PassFails(r) PROVE \A s \in Services : Sees(s)'
    <2>1. /\ UNCHANGED <<reply, heard>> /\ Candidates(reply)' = Candidates(reply)
          /\ Over(r) /\ broken' = broken \cup ({r} \cap Services)
      BY <1>12, SameCandidates DEF PassFails, Fails
    <2>2. \A q \in Responders \ {r} : pass'[q] = pass[q]
      BY <2>1, OverPass
    <2>3. ASSUME NEW s \in Services, s # r PROVE Sees(s)'
      BY <2>1, <2>2, <2>3, SeesStill
    <2>4. ASSUME r \in Services PROVE Sees(r)'
      BY <2>1, <2>4 DEF Sees
    <2> QED BY <2>3, <2>4
  <1>13. ASSUME NEW r \in Responders, Stop(r) PROVE \A s \in Services : Sees(s)'
    <2>1. /\ UNCHANGED <<reply, heard>> /\ Candidates(reply)' = Candidates(reply) /\ broken' = broken \ {r}
          /\ pass' = [pass EXCEPT ![r] = NoPass]
      BY <1>13, SameCandidates DEF Stop
    <2>2. (\A q \in Responders \ {r} : pass'[q] = pass[q]) /\ pass'[r].pc = "down"
      BY <2>1 DEF PassTypes, NoPass
    <2>3. ASSUME NEW s \in Services, s # r PROVE Sees(s)'
      BY <2>1, <2>2, <2>3, SeesStill
    <2> QED BY <2>2, <2>3, SeesNothing
  <1>14. ASSUME NEW s \in Services, StartService(s) PROVE \A v \in Services : Sees(v)'
    <2>1. /\ UNCHANGED <<reply, broken>> /\ Candidates(reply)' = Candidates(reply)
          /\ s \in Responders /\ (Goto(s, "read")) /\ \A v \in Services \ {s} : heard'[v] = heard[v]
      BY <1>14, SameCandidates DEF StartService, RowTypes
    <2>2. (\A q \in Responders \ {s} : pass'[q] = pass[q]) /\ pass'[s].pc \in {"read", "deaf"}
      BY <2>1, GotoPass DEF Places
    <2>3. ASSUME NEW v \in Services, v # s PROVE Sees(v)'
      BY <2>1, <2>2, <2>3, SeesStill
    <2> QED BY <2>2, <2>3, SeesNothing
  <1>15. ASSUME NEW s \in Services, Hear(s) PROVE \A v \in Services : Sees(v)'
    <2>1. /\ UNCHANGED <<reply, broken>> /\ Candidates(reply)' = Candidates(reply)
          /\ s \in Responders /\ (Goto(s, "read")) /\ \A v \in Services \ {s} : heard'[v] = heard[v]
      BY <1>15, SameCandidates DEF Hear, RowTypes
    <2>2. (\A q \in Responders \ {s} : pass'[q] = pass[q]) /\ pass'[s].pc \in {"read", "deaf"}
      BY <2>1, GotoPass DEF Places
    <2>3. ASSUME NEW v \in Services, v # s PROVE Sees(v)'
      BY <2>1, <2>2, <2>3, SeesStill
    <2> QED BY <2>2, <2>3, SeesNothing
  <1>16. ASSUME NEW s \in Services, Unsubscribed(s) PROVE \A v \in Services : Sees(v)'
    <2>1. /\ UNCHANGED <<reply, broken>> /\ Candidates(reply)' = Candidates(reply)
          /\ s \in Responders /\ (Goto(s, "read") \/ Goto(s, "deaf")) /\ \A v \in Services \ {s} : heard'[v] = heard[v]
      BY <1>16, SameCandidates DEF Unsubscribed, RowTypes, Resumed
    <2>2. (\A q \in Responders \ {s} : pass'[q] = pass[q]) /\ pass'[s].pc \in {"read", "deaf"}
      BY <2>1, GotoPass DEF Places
    <2>3. ASSUME NEW v \in Services, v # s PROVE Sees(v)'
      BY <2>1, <2>2, <2>3, SeesStill
    <2> QED BY <2>2, <2>3, SeesNothing
  <1>17. ASSUME NEW c \in Commands, Answer(c) PROVE \A s \in Services : Sees(s)'
    <2>1. /\ UNCHANGED <<reply, broken>> /\ Candidates(reply)' = Candidates(reply)
          /\ c \in Responders /\ (Goto(c, "read")) /\ \A v \in Services \ {c} : heard'[v] = heard[v]
      BY <1>17, SameCandidates DEF Answer, RowTypes
    <2>2. (\A q \in Responders \ {c} : pass'[q] = pass[q]) /\ pass'[c].pc \in {"read", "deaf"}
      BY <2>1, GotoPass DEF Places
    <2>3. ASSUME NEW v \in Services, v # c PROVE Sees(v)'
      BY <2>1, <2>2, <2>3, SeesStill
    <2> QED BY <2>2, <2>3, SeesNothing
  <1>18. ASSUME SetReply PROVE \A s \in Services : Sees(s)'
    <2>1. UNCHANGED <<pass, broken>> /\ Announce
      BY <1>18 DEF SetReply
    <2>2. ASSUME NEW s \in Services PROVE Sees(s)'
      <3>1. pass[s].pc \in {"down", "deaf"} \/ heard'[s]
        BY <2>1 DEF Announce
      <3> QED BY <2>1, <3>1 DEF Sees
    <2> QED BY <2>2
  <1>19. ASSUME ClearReply PROVE \A s \in Services : Sees(s)'
    BY <1>19 DEF ClearReply, Sees
  <1>20. ASSUME NEW m \in Messages, Receive(m) PROVE \A s \in Services : Sees(s)'
    <2>1. UNCHANGED <<pass, broken>> /\ Announce
      BY <1>20 DEF Receive
    <2>2. ASSUME NEW s \in Services PROVE Sees(s)'
      <3>1. pass[s].pc \in {"down", "deaf"} \/ heard'[s]
        BY <2>1 DEF Announce
      <3> QED BY <2>1, <3>1 DEF Sees
    <2> QED BY <2>2
  <1>21. ASSUME DeleteMailbox PROVE \A s \in Services : Sees(s)'
    BY <1>21 DEF DeleteMailbox, Sees
  <1>22. ASSUME Tick PROVE \A s \in Services : Sees(s)'
    <2>1. UNCHANGED <<reply, heard, broken, pass>> /\ Candidates(reply)' = Candidates(reply)
      BY <1>22, SameCandidates DEF Tick
    <2> QED BY <2>1, SeesStill
  <1>23. CASE UNCHANGED vars
    <2>1. UNCHANGED <<reply, heard, broken, pass>> /\ Candidates(reply)' = Candidates(reply)
      BY <1>23, SameCandidates DEF vars
    <2> QED BY <2>1, SeesStill
  <1> QED
    BY <1>1, <1>2, <1>3, <1>4, <1>5, <1>6, <1>7, <1>8, <1>9, <1>10, <1>11, <1>12, <1>13,
       <1>14, <1>15, <1>16, <1>17, <1>18, <1>19, <1>20, <1>21, <1>22, <1>23
    DEF Next, PassStep, ServiceStep, OperatorStep

-----------------------------------------------------------------------------
(* The theorems. *)

LEMMA InitIInv == Init => IInv
  <1> SUFFICES ASSUME Init PROVE IInv
    OBVIOUS
  <1>1. PassTypes
    BY NoPassTypes, AutoReplyAssumption DEF Init, PassTypes, NoPass, Deciding
  <1>2. RowTypes
    <2>1. now \in Instants /\ received \in [Messages -> 0 .. LastTime]
      BY AutoReplyAssumption DEF Init, Instants, NotYet
    <2>2. decision \in [Messages -> [state : Decisions, at : 0 .. LastTime]]
      BY AutoReplyAssumption DEF Init, Decisions
    <2>3. reply \in Replies /\ reply = NoReply
      BY NoPassTypes DEF Init
    <2>4. faults \in 0 .. MaxFaults /\ changes \in 0 .. MaxChanges
      BY AutoReplyAssumption DEF Init
    <2> QED BY <2>1, <2>2, <2>3, <2>4 DEF Init, RowTypes, Statuses
  <1>3. \A r \in Responders : Claims(r)
    BY DEF Init, Claims, NoPass, Deciding
  <1>4. \A m \in Messages : Once(m)
    BY DEF Init, Once, Took
  <1>5. \A s \in Services : Sees(s)
    BY DEF Init, Sees
  <1> QED BY <1>1, <1>2, <1>3, <1>4, <1>5 DEF IInv

LEMMA AlwaysIInv == Spec => []IInv
  <1>1. IInv /\ [Next]_vars => IInv'
    BY StepPassTypes, StepRowTypes, StepClaims, StepSees DEF IInv
  <1> QED BY <1>1, InitIInv, PTL DEF Spec

LEMMA OnceIsTold ==
  ASSUME RowTypes, NEW m \in Messages, Once(m)
  PROVE  /\ Cardinality(Took(m)) <= 1
         /\ Took(m) # {} /\ ~gone /\ m \notin lost => decision[m].state \in {"claimed", "answered"}
  <1>1. CASE Took(m) = {}
    <2>1. Cardinality(Took(m)) = 0
      BY <1>1, FS_EmptySet
    <2> QED BY <1>1, <2>1
  <1>2. CASE Took(m) # {}
    <2>1. PICK a \in Took(m) : TRUE
      BY <1>2
    <2>2. Took(m) = {a}
      BY <2>1 DEF Once, Took
    <2>3. Cardinality(Took(m)) = 1
      BY <2>2, FS_Singleton
    <2> QED BY <2>3 DEF Once
  <1> QED BY <1>1, <1>2

\* The reply, the decisions, the attempts and every pass keep their types, and a
\* pass holds a message exactly while it decides one.
THEOREM TypeCorrect == Spec => []TypeOK
  <1>1. IInv => TypeOK
    BY DEF IInv, PassTypes, RowTypes, TypeOK, Passes, Replies
  <1> QED BY <1>1, AlwaysIInv, PTL

\* For any number of services and commands a message is answered at most once,
\* and none that was answered is recorded as skipped.
THEOREM DecisionsStandTrue == Spec => []AnswerIsTold
  <1>1. IInv => AnswerIsTold
    BY OnceIsTold DEF IInv, AnswerIsTold, Took
  <1> QED BY <1>1, AlwaysIInv, PTL

\* No service waits over a message it could answer, whatever is received, set
\* and decided while it looks.
THEOREM NothingIsOverlooked == Spec => []NoneIsOverlooked
  <1>1. IInv => NoneIsOverlooked
    BY DEF IInv, Sees, NoneIsOverlooked
  <1> QED BY <1>1, AlwaysIInv, PTL
=============================================================================
