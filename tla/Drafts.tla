------------------------------- MODULE Drafts -------------------------------
(***************************************************************************)
(* Drafts and their schedule.  Operators write, edit, schedule, hold back, *)
(* send and remove drafts; every running service sends the due ones, woken *)
(* by an announcement or by the earliest instant.  What sending under a    *)
(* key is, Outbound says; here a send reads its key, inserts a row under   *)
(* it, submits, and records the end.  Between the statements of one party  *)
(* any other may step in, a process may stop, and the database may fail.   *)
(***************************************************************************)
EXTENDS Naturals, FiniteSets

CONSTANTS
  DraftIds, Texts,
  Services,    \* running `skrzynka serve` processes
  Operators,   \* commands and requests, one operation at a time each
  Keys,        \* idempotency keys operators choose
  LastTime,    \* bound: the instants are 1 .. LastTime
  MaxFaults,   \* bound: how often the database fails
  MaxAsked,    \* bound: how many operations operators ask for
  NoKey, NoText, NoDraft

ASSUME DraftsAssumption ==
  /\ LastTime \in Nat \ {0} /\ MaxFaults \in Nat /\ MaxAsked \in Nat
  /\ Texts # {}
  /\ NoKey \notin Keys \cup DraftIds /\ NoText \notin Texts /\ NoDraft \notin DraftIds

VARIABLES
  now,
  life,        \* each draft: unwritten, kept, sent (removed by its send), deleted
  draft,       \* each draft's row: text, instant, key and recorded failure
  out,         \* the outbound row under each key
  followed,    \* the keys whose message has a follow-up
  job,         \* each party's send of one draft
  due,         \* each service's list of due drafts still to be sent
  until,       \* what each waiting service waits for: an instant, Never, or Unread
  announced,   \* whether each service has an announcement to hear
  op,          \* each operator's operation
  faults, asked,
  given,       \* history: the keys each draft was scheduled or sent under
  accepted,    \* history: what the provider took, under which key, from whom
  copies       \* history: how many submissions it took under each key

vars == <<now, life, draft, out, followed, job, due, until, announced, op,
          faults, asked, given, accepted, copies>>
history == <<given, accepted, copies>>

Parties == Services \cup Operators
SendKeys == Keys \cup DraftIds   \* a draft's id stands for `<key>-<draft id>`
NoTime == 0
Never == LastTime + 1
Unread == LastTime + 2
Instants == 1 .. LastTime

Unwritten == [text |-> NoText, at |-> NoTime, key |-> NoKey, failed |-> FALSE]
NoRow == [text |-> NoText, status |-> "none"]
FirstText == CHOOSE x \in Texts : TRUE   \* texts are alike
NoJob == [pc |-> "idle", draft |-> NoDraft, key |-> NoKey, text |-> NoText,
          fresh |-> FALSE, follow |-> FALSE, lost |-> FALSE]   \* lost is history
NoOp == [kind |-> "none", todo |-> {}, done |-> {}, at |-> NoTime, key |-> NoKey,
         end |-> "none"]

Statuses == {"none", "sending", "sent", "failed", "uncertain"}
Sending == {"begin", "insert", "submitting", "follow", "remove", "record"}
Rounds == {"down", "list", "take", "next", "waiting", "deaf"}

TypeOK ==
  /\ now \in Instants
  /\ life \in [DraftIds -> {"unwritten", "kept", "sent", "deleted"}]
  /\ draft \in [DraftIds -> [text : Texts \cup {NoText}, at : Instants \cup {NoTime},
                             key : SendKeys \cup {NoKey}, failed : BOOLEAN]]
  /\ out \in [SendKeys -> [text : Texts \cup {NoText}, status : Statuses]]
  /\ followed \subseteq SendKeys
  /\ job \in [Parties -> [pc : Sending \cup Rounds \cup {"idle"}, draft : DraftIds \cup {NoDraft},
                          key : SendKeys \cup {NoKey}, text : Texts \cup {NoText},
                          fresh : BOOLEAN, follow : BOOLEAN, lost : BOOLEAN]]
  /\ due \in [Services -> SUBSET (DraftIds \X SendKeys)]
  /\ until \in [Services -> Instants \cup {Never, Unread}]
  /\ announced \in [Services -> BOOLEAN]
  /\ op \in [Operators -> [kind : {"none", "merge", "send", "schedule", "new", "many", "unschedule",
                                   "delete", "undo"},
                           todo : SUBSET DraftIds, done : SUBSET DraftIds,
                           at : 0 .. 2 * LastTime, key : SendKeys \cup {NoKey},
                           end : {"none", "done", "refused", "undone", "removed", "error"}]]
  /\ faults \in 0 .. MaxFaults /\ asked \in 0 .. MaxAsked
  /\ given \in [DraftIds -> SUBSET SendKeys]
  /\ accepted \subseteq [key : SendKeys, text : Texts, draft : DraftIds, by : Parties]
  /\ copies \in [SendKeys -> Nat]

Init ==
  /\ now = 1
  /\ life \in [DraftIds -> {"unwritten", "kept"}]
  /\ draft = [d \in DraftIds |-> IF life[d] = "unwritten" THEN Unwritten
                                 ELSE [Unwritten EXCEPT !.text = FirstText]]
  /\ out = [k \in SendKeys |-> NoRow]
  /\ followed = {}
  /\ job = [p \in Parties |-> IF p \in Services THEN [NoJob EXCEPT !.pc = "down"] ELSE NoJob]
  /\ due = [s \in Services |-> {}]
  /\ until = [s \in Services |-> Never]
  /\ announced = [s \in Services |-> FALSE]
  /\ op = [o \in Operators |-> NoOp]
  /\ faults = 0 /\ asked = 0
  /\ given = [d \in DraftIds |-> {}]
  /\ accepted = {}
  /\ copies = [k \in SendKeys |-> 0]

-----------------------------------------------------------------------------
(* Draft rows. *)

Kept == {d \in DraftIds : life[d] = "kept"}

\* skrzynka_announce_drafts, of every statement that inserts, deletes or sets
\* send_at: it reaches the services that are subscribed.
Announce == announced' = [s \in Services |-> announced[s] \/ job[s].pc \notin {"down", "deaf"}]

SetSchedule_NoKey(d, at, key) ==   \* mutant: the key is not stored
  /\ draft' = [draft EXCEPT ![d].at = at, ![d].failed = FALSE]
  /\ Announce

\* schedule_draft of the database: the UPDATE after the row was read.
SetSchedule(d, at, key) ==
  /\ draft' = [draft EXCEPT ![d].at = at, ![d].key = key, ![d].failed = FALSE]
  /\ Announce

\* delete_draft, whoever asks.
Drop(d, how) ==
  /\ life' = [life EXCEPT ![d] = how]
  /\ draft' = [draft EXCEPT ![d] = Unwritten]
  /\ Announce

Fault == faults < MaxFaults /\ faults' = faults + 1

-----------------------------------------------------------------------------
(* One send of a draft, by a service or an operator. *)

Goto(p, place) == job' = [job EXCEPT ![p].pc = place]

\* A send is over: an operator's; a service's, before its next due draft.
Over(p) == job' = [job EXCEPT ![p] = IF p \in Services THEN [NoJob EXCEPT !.pc = "take"] ELSE NoJob]

\* A send that did not end `sent`, or an error: a service has yet to record it.
UnsentJob(p) == IF p \in Services THEN [NoJob EXCEPT !.pc = "record", !.draft = job[p].draft]
                ELSE NoJob

Unsent(p) == job' = [job EXCEPT ![p] = UnsentJob(p)]

\* send_draft and send_outbound: the draft's contents are read, never its
\* schedule, and whether the key is fresh.
Read(p, d, key, follow) ==
  IF d \in Kept
    THEN job' = [job EXCEPT ![p] = [NoJob EXCEPT !.pc = "begin", !.draft = d, !.key = key,
                   !.text = draft[d].text, !.fresh = (out[key] = NoRow), !.follow = follow]]
    ELSE IF p \in Services
      THEN job' = [job EXCEPT ![p] = [NoJob EXCEPT !.pc = "record", !.draft = d]]
      ELSE UNCHANGED job

\* A fresh send that ended `sent` gets the follow-up asked with it.
Expects(p, status) == job[p].follow /\ job[p].fresh /\ status = "sent"

Removes_Uncertain(status) == status \in {"sent", "uncertain"}   \* mutant

Removes(status) == status = "sent"

\* How a send goes on once originate answered with a row.
Answered(p, status) ==
  IF Expects(p, status) THEN Goto(p, "follow")
  ELSE IF Removes(status) THEN Goto(p, "remove") ELSE Unsent(p)

-----------------------------------------------------------------------------
(* Operators. *)

Idle(o) == job[o].pc = "idle" /\ op[o].kind = "none"

Ask(o) == Idle(o) /\ asked < MaxAsked /\ asked' = asked + 1

\* create_draft of the database: one more row, unscheduled.
Keep(d, text) ==
  /\ life[d] = "unwritten"
  /\ life' = [life EXCEPT ![d] = "kept"]
  /\ draft' = [draft EXCEPT ![d].text = text]
  /\ Announce

Create(o, d, text) ==
  /\ Ask(o)
  /\ Keep(d, text)
  /\ UNCHANGED <<now, out, followed, job, due, until, op, faults, history>>

\* A new draft of what was originated under a key, however that ended.
FromOutbound(o, d, k) ==
  /\ out[k] # NoRow
  /\ Create(o, d, out[k].text)

\* The copy of a draft is not scheduled.
Copy(o, d, e) == e \in Kept /\ Create(o, d, draft[e].text)

\* merge_drafts: one draft for each row of a table, when every row can be sent.
AskMerge(o, D) ==
  /\ Ask(o)
  /\ D # {} /\ \A d \in D : life[d] = "unwritten"
  /\ op' = [op EXCEPT ![o] = [NoOp EXCEPT !.kind = "merge", !.todo = D]]
  /\ UNCHANGED <<now, life, draft, out, followed, job, due, until, announced, faults, history>>

\* nudge_follow_ups: one draft for each of some answers still owed.
AskNudge(o, D) == Cardinality(D) <= Cardinality(followed) /\ AskMerge(o, D)

\* The drafts are kept one by one; those kept before one that fails stay.
MergeOne(o) ==
  /\ op[o].kind = "merge"
  /\ \E d \in op[o].todo :
       /\ Keep(d, FirstText)
       /\ IF op[o].todo = {d}
            THEN op' = [op EXCEPT ![o] = [NoOp EXCEPT !.end = "done"]]
            ELSE op' = [op EXCEPT ![o].todo = @ \ {d}]
  /\ UNCHANGED <<now, out, followed, job, due, until, faults, asked, history>>

\* update_draft writes the contents and leaves the schedule as it stands.
Update(o, d, text) ==
  /\ Ask(o)
  /\ life[d] = "kept"
  /\ draft' = [draft EXCEPT ![d].text = text]
  /\ UNCHANGED <<now, life, out, followed, job, due, until, announced, op, faults, history>>

\* schedule_draft and schedule_drafts: the instant lies ahead, the drafts are
\* listed, and each is held to the suppression list and the bounce reports.
\* schedule_drafts takes those not scheduled yet.
AskSchedule(o, D, at, kind, key) ==
  /\ Ask(o)
  /\ at > now
  /\ IF kind = "many" THEN D = {d \in Kept : draft[d].at = NoTime} /\ D # {}
                      ELSE D \subseteq Kept /\ Cardinality(D) = 1
  /\ op' = [op EXCEPT ![o] = [NoOp EXCEPT !.kind = kind, !.todo = D, !.at = at, !.key = key]]
  /\ UNCHANGED <<now, life, draft, out, followed, job, due, until, announced, faults, history>>

\* schedule_new_draft keeps the message as a draft first.
AskNew(o, d, text, at, key) ==
  /\ Ask(o)
  /\ Keep(d, text)
  /\ op' = [op EXCEPT ![o] = [NoOp EXCEPT !.kind = "new", !.todo = {d}, !.at = at, !.key = key]]
  /\ UNCHANGED <<now, out, followed, job, due, until, faults, history>>

Scheduling == {"schedule", "new", "many"}

KeyFor(o, d) == IF op[o].kind = "many" THEN d ELSE op[o].key

End(o, how) == op' = [op EXCEPT ![o] = [NoOp EXCEPT !.done = op[o].done, !.end = how]]

\* One draft is scheduled; `many` gives each next draft a later instant, which
\* has passed by the bound's end only for the model.
ScheduleOne(o) ==
  /\ op[o].kind \in Scheduling
  /\ \E d \in op[o].todo \cap Kept :
       /\ op[o].at \in Instants
       /\ op[o].kind # "schedule" => op[o].at > now
       /\ SetSchedule(d, op[o].at, KeyFor(o, d))
       /\ given' = [given EXCEPT ![d] = @ \cup {KeyFor(o, d)}]
       /\ IF op[o].todo = {d}
            THEN op' = [op EXCEPT ![o] = [NoOp EXCEPT !.end = "done"]]
            ELSE op' = [op EXCEPT ![o].todo = @ \ {d}, ![o].done = @ \cup {d}, ![o].at = @ + 1]
  /\ UNCHANGED <<now, life, out, followed, job, due, until, faults, asked, accepted, copies>>

\* A draft is refused: it is gone, its recipient is suppressed or bounced, or
\* its instant has passed.  What was done before is undone.
Undone_Nothing(o) == {}   \* mutant: a refusal ends the operation where it is
Undone(o) == IF op[o].kind = "new" THEN op[o].todo ELSE op[o].done

ScheduleRefused(o) ==
  /\ op[o].kind \in Scheduling
  /\ IF op[o].kind = "schedule"
       THEN End(o, "refused")
       ELSE op' = [op EXCEPT ![o].kind = IF op[o].kind = "new" THEN "delete" ELSE "undo",
                             ![o].todo = Undone(o),
                             ![o].done = @ \cup (IF op[o].kind = "new" THEN op[o].todo ELSE {}),
                             ![o].end = IF op[o].kind = "new" THEN "removed" ELSE "undone"]
  /\ UNCHANGED <<now, life, draft, out, followed, job, due, until, announced, faults, asked, history>>

\* unschedule_drafts and delete_drafts, of one draft or of all a filter lists.
AskAway(o, D, kind) ==
  /\ Ask(o)
  /\ D # {} /\ D \subseteq Kept
  /\ kind = "unschedule" => Cardinality(D) = 1 \/ \A d \in D : draft[d].at # NoTime
  /\ op' = [op EXCEPT ![o] = [NoOp EXCEPT !.kind = kind, !.todo = D, !.end = "done"]]
  /\ UNCHANGED <<now, life, draft, out, followed, job, due, until, announced, faults, history>>

\* One of them; a draft gone by then ends the operation with that error.
Away(o) ==
  /\ op[o].kind \in {"unschedule", "delete", "undo"}
  /\ \/ \E d \in op[o].todo \cap Kept :
          /\ IF op[o].kind = "delete" THEN Drop(d, "deleted")
             ELSE SetSchedule(d, NoTime, NoKey) /\ UNCHANGED life
          /\ op' = [op EXCEPT ![o].todo = @ \ {d}]
     \/ /\ op[o].todo = {}
        /\ End(o, op[o].end)
        /\ UNCHANGED <<life, draft, announced>>
     \/ /\ op[o].todo \ Kept # {}
        /\ End(o, "error")
        /\ UNCHANGED <<life, draft, announced>>
  /\ UNCHANGED <<now, out, followed, job, due, until, faults, asked, history>>

\* Any statement of an operation may fail, and the operation with it.
OperationFails(o) ==
  /\ op[o].kind \notin {"none", "send"}
  /\ Fault
  /\ op' = [op EXCEPT ![o] = [NoOp EXCEPT !.end = "error"]]
  /\ UNCHANGED <<now, life, draft, out, followed, job, due, until, announced, asked, history>>

\* `draft send`: the send of one draft under a key of the operator's.
AskSend(o, d, key, follow) ==
  /\ Ask(o)
  /\ d \in Kept /\ Read(o, d, key, follow)
  /\ given' = [given EXCEPT ![d] = @ \cup {key}]
  /\ UNCHANGED <<now, life, draft, out, followed, due, until, announced, op, faults, accepted, copies>>

\* send_drafts: the drafts listed are sent one after another, each under a key
\* of its own, with an answer expected; one refused does not stop the others.
AskSendAll(o, D) ==
  /\ Ask(o)
  /\ D # {} /\ D \subseteq Kept
  /\ op' = [op EXCEPT ![o] = [NoOp EXCEPT !.kind = "send", !.todo = D]]
  /\ UNCHANGED <<now, life, draft, out, followed, job, due, until, announced, faults, history>>

SendNext(o) ==
  /\ op[o].kind = "send" /\ job[o].pc = "idle"
  /\ \/ \E d \in op[o].todo :
          /\ Read(o, d, d, TRUE)
          /\ op' = [op EXCEPT ![o].todo = @ \ {d}]
          /\ given' = [given EXCEPT ![d] = @ \cup {d}]
     \/ op[o].todo = {} /\ End(o, "done") /\ UNCHANGED <<job, given>>
  /\ UNCHANGED <<now, life, draft, out, followed, due, until, announced, faults, asked, accepted, copies>>

\* set_follow_up and expect_answers: only what ended `sent` can be answered.
SetFollowUp(o, k) ==
  /\ Ask(o)
  /\ out[k].status = "sent"
  /\ followed' = followed \cup {k}
  /\ UNCHANGED <<now, life, draft, out, job, due, until, announced, op, faults, history>>

ClearFollowUp(o, k) ==
  /\ Ask(o)
  /\ k \in followed
  /\ followed' = followed \ {k}
  /\ UNCHANGED <<now, life, draft, out, job, due, until, announced, op, faults, history>>

-----------------------------------------------------------------------------
(* The steps of a send. *)

\* originate and begin_outbound read the row under the key: of one that asks for
\* the same text the send is answered with that row, as it stands.
Replay(p) ==
  /\ job[p].pc = "begin"
  /\ out[job[p].key].text = job[p].text
  /\ Answered(p, out[job[p].key].status)
  /\ UNCHANGED <<now, life, draft, out, followed, due, until, announced, op, faults, asked, history>>

\* Without a row the send goes on, unless it is refused.
Admit(p) ==
  /\ job[p].pc = "begin"
  /\ out[job[p].key] = NoRow
  /\ Goto(p, "insert")
  /\ UNCHANGED <<now, life, draft, out, followed, due, until, announced, op, faults, asked, history>>

\* The message, a recipient or the key's other text is refused; the send limit is.
RefuseSend(p) ==
  /\ job[p].pc \in {"begin", "insert"}
  /\ Unsent(p)
  /\ UNCHANGED <<now, life, draft, out, followed, due, until, announced, op, faults, asked, history>>

\* The row is inserted under the key, which is UNIQUE.
Claim(p) ==
  /\ job[p].pc = "insert"
  /\ out[job[p].key] = NoRow
  /\ out' = [out EXCEPT ![job[p].key] = [text |-> job[p].text, status |-> "sending"]]
  /\ Goto(p, "submitting")
  /\ UNCHANGED <<now, life, draft, followed, due, until, announced, op, faults, asked, history>>

\* Another's row is there by now: the send is answered with it, whatever its text.
ClaimLost(p) ==
  /\ job[p].pc = "insert"
  /\ out[job[p].key] # NoRow
  /\ LET status == out[job[p].key].status IN
       job' = [job EXCEPT ![p] =
                 IF Expects(p, status) THEN [@ EXCEPT !.pc = "follow", !.lost = TRUE]
                 ELSE IF Removes(status) THEN [@ EXCEPT !.pc = "remove", !.lost = TRUE]
                 ELSE UnsentJob(p)]
  /\ UNCHANGED <<now, life, draft, out, followed, due, until, announced, op, faults, asked, history>>

\* The provider took the message submitted.
Taken(p) ==
  /\ accepted' = accepted \cup {[key |-> job[p].key, text |-> job[p].text,
                                  draft |-> job[p].draft, by |-> p]}
  /\ copies' = [copies EXCEPT ![job[p].key] = @ + 1]

NotTaken == UNCHANGED <<accepted, copies>>

\* The submission ends; its end is recorded, or the database does not take it.
SmtpEnds(p) ==
  /\ job[p].pc = "submitting"
  /\ \E status \in {"sent", "failed", "uncertain"}, took \in BOOLEAN :
       /\ status = "sent" => took
       /\ status = "failed" => ~took
       /\ IF took THEN Taken(p) ELSE NotTaken
       /\ \/ /\ out' = [out EXCEPT ![job[p].key].status = status]
             /\ Answered(p, status)
             /\ UNCHANGED faults
          \/ /\ Fault
             /\ Unsent(p)
             /\ UNCHANGED out
  /\ UNCHANGED <<now, life, draft, followed, due, until, announced, op, asked, given>>

\* set_follow_up; one that cannot be stored ends the send with an error.
Follow(p) ==
  /\ job[p].pc = "follow"
  /\ \/ /\ followed' = followed \cup {job[p].key}
        /\ Goto(p, "remove")
        /\ UNCHANGED faults
     \/ /\ Fault
        /\ Unsent(p)
        /\ UNCHANGED followed
  /\ UNCHANGED <<now, life, draft, out, due, until, announced, op, asked, history>>

\* The provider accepted the message: the draft is removed, as it is now.
Remove(p) ==
  /\ job[p].pc = "remove"
  /\ \/ /\ job[p].draft \in Kept
        /\ Drop(job[p].draft, "sent")
        /\ Over(p)
        /\ UNCHANGED faults
     \/ /\ \/ job[p].draft \notin Kept /\ UNCHANGED faults
           \/ Fault
        /\ Unsent(p)
        /\ UNCHANGED <<life, draft, announced>>
  /\ UNCHANGED <<now, out, followed, due, until, op, asked, history>>

-----------------------------------------------------------------------------
(* A service's scheduler. *)

Interrupted_Forgotten(row) == NoRow   \* mutant: its key is free again
Interrupted(row) == [row EXCEPT !.status = "uncertain"]

\* Database::open and start_scheduling: interrupted sends are settled and the
\* announcements subscribed to before anything is read.
Start(s) ==
  /\ job[s].pc = "down"
  /\ job' = [job EXCEPT ![s] = [NoJob EXCEPT !.pc = "list"]]
  /\ out' = [k \in SendKeys |-> IF out[k].status = "sending"
                                 THEN Interrupted(out[k]) ELSE out[k]]
  /\ announced' = [announced EXCEPT ![s] = FALSE]
  /\ UNCHANGED <<now, life, draft, followed, due, until, op, faults, asked, history>>

DueKey(s, d) == draft[d].key

\* next_draft_announcement ends: an announcement is heard, or it is time.
Woken(s) == /\ job[s].pc = "waiting"
            /\ \/ until[s] <= now /\ UNCHANGED announced
               \/ announced[s] /\ announced' = [announced EXCEPT ![s] = FALSE]

\* due_drafts: the drafts whose time has come, with the keys stored now.
ListDue(s) ==
  /\ \/ job[s].pc = "list" /\ UNCHANGED announced
     \/ Woken(s)
  /\ \/ /\ due' = [due EXCEPT ![s] = {<<d, DueKey(s, d)>> : d \in {e \in Kept :
                                        draft[e].at # NoTime /\ draft[e].at <= now}}]
        /\ Goto(s, "take")
        /\ UNCHANGED faults
     \/ Fault /\ Goto(s, "next") /\ UNCHANGED due
  /\ until' = [until EXCEPT ![s] = Never]
  /\ UNCHANGED <<now, life, draft, out, followed, op, asked, history>>

\* The next due draft is taken and read, or the round is over.
Take(s) ==
  /\ job[s].pc = "take"
  /\ \/ \E e \in due[s] :
          /\ due' = [due EXCEPT ![s] = @ \ {e}]
          /\ Read(s, e[1], e[2], FALSE)
     \/ /\ due[s] = {}
        /\ job' = [job EXCEPT ![s] = [NoJob EXCEPT !.pc = "next"]]
        /\ UNCHANGED due
  /\ UNCHANGED <<now, life, draft, out, followed, until, announced, op, faults, asked, history>>

\* record_schedule_failure, by the draft's id alone; a failure to record ends
\* the round.
RecordFailure(s) ==
  /\ job[s].pc = "record"
  /\ \/ /\ IF job[s].draft \in Kept
             THEN /\ draft' = [draft EXCEPT ![job[s].draft].at = NoTime,
                                            ![job[s].draft].failed = TRUE]
                  /\ Announce
             ELSE UNCHANGED <<draft, announced>>
        /\ Over(s)
        /\ UNCHANGED <<due, faults>>
     \/ /\ Fault
        /\ Goto(s, "next")
        /\ due' = [due EXCEPT ![s] = {}]
        /\ UNCHANGED <<draft, announced>>
  /\ UNCHANGED <<now, life, out, followed, until, op, asked, history>>

Scheduled == {d \in Kept : draft[d].at # NoTime}

\* next_due: the earliest instant; one that cannot be read waits for the next
\* schedule change only.
Earliest_Ahead ==   \* mutant: only instants still ahead
  LET ahead == {draft[d].at : d \in Scheduled} \cap (now + 1 .. LastTime)
  IN  IF ahead = {} THEN Never ELSE CHOOSE t \in ahead : \A u \in ahead : t <= u

Earliest == IF Scheduled = {} THEN Never
            ELSE CHOOSE t \in {draft[d].at : d \in Scheduled} :
                   \A d \in Scheduled : t <= draft[d].at

NextDue(s) ==
  /\ job[s].pc = "next"
  /\ \/ /\ until' = [until EXCEPT ![s] = Earliest]
        /\ UNCHANGED faults
     \/ /\ Fault
        /\ until' = [until EXCEPT ![s] = Unread]
  /\ Goto(s, "waiting")
  /\ UNCHANGED <<now, life, draft, out, followed, due, announced, op, asked, history>>

\* The subscription ends: it is made again before the rows are read, or the
\* scheduler ends and its service runs on without it.
SubscriptionEnds(s) ==
  /\ job[s].pc = "waiting"
  /\ Fault
  /\ \E place \in {"list", "deaf"} : Goto(s, place)
  /\ announced' = [announced EXCEPT ![s] = FALSE]
  /\ UNCHANGED <<now, life, draft, out, followed, due, until, op, asked, history>>

\* A process stops; of a submission under way the provider may take the mail.
Stop(p) ==
  /\ \/ p \in Services /\ job[p].pc # "down"
     \/ p \in Operators /\ ~Idle(p)
  /\ Fault
  /\ job' = [job EXCEPT ![p] = IF p \in Services THEN [NoJob EXCEPT !.pc = "down"] ELSE NoJob]
  /\ due' = IF p \in Services THEN [due EXCEPT ![p] = {}] ELSE due
  /\ op' = IF p \in Operators THEN [op EXCEPT ![p] = [NoOp EXCEPT !.end = "error"]] ELSE op
  /\ NotTaken \/ (job[p].pc = "submitting" /\ Taken(p))
  /\ UNCHANGED <<now, life, draft, out, followed, until, announced, asked, given>>

Tick ==
  /\ now < LastTime
  /\ now' = now + 1
  /\ UNCHANGED <<life, draft, out, followed, job, due, until, announced, op, faults, asked, history>>

-----------------------------------------------------------------------------

SendStep(p) ==
  \/ Replay(p) \/ Admit(p) \/ RefuseSend(p) \/ Claim(p) \/ ClaimLost(p)
  \/ SmtpEnds(p) \/ Follow(p) \/ Remove(p)

ServiceStep(s) ==
  \/ SendStep(s) \/ ListDue(s) \/ Take(s) \/ RecordFailure(s) \/ NextDue(s)

OperatorStep(o) ==
  \/ \E d \in DraftIds, text \in Texts : Create(o, d, text) \/ Update(o, d, text)
  \/ \E d \in DraftIds, k \in SendKeys : FromOutbound(o, d, k)
  \/ \E d, e \in DraftIds : Copy(o, d, e)
  \/ \E D \in SUBSET DraftIds : AskMerge(o, D) \/ AskNudge(o, D) \/ AskSendAll(o, D)
  \/ MergeOne(o) \/ SendNext(o)
  \/ \E d \in DraftIds, text \in Texts, at \in Instants, key \in Keys : AskNew(o, d, text, at, key)
  \/ \E D \in SUBSET DraftIds, at \in Instants, key \in Keys, kind \in {"schedule", "many"} :
       AskSchedule(o, D, at, kind, key)
  \/ ScheduleOne(o) \/ ScheduleRefused(o)
  \/ \E D \in SUBSET DraftIds, kind \in {"unschedule", "delete"} : AskAway(o, D, kind)
  \/ Away(o) \/ OperationFails(o)
  \/ \E d \in DraftIds, key \in Keys, follow \in BOOLEAN : AskSend(o, d, key, follow)
  \/ \E k \in SendKeys : SetFollowUp(o, k) \/ ClearFollowUp(o, k)
  \/ SendStep(o)

Next == \/ \E s \in Services : ServiceStep(s) \/ Start(s) \/ SubscriptionEnds(s)
        \/ \E o \in Operators : OperatorStep(o)
        \/ \E p \in Parties : Stop(p)
        \/ Tick

\* A running service's own steps are taken, a submission ends, time passes.
Fairness == (\A s \in Services : WF_vars(ServiceStep(s))) /\ WF_vars(Tick)

Spec == Init /\ [][Next]_vars /\ Fairness

-----------------------------------------------------------------------------
(* Properties. *)

\* However many services send a due draft, stop in the middle of it, start and
\* find it due again, the provider takes one submission under a key, and only
\* under a key that an operator gave the draft.
OneCopyPerSchedule ==
  \A a \in accepted : a.key \in given[a.draft] /\ copies[a.key] = 1

\* Only a message the provider took leads on.  "The draft is removed once the
\* provider accepted it": the provider took the message of the row the send is
\* answered with, of the text the send read, or of another's when it lost the
\* insertion under its key to that; an end not known keeps the draft.  And an
\* answer is expected under a key only when a message was taken under it.
SentLeadsOn ==
  [][/\ \A d \in DraftIds, p \in Parties :
          life[d] = "kept" /\ life'[d] = "sent" /\ job[p] # job'[p] =>
            \E a \in accepted : /\ a.key = job[p].key /\ a.text = out[a.key].text
                                /\ a.text = job[p].text \/ job[p].lost
     /\ \A k \in followed' \ followed : \E a \in accepted : a.key = k]_vars

\* One draft refused leaves none scheduled, and a refused `send --at` leaves no
\* draft, when nothing stopped the operation (one operator at work).
RefusedLeavesNothing ==
  \A o \in Operators : op[o].kind = "none" =>
    /\ op[o].end = "undone" => \A d \in op[o].done : draft[d].at = NoTime
    /\ op[o].end = "removed" => op[o].done \cap Kept = {}

IsDue(d) == d \in Kept /\ draft[d].at # NoTime /\ draft[d].at <= now

\* The scheduler runs, and is not waiting after an instant it could not read.
Attentive(s) == /\ job[s].pc \notin {"down", "deaf"}
                /\ ~(job[s].pc = "waiting" /\ until[s] = Unread /\ ~announced[s])

\* A due draft is sent, or taken off its schedule with why, as long as some
\* service attends to the schedule.
DueIsSettled ==
  \A d \in DraftIds : IsDue(d) ~> (~IsDue(d) \/ \A s \in Services : ~Attentive(s))

\* What the code does not keep: a draft is removed, "kept otherwise", once its
\* own text was taken.  Of two drafts sent at once under one key the loser of the
\* insertion is answered with the other's row, and removed once that is `sent`.
OwnTextLeadsOn ==
  [][\A p \in Parties :
       job[p].pc = "remove" /\ life' # life =>
         \E a \in accepted : a.key = job[p].key /\ a.text = job[p].text]_vars

\* What the code does not keep: "Take the draft off its schedule; it stays a
\* draft": a service takes up no send of a draft that is off its schedule.
HeldBackIsKept ==
  [][\A s \in Services :
       job[s].pc = "take" /\ job'[s].pc = "begin" => draft[job'[s].draft].at # NoTime]_vars
=============================================================================
