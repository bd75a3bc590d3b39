---------------------------- MODULE DraftsProofs ----------------------------
(***************************************************************************)
(* Proofs about Drafts for any sets of drafts, services, operators and     *)
(* keys and any number of faults: its types, that a key puts one copy out, *)
(* under a key the draft was given, that only mail the provider took leads *)
(* on, and what a refused schedule leaves behind.                          *)
(***************************************************************************)
EXTENDS Drafts, WellFoundedInduction, TLAPS

DraftRows == [text : Texts \cup {NoText}, at : Instants \cup {NoTime},
              key : SendKeys \cup {NoKey}, failed : BOOLEAN]
OutRows == [text : Texts \cup {NoText}, status : Statuses]
Jobs == [pc : Sending \cup Rounds \cup {"idle"}, draft : DraftIds \cup {NoDraft},
         key : SendKeys \cup {NoKey}, text : Texts \cup {NoText},
         fresh : BOOLEAN, follow : BOOLEAN, lost : BOOLEAN]
Kinds == {"none", "merge", "send", "schedule", "new", "many", "unschedule", "delete", "undo"}
Ops == [kind : Kinds, todo : SUBSET DraftIds, done : SUBSET DraftIds,
        at : 0 .. 2 * LastTime, key : SendKeys \cup {NoKey},
        end : {"none", "done", "refused", "undone", "removed", "error"}]
Copies == [key : SendKeys, text : Texts, draft : DraftIds, by : Parties]

\* A key that is claimed keeps the text of its claim.
RowsStand ==
  \A k \in SendKeys : out[k] = NoRow \/ (out[k].text \in Texts /\ out[k].status # "none")

KeptHasText == \A d \in Kept : draft[d].text \in Texts

\* What is scheduled or listed as due is so under a key an operator gave.
ScheduledIsGiven == \A d \in DraftIds : draft[d].at # NoTime => draft[d].key \in given[d]

KeysGiven ==
  /\ ScheduledIsGiven
  /\ \A s \in Services : \A e \in due[s] : e[2] \in given[e[1]]
  /\ \A o \in Operators : op[o].kind \in Scheduling => op[o].key \in SendKeys

\* A send is of a draft, under a key the draft was given; one that submits wrote
\* the row of its key.
JobStands(p) ==
  /\ job[p].pc \in {"begin", "insert", "submitting", "follow", "remove"} =>
       /\ job[p].draft \in DraftIds /\ job[p].key \in given[job[p].draft]
       /\ job[p].text \in Texts
  /\ job[p].pc = "submitting" => out[job[p].key].text = job[p].text
  /\ job[p].pc = "record" => job[p].draft \in DraftIds

IInvTypes == TypeOK /\ RowsStand /\ KeptHasText /\ KeysGiven /\ \A p \in Parties : JobStands(p)

\* The fields of the rows a step reads.
LEMMA DraftRow ==
  ASSUME TypeOK, NEW d \in DraftIds
  PROVE  /\ draft[d] \in DraftRows
         /\ draft[d].text \in Texts \cup {NoText} /\ draft[d].at \in Instants \cup {NoTime}
         /\ draft[d].key \in SendKeys \cup {NoKey} /\ draft[d].failed \in BOOLEAN
  BY DEF TypeOK, DraftRows

LEMMA JobRow ==
  ASSUME TypeOK, NEW p \in Parties
  PROVE  /\ job[p] \in Jobs
         /\ job[p].pc \in Sending \cup Rounds \cup {"idle"}
         /\ job[p].draft \in DraftIds \cup {NoDraft} /\ job[p].key \in SendKeys \cup {NoKey}
         /\ job[p].text \in Texts \cup {NoText}
         /\ job[p].fresh \in BOOLEAN /\ job[p].follow \in BOOLEAN /\ job[p].lost \in BOOLEAN
  BY DEF TypeOK, Jobs

LEMMA OpRow ==
  ASSUME TypeOK, NEW o \in Operators
  PROVE  /\ op[o] \in Ops
         /\ op[o].kind \in Kinds /\ op[o].todo \in SUBSET DraftIds /\ op[o].done \in SUBSET DraftIds
         /\ op[o].at \in 0 .. 2 * LastTime /\ op[o].key \in SendKeys \cup {NoKey}
         /\ op[o].end \in {"none", "done", "refused", "undone", "removed", "error"}
  BY DEF TypeOK, Ops, Kinds

\* The rows nobody wrote to, and what a set or statement writes.
LEMMA Blanks ==
  /\ Unwritten \in DraftRows /\ NoRow \in OutRows /\ NoJob \in Jobs /\ NoOp \in Ops
  /\ FirstText \in Texts /\ NoText \notin Texts /\ 0 \in 0 .. 2 * LastTime
  /\ NoOp.kind = "none" /\ NoOp.end = "none" /\ NoJob.pc = "idle"
  /\ NoOp.todo = {} /\ NoOp.done = {}
  <1>1. FirstText \in Texts
    BY DraftsAssumption DEF FirstText
  <1>2. 0 \in 0 .. 2 * LastTime
    BY DraftsAssumption
  <1>3. NoOp \in Ops /\ NoOp.kind = "none" /\ NoOp.end = "none" /\ NoOp.todo = {} /\ NoOp.done = {}
    BY <1>2 DEF NoOp, Ops, Kinds, NoTime
  <1>4. NoJob \in Jobs /\ NoJob.pc = "idle"
    BY DEF NoJob, Jobs
  <1>5. Unwritten \in DraftRows /\ NoRow \in OutRows /\ NoText \notin Texts
    BY DraftsAssumption DEF Unwritten, DraftRows, NoRow, OutRows, Statuses
  <1> QED BY <1>1, <1>2, <1>3, <1>4, <1>5

\* An earliest instant there is, wherever there is one.
LEMMA SomeFirst ==
  ASSUME NEW T \in SUBSET Nat, T # {}
  PROVE  \E x \in T : \A y \in T : x <= y
  <1> DEFINE R == {ss \in Nat \X Nat : ss[1] < ss[2]}
  <1>1. IsWellFoundedOn(R, Nat)
    BY NatLessThanWellFounded DEF OpToRel
  <1> HIDE DEF R
  <1>2. PICK x \in T : \A y \in T : ~(<<y, x>> \in R)
    BY <1>1, WFMin
  <1>3. \A y \in T : ~(y < x)
    BY <1>2 DEF R
  <1> QED BY <1>3

LEMMA EarliestType ==
  ASSUME TypeOK
  PROVE  Earliest \in Instants \cup {Never}
  <1>1. CASE Scheduled = {}
    BY <1>1 DEF Earliest
  <1>2. CASE Scheduled # {}
    <2> DEFINE T == {draft[d].at : d \in Scheduled}
    <2>1. T \in SUBSET Instants /\ T # {}
      BY <1>2, DraftRow DEF Scheduled, Kept, NoTime
    <2>a. T \in SUBSET Nat
      BY <2>1, DraftsAssumption DEF Instants
    <2> HIDE DEF T
    <2>2. PICK x \in T : \A y \in T : x <= y
      BY <2>1, <2>a, SomeFirst
    <2>3. \A d \in Scheduled : x <= draft[d].at
      BY <2>2 DEF T
    <2>4. Earliest \in T
      BY <1>2, <2>2, <2>3 DEF Earliest, T
    <2> QED BY <2>1, <2>4
  <1> QED BY <1>1, <1>2

\* TypeOK, with its records named.
Types ==
  /\ now \in Instants
  /\ life \in [DraftIds -> {"unwritten", "kept", "sent", "deleted"}]
  /\ draft \in [DraftIds -> DraftRows] /\ out \in [SendKeys -> OutRows]
  /\ followed \subseteq SendKeys
  /\ job \in [Parties -> Jobs]
  /\ due \in [Services -> SUBSET (DraftIds \X SendKeys)]
  /\ until \in [Services -> Instants \cup {Never, Unread}]
  /\ announced \in [Services -> BOOLEAN]
  /\ op \in [Operators -> Ops]
  /\ faults \in 0 .. MaxFaults /\ asked \in 0 .. MaxAsked
  /\ given \in [DraftIds -> SUBSET SendKeys] /\ accepted \subseteq Copies
  /\ copies \in [SendKeys -> Nat]

LEMMA Typed ==
  /\ TypeOK <=> Types
  /\ TypeOK' <=> Types'
  BY DEF TypeOK, DraftRows, OutRows, Jobs, Kinds, Ops, Copies, Types

\* What is written to the rows of drafts, of jobs and of operations is typed.
LEMMA DraftWrites ==
  ASSUME TypeOK, NEW d \in DraftIds
  PROVE  /\ \A text \in Texts : Keep(d, text) =>
              /\ draft' \in [DraftIds -> DraftRows] /\ announced' \in [Services -> BOOLEAN]
              /\ life' \in [DraftIds -> {"unwritten", "kept", "sent", "deleted"}]
         /\ \A at \in Instants \cup {NoTime}, key \in SendKeys \cup {NoKey} : SetSchedule(d, at, key) =>
              draft' \in [DraftIds -> DraftRows] /\ announced' \in [Services -> BOOLEAN]
         /\ \A how \in {"sent", "deleted"} : Drop(d, how) =>
              /\ draft' \in [DraftIds -> DraftRows] /\ announced' \in [Services -> BOOLEAN]
              /\ life' \in [DraftIds -> {"unwritten", "kept", "sent", "deleted"}]
  <1>1. Announce => announced' \in [Services -> BOOLEAN]
    BY Typed DEF Types, Announce
  <1>2. draft \in [DraftIds -> DraftRows]
        /\ life \in [DraftIds -> {"unwritten", "kept", "sent", "deleted"}]
    BY Typed DEF Types
  <1>3. ASSUME NEW text \in Texts, Keep(d, text)
        PROVE  /\ draft' \in [DraftIds -> DraftRows] /\ announced' \in [Services -> BOOLEAN]
               /\ life' \in [DraftIds -> {"unwritten", "kept", "sent", "deleted"}]
    BY <1>1, <1>2, <1>3 DEF Keep, DraftRows
  <1>4. ASSUME NEW at \in Instants \cup {NoTime}, NEW key \in SendKeys \cup {NoKey},
               SetSchedule(d, at, key)
        PROVE  draft' \in [DraftIds -> DraftRows] /\ announced' \in [Services -> BOOLEAN]
    <2> DEFINE row == [text |-> draft[d].text, at |-> at, key |-> key, failed |-> FALSE]
    <2>1. row \in DraftRows
      BY DraftRow DEF DraftRows
    <2>2. draft[d] = [text |-> draft[d].text, at |-> draft[d].at, key |-> draft[d].key,
                      failed |-> draft[d].failed]
      BY <1>2 DEF DraftRows
    <2>3. SetSchedule(d, at, key) => draft' = [draft EXCEPT ![d] = row]
      BY <1>2, <2>2 DEF SetSchedule
    <2>4. draft' \in [DraftIds -> DraftRows]
      BY <1>2, <1>4, <2>1, <2>3
    <2> QED BY <1>1, <1>4, <2>4 DEF SetSchedule
  <1>5. ASSUME NEW how \in {"sent", "deleted"}, Drop(d, how)
        PROVE  /\ draft' \in [DraftIds -> DraftRows] /\ announced' \in [Services -> BOOLEAN]
               /\ life' \in [DraftIds -> {"unwritten", "kept", "sent", "deleted"}]
    BY <1>1, <1>2, <1>5, Blanks DEF Drop
  <1> QED BY <1>3, <1>4, <1>5

LEMMA FailureWrites ==
  ASSUME TypeOK, NEW d \in DraftIds,
         draft' = [draft EXCEPT ![d].at = NoTime, ![d].failed = TRUE]
  PROVE  draft' \in [DraftIds -> DraftRows]
  <1>1. draft \in [DraftIds -> DraftRows]
    BY Typed DEF Types
  <1> DEFINE off == [draft[d] EXCEPT !.at = NoTime]
  <1>2. off \in DraftRows
    BY <1>1 DEF DraftRows
  <1>3. [off EXCEPT !.failed = TRUE] \in DraftRows
    BY <1>2 DEF DraftRows
  <1>4. draft' = [draft EXCEPT ![d] = [off EXCEPT !.failed = TRUE]]
    BY <1>1
  <1> QED BY <1>1, <1>3, <1>4

LEMMA JobWrites ==
  ASSUME TypeOK, NEW p \in Parties
  PROVE  /\ \A place \in Sending \cup Rounds \cup {"idle"} :
              Goto(p, place) => job' \in [Parties -> Jobs]
         /\ Over(p) \/ Unsent(p) => job' \in [Parties -> Jobs]
         /\ ClaimLost(p) => job' \in [Parties -> Jobs]
         /\ \A status : Answered(p, status) => job' \in [Parties -> Jobs]
         /\ \A d \in DraftIds, key \in SendKeys, follow \in BOOLEAN :
              Read(p, d, key, follow) => job' \in [Parties -> Jobs]
  <1>1. job \in [Parties -> Jobs] /\ job[p] \in Jobs /\ NoJob \in Jobs
    BY Typed, Blanks DEF Types
  <1>2. ASSUME NEW place \in Sending \cup Rounds \cup {"idle"}, Goto(p, place)
        PROVE  job' \in [Parties -> Jobs]
    BY <1>1, <1>2 DEF Goto, Jobs
  <1>3. Over(p) => job' \in [Parties -> Jobs]
    <2>1. [NoJob EXCEPT !.pc = "take"] \in Jobs
      BY <1>1 DEF Jobs, Rounds
    <2> QED BY <1>1, <2>1 DEF Over
  <1>4. UnsentJob(p) \in Jobs /\ (Unsent(p) => job' \in [Parties -> Jobs])
    <2>1. [NoJob EXCEPT !.pc = "record", !.draft = job[p].draft] \in Jobs
      BY <1>1 DEF Jobs, Sending
    <2>2. UnsentJob(p) \in Jobs
      BY <1>1, <2>1 DEF UnsentJob
    <2> QED BY <1>1, <2>2 DEF Unsent
  <1>5. ASSUME NEW status, Answered(p, status) PROVE job' \in [Parties -> Jobs]
    BY <1>2, <1>4, <1>5 DEF Answered, Sending
  <1>6. ASSUME NEW d \in DraftIds, NEW key \in SendKeys, NEW follow \in BOOLEAN, Read(p, d, key, follow)
        PROVE  job' \in [Parties -> Jobs]
    <2>1. [NoJob EXCEPT !.pc = "record", !.draft = d] \in Jobs
      BY <1>1 DEF Jobs, Sending
    <2>2. [NoJob EXCEPT !.pc = "begin", !.draft = d, !.key = key, !.text = draft[d].text,
                        !.fresh = (out[key] = NoRow), !.follow = follow] \in Jobs
      <3>1. \A text \in Texts \cup {NoText}, fresh \in BOOLEAN :
              [NoJob EXCEPT !.pc = "begin", !.draft = d, !.key = key, !.text = text,
                            !.fresh = fresh, !.follow = follow] \in Jobs
        BY <1>1 DEF Jobs, Sending
      <3>2. (out[key] = NoRow) \in BOOLEAN
        OBVIOUS
      <3> QED BY <3>1, <3>2, DraftRow, Zenon
    <2> QED BY <1>1, <1>6, <2>1, <2>2 DEF Read
  <1>7. ClaimLost(p) => job' \in [Parties -> Jobs]
    <2>1. \A place \in {"follow", "remove"} : [job[p] EXCEPT !.pc = place, !.lost = TRUE] \in Jobs
      BY <1>1 DEF Jobs, Sending
    <2>2. ClaimLost(p) => \/ \E place \in {"follow", "remove"} :
                               job' = [job EXCEPT ![p] = [job[p] EXCEPT !.pc = place, !.lost = TRUE]]
                          \/ job' = [job EXCEPT ![p] = UnsentJob(p)]
      BY <1>1 DEF ClaimLost
    <2> QED BY <1>1, <1>4, <2>1, <2>2
  <1> QED BY <1>2, <1>3, <1>4, <1>5, <1>6, <1>7

\* An operation set down, going on, or over.
LEMMA OpWrites ==
  ASSUME TypeOK, NEW o \in Operators
  PROVE  /\ \A x \in Ops : [op EXCEPT ![o] = x] \in [Operators -> Ops]
         /\ \A kind \in Kinds, D \in SUBSET DraftIds :
              /\ [NoOp EXCEPT !.kind = kind, !.todo = D] \in Ops
              /\ [NoOp EXCEPT !.kind = kind, !.todo = D, !.end = "done"] \in Ops
              /\ \A at \in Instants, key \in SendKeys :
                   [NoOp EXCEPT !.kind = kind, !.todo = D, !.at = at, !.key = key] \in Ops
         /\ \A how \in {"done", "refused", "undone", "removed", "error", "none"} :
              /\ End(o, how) => op' \in [Operators -> Ops]
              /\ [NoOp EXCEPT !.end = how] \in Ops
         /\ \A D \in SUBSET DraftIds : [op EXCEPT ![o].todo = D] \in [Operators -> Ops]
  <1>1. op \in [Operators -> Ops] /\ op[o] \in Ops /\ NoOp \in Ops
        /\ op[o].done \in SUBSET DraftIds
    BY Typed, Blanks, OpRow DEF Types
  <1>2. ASSUME NEW kind \in Kinds, NEW D \in SUBSET DraftIds
        PROVE  /\ [NoOp EXCEPT !.kind = kind, !.todo = D] \in Ops
               /\ [NoOp EXCEPT !.kind = kind, !.todo = D, !.end = "done"] \in Ops
    BY <1>1 DEF Ops
  <1>3. ASSUME NEW kind \in Kinds, NEW D \in SUBSET DraftIds, NEW at \in Instants, NEW key \in SendKeys
        PROVE  [NoOp EXCEPT !.kind = kind, !.todo = D, !.at = at, !.key = key] \in Ops
    <2>1. at \in 0 .. 2 * LastTime
      BY DraftsAssumption DEF Instants
    <2> QED BY <1>1, <2>1 DEF Ops
  <1>4. ASSUME NEW how \in {"done", "refused", "undone", "removed", "error", "none"}
        PROVE  /\ End(o, how) => op' \in [Operators -> Ops]
               /\ [NoOp EXCEPT !.end = how] \in Ops
    <2>1. [NoOp EXCEPT !.end = how] \in Ops
      BY <1>1 DEF Ops
    <2>2. [NoOp EXCEPT !.done = op[o].done, !.end = how] \in Ops
      BY <1>1 DEF Ops
    <2> QED BY <1>1, <2>1, <2>2 DEF End
  <1>5. ASSUME NEW D \in SUBSET DraftIds PROVE [op EXCEPT ![o].todo = D] \in [Operators -> Ops]
    BY <1>1 DEF Ops
  <1> QED BY <1>1, <1>2, <1>3, <1>4, <1>5

\* What taking drafts off their schedule or away does at a time.
LEMMA AwayDoes ==
  ASSUME NEW o \in Operators, Away(o)
  PROVE  \/ \E d \in op[o].todo \cap Kept :
              /\ op' = [op EXCEPT ![o].todo = op[o].todo \ {d}]
              /\ \/ op[o].kind = "delete" /\ Drop(d, "deleted")
                 \/ op[o].kind # "delete" /\ SetSchedule(d, NoTime, NoKey) /\ UNCHANGED life
         \/ /\ (op[o].todo = {} /\ End(o, op[o].end)) \/ End(o, "error")
            /\ UNCHANGED <<life, draft, announced>>
  BY DEF Away

LEMMA AwayTypes ==
  ASSUME TypeOK, NEW o \in Operators, Away(o)
  PROVE  /\ draft' \in [DraftIds -> DraftRows] /\ announced' \in [Services -> BOOLEAN]
         /\ life' \in [DraftIds -> {"unwritten", "kept", "sent", "deleted"}]
  <1>2. CASE UNCHANGED <<life, draft, announced>>
    BY <1>2, Typed DEF Types
  <1>3. CASE \E d \in op[o].todo \cap Kept :
               /\ op' = [op EXCEPT ![o].todo = op[o].todo \ {d}]
               /\ \/ op[o].kind = "delete" /\ Drop(d, "deleted")
                  \/ op[o].kind # "delete" /\ SetSchedule(d, NoTime, NoKey) /\ UNCHANGED life
    <2>1. PICK d \in Kept : \/ Drop(d, "deleted")
                            \/ SetSchedule(d, NoTime, NoKey) /\ UNCHANGED life
      BY <1>3
    <2> QED BY <2>1, DraftWrites, Blanks, Typed DEF Types, Kept
  <1> QED BY <1>2, <1>3, AwayDoes

\* Steps of operators, but for their sends, keep the types.
LEMMA OperatorTypes ==
  ASSUME IInvTypes, NEW o \in Operators, OperatorStep(o), ~SendStep(o)
  PROVE  TypeOK'
  <1>0. /\ TypeOK /\ KeptHasText /\ KeysGiven /\ RowsStand /\ Keys \subseteq SendKeys
        /\ DraftIds \subseteq SendKeys /\ o \in Parties /\ Kept \subseteq DraftIds
        /\ op[o] \in Ops /\ NoTime \in Instants \cup {NoTime} /\ NoKey \in SendKeys \cup {NoKey}
    BY OpRow DEF IInvTypes, SendKeys, Parties, Kept
  <1> USE Typed DEF Types
  <1>1. ASSUME Ask(o) PROVE asked' \in 0 .. MaxAsked
    BY <1>0, <1>1, DraftsAssumption DEF Ask
  <1>2. ASSUME Fault PROVE faults' \in 0 .. MaxFaults
    BY <1>0, <1>2, DraftsAssumption DEF Fault
  <1>3. ASSUME NEW d \in DraftIds, NEW text \in Texts, Create(o, d, text) PROVE TypeOK'
    BY <1>0, <1>1, <1>3, DraftWrites DEF Create, history
  <1>4. ASSUME NEW d \in DraftIds, NEW text \in Texts, Update(o, d, text) PROVE TypeOK'
    <2>1. draft' \in [DraftIds -> DraftRows]
      BY <1>0, <1>4 DEF Update, DraftRows
    <2> QED BY <1>0, <1>1, <1>4, <2>1 DEF Update, history
  <1>5. ASSUME NEW d \in DraftIds, NEW k \in SendKeys, FromOutbound(o, d, k) PROVE TypeOK'
    BY <1>0, <1>3, <1>5 DEF FromOutbound, RowsStand
  <1>6. ASSUME NEW d \in DraftIds, NEW e \in DraftIds, Copy(o, d, e) PROVE TypeOK'
    BY <1>0, <1>3, <1>6 DEF Copy, KeptHasText
  <1>7. ASSUME NEW D \in SUBSET DraftIds, AskMerge(o, D) \/ AskNudge(o, D) PROVE TypeOK'
    <2>1. [NoOp EXCEPT !.kind = "merge", !.todo = D] \in Ops
      BY <1>0, OpWrites, "merge" \in Kinds DEF Kinds
    <2>2. op' \in [Operators -> Ops]
      BY <1>0, <1>7, <2>1 DEF AskMerge, AskNudge
    <2> QED BY <1>0, <1>1, <1>7, <2>2 DEF AskMerge, AskNudge, history
  <1>8. ASSUME NEW D \in SUBSET DraftIds, AskSendAll(o, D) PROVE TypeOK'
    BY <1>0, <1>1, <1>8, OpWrites DEF AskSendAll, history, Kinds
  <1>9. CASE MergeOne(o)
    <2>a. PICK d \in op[o].todo :
            /\ Keep(d, FirstText)
            /\ IF op[o].todo = {d}
                 THEN op' = [op EXCEPT ![o] = [NoOp EXCEPT !.end = "done"]]
                 ELSE op' = [op EXCEPT ![o].todo = op[o].todo \ {d}]
      BY <1>9 DEF MergeOne
    <2>1. d \in DraftIds
      BY <1>0, <2>a, OpRow
    <2>2. [NoOp EXCEPT !.end = "done"] \in Ops
      BY <1>0, OpWrites
    <2>3. op[o].todo \ {d} \in SUBSET DraftIds
      BY <1>0, OpRow
    <2>4. op' \in [Operators -> Ops]
      <3>1. CASE op[o].todo = {d}
        BY <1>0, <2>a, <2>2, <3>1
      <3>2. CASE op[o].todo # {d}
        <4>1. op' = [op EXCEPT ![o].todo = op[o].todo \ {d}]
          BY <2>a, <3>2
        <4> QED BY <1>0, <2>3, <4>1, OpWrites
      <3> QED BY <3>1, <3>2
    <2>5. /\ draft' \in [DraftIds -> DraftRows] /\ announced' \in [Services -> BOOLEAN]
          /\ life' \in [DraftIds -> {"unwritten", "kept", "sent", "deleted"}]
      BY <1>0, <2>a, <2>1, Blanks, DraftWrites
    <2> QED BY <1>0, <1>9, <2>4, <2>5 DEF MergeOne, history
  <1>10. CASE SendNext(o)
    <2>1. CASE op[o].todo = {} /\ End(o, "done") /\ UNCHANGED <<job, given>>
      BY <1>0, <1>10, <2>1, OpWrites DEF SendNext
    <2>2. ASSUME NEW d \in op[o].todo, Read(o, d, d, TRUE),
                 op' = [op EXCEPT ![o].todo = op[o].todo \ {d}],
                 given' = [given EXCEPT ![d] = given[d] \cup {d}]
          PROVE  TypeOK'
      <3>1. d \in DraftIds /\ d \in SendKeys /\ op[o].todo \ {d} \in SUBSET DraftIds
        BY <1>0, OpRow
      <3>2. job' \in [Parties -> Jobs] /\ op' \in [Operators -> Ops]
        BY <1>0, <2>2, <3>1, JobWrites, OpWrites
      <3>3. given' \in [DraftIds -> SUBSET SendKeys]
        BY <1>0, <2>2, <3>1
      <3> QED BY <1>0, <1>10, <3>2, <3>3 DEF SendNext
    <2> QED BY <1>0, <1>10, <2>1, <2>2 DEF SendNext
  <1>11. ASSUME NEW d \in DraftIds, NEW text \in Texts, NEW at \in Instants, NEW key \in Keys,
                AskNew(o, d, text, at, key)
         PROVE  TypeOK'
    <2>1. op' \in [Operators -> Ops]
      <3>1. [NoOp EXCEPT !.kind = "new", !.todo = {d}, !.at = at, !.key = key] \in Ops
        <4>1. "new" \in Kinds /\ {d} \in SUBSET DraftIds /\ key \in SendKeys
          BY <1>0 DEF Kinds
        <4> QED BY <1>0, <4>1, OpWrites
      <3> QED BY <1>0, <1>11, <3>1 DEF AskNew
    <2> QED BY <1>0, <1>1, <1>11, <2>1, DraftWrites DEF AskNew, history
  <1>12. ASSUME NEW D \in SUBSET DraftIds, NEW at \in Instants, NEW key \in Keys,
                NEW kind \in {"schedule", "many"}, AskSchedule(o, D, at, kind, key)
         PROVE  TypeOK'
    <2>1. op' \in [Operators -> Ops]
      BY <1>0, <1>12, OpWrites DEF AskSchedule, Kinds
    <2> QED BY <1>0, <1>1, <1>12, <2>1 DEF AskSchedule, history
  <1>13. CASE ScheduleOne(o)
    <2>1. PICK d \in op[o].todo \cap Kept :
            /\ op[o].at \in Instants
            /\ SetSchedule(d, op[o].at, KeyFor(o, d))
            /\ given' = [given EXCEPT ![d] = given[d] \cup {KeyFor(o, d)}]
            /\ IF op[o].todo = {d}
                 THEN op' = [op EXCEPT ![o] = [NoOp EXCEPT !.end = "done"]]
                 ELSE op' = [op EXCEPT ![o].todo = op[o].todo \ {d},
                                       ![o].done = op[o].done \cup {d}, ![o].at = op[o].at + 1]
      BY <1>0, <1>13 DEF ScheduleOne
    <2>2. KeyFor(o, d) \in SendKeys /\ d \in DraftIds
      BY <1>0, <1>13 DEF KeyFor, KeysGiven, ScheduleOne
    <2>3. op' \in [Operators -> Ops]
      <3>1. op[o].at + 1 \in 0 .. 2 * LastTime
        BY <2>1, DraftsAssumption DEF Instants
      <3>2. CASE op[o].todo = {d}
        <4>1. [NoOp EXCEPT !.end = "done"] \in Ops
          BY <1>0, OpWrites
        <4> QED BY <1>0, <2>1, <3>2, <4>1
      <3>3. CASE op[o].todo # {d}
        <4>1. op[o].todo \ {d} \in SUBSET DraftIds /\ op[o].done \cup {d} \in SUBSET DraftIds
          BY <1>0, <2>2, OpRow
        <4> QED BY <1>0, <2>1, <3>1, <3>3, <4>1 DEF Ops
      <3> QED BY <3>2, <3>3
    <2>4. given' \in [DraftIds -> SUBSET SendKeys]
      BY <1>0, <2>1, <2>2
    <2>5. draft' \in [DraftIds -> DraftRows] /\ announced' \in [Services -> BOOLEAN]
      BY <1>0, <2>1, <2>2, DraftWrites
    <2> QED BY <1>0, <1>13, <2>3, <2>4, <2>5 DEF ScheduleOne
  <1>14. CASE ScheduleRefused(o)
    <2>1. op' \in [Operators -> Ops]
      <3>1. Undone(o) \in SUBSET DraftIds
        BY <1>0, OpRow DEF Undone
      <3>2. CASE op[o].kind = "schedule"
        BY <1>0, <1>14, <3>2, OpWrites DEF ScheduleRefused
      <3>3. CASE op[o].kind = "new"
        <4>1. op' = [op EXCEPT ![o].kind = "delete", ![o].todo = Undone(o),
                               ![o].done = op[o].done \cup op[o].todo, ![o].end = "removed"]
          BY <1>0, <1>14, <3>3 DEF ScheduleRefused
        <4> HIDE DEF Types
        <4>2. op[o].done \cup op[o].todo \in SUBSET DraftIds /\ op \in [Operators -> Ops]
          BY <1>0, OpRow, Typed DEF Types
        <4> QED BY <1>0, <3>1, <4>1, <4>2 DEF Ops, Kinds
      <3>4. CASE op[o].kind \notin {"schedule", "new"}
        <4>1. op' = [op EXCEPT ![o].kind = "undo", ![o].todo = Undone(o),
                               ![o].done = op[o].done \cup {}, ![o].end = "undone"]
          BY <1>0, <1>14, <3>4 DEF ScheduleRefused
        <4> HIDE DEF Types
        <4>2. op[o].done \cup {} \in SUBSET DraftIds /\ op \in [Operators -> Ops]
          BY <1>0, OpRow, Typed DEF Types
        <4> QED BY <1>0, <3>1, <4>1, <4>2 DEF Ops, Kinds
      <3> QED BY <3>2, <3>3, <3>4
    <2> QED BY <1>0, <1>14, <2>1 DEF ScheduleRefused, history
  <1>15. ASSUME NEW D \in SUBSET DraftIds, NEW kind \in {"unschedule", "delete"}, AskAway(o, D, kind)
         PROVE  TypeOK'
    BY <1>0, <1>1, <1>15, OpWrites DEF AskAway, history, Kinds
  <1>16. CASE Away(o)
    <2>1. op[o].end \in {"done", "refused", "undone", "removed", "error", "none"}
      BY <1>0, OpRow
    <2>2. op' \in [Operators -> Ops]
      <3>1. \A d : op[o].todo \ {d} \in SUBSET DraftIds
        BY <1>0, OpRow
      <3>2. CASE \E d : op' = [op EXCEPT ![o].todo = @ \ {d}]
        <4>1. PICK d : op' = [op EXCEPT ![o].todo = op[o].todo \ {d}]
          BY <3>2
        <4>2. op[o].todo \ {d} \in SUBSET DraftIds
          BY <3>1
        <4> QED BY <1>0, <4>1, <4>2, OpWrites
      <3>3. CASE End(o, op[o].end) \/ End(o, "error")
        BY <1>0, <2>1, <3>3, OpWrites
      <3> QED BY <1>16, <3>2, <3>3 DEF Away
    <2>3. /\ draft' \in [DraftIds -> DraftRows] /\ announced' \in [Services -> BOOLEAN]
          /\ life' \in [DraftIds -> {"unwritten", "kept", "sent", "deleted"}]
      BY <1>0, <1>16, AwayTypes
    <2> QED BY <1>0, <1>16, <2>2, <2>3 DEF Away, history
  <1>17. CASE OperationFails(o)
    BY <1>0, <1>2, <1>17, OpWrites DEF OperationFails, history
  <1>18. ASSUME NEW d \in DraftIds, NEW key \in Keys, NEW follow \in BOOLEAN, AskSend(o, d, key, follow)
         PROVE  TypeOK'
    <2>1. job' \in [Parties -> Jobs]
      BY <1>0, <1>18, JobWrites DEF AskSend
    <2>2. given' \in [DraftIds -> SUBSET SendKeys]
      BY <1>0, <1>18 DEF AskSend
    <2> QED BY <1>0, <1>1, <1>18, <2>1, <2>2 DEF AskSend
  <1>19. ASSUME NEW k \in SendKeys, SetFollowUp(o, k) \/ ClearFollowUp(o, k) PROVE TypeOK'
    BY <1>0, <1>1, <1>19 DEF SetFollowUp, ClearFollowUp, history
  <1> QED BY <1>3, <1>4, <1>5, <1>6, <1>7, <1>8, <1>9, <1>10, <1>11, <1>12, <1>13, <1>14, <1>15,
             <1>16, <1>17, <1>18, <1>19 DEF OperatorStep

\* What the provider takes of a submission, and counts, is typed.
LEMMA TakenTypes ==
  ASSUME Types, NEW p \in Parties, job[p].draft \in DraftIds, job[p].key \in SendKeys, job[p].text \in Texts,
         Taken(p) \/ NotTaken
  PROVE  accepted' \subseteq Copies /\ copies' \in [SendKeys -> Nat]
  <1>1. CASE NotTaken
    BY <1>1 DEF NotTaken, Types
  <1>2. CASE Taken(p)
    <2>1. [key |-> job[p].key, text |-> job[p].text, draft |-> job[p].draft, by |-> p] \in Copies
      BY DEF Copies
    <2>2. copies[job[p].key] + 1 \in Nat
      BY DEF Types
    <2>3. accepted' \subseteq Copies
      BY <1>2, <2>1 DEF Taken, Types
    <2>4. copies' \in [SendKeys -> Nat]
      BY <1>2, <2>2 DEF Taken, Types
    <2> QED BY <2>3, <2>4
  <1> QED BY <1>1, <1>2

\* The steps of a send keep the types.
LEMMA SendTypes ==
  ASSUME IInvTypes, NEW p \in Parties, SendStep(p)
  PROVE  TypeOK'
  <1>0. /\ TypeOK /\ RowsStand /\ JobStands(p) /\ Types /\ job[p] \in Jobs
        /\ job[p].pc \in {"begin", "insert", "submitting", "follow", "remove"}
        /\ job[p].draft \in DraftIds /\ job[p].key \in SendKeys /\ job[p].text \in Texts
    <2>1. TypeOK /\ RowsStand /\ JobStands(p) /\ Types /\ job[p] \in Jobs
      BY Typed, JobRow DEF IInvTypes
    <2>2. job[p].pc \in {"begin", "insert", "submitting", "follow", "remove"}
      BY DEF SendStep, Admit, Claim, ClaimLost, Replay, RefuseSend, SmtpEnds, Follow, Remove
    <2> QED BY <2>1, <2>2 DEF JobStands, Types
  <1>1. ASSUME Fault PROVE faults' \in 0 .. MaxFaults
    BY <1>0, <1>1, DraftsAssumption DEF Fault, Types
  <1>2. CASE Claim(p)
    <2>1. job' \in [Parties -> Jobs]
      BY <1>0, <1>2, JobWrites DEF Claim, Sending
    <2>2. out' \in [SendKeys -> OutRows]
      BY <1>0, <1>2 DEF Claim, Types, OutRows, Statuses
    <2>3. Types'
      BY <1>0, <1>2, <2>1, <2>2 DEF Claim, Types, history
    <2> QED BY <2>3, Typed
  <1>3. CASE Replay(p) \/ ClaimLost(p)
    <2>1. job' \in [Parties -> Jobs]
      BY <1>0, <1>3, JobWrites DEF Replay
    <2>2. Types'
      BY <1>0, <1>3, <2>1 DEF Replay, ClaimLost, Types, history
    <2> QED BY <2>2, Typed
  <1>8. CASE Admit(p)
    <2>1. job' \in [Parties -> Jobs]
      BY <1>0, <1>8, JobWrites DEF Admit, Sending
    <2>2. Types'
      BY <1>0, <1>8, <2>1 DEF Admit, Types, history
    <2> QED BY <2>2, Typed
  <1>4. CASE RefuseSend(p)
    <2>1. job' \in [Parties -> Jobs]
      BY <1>0, <1>4, JobWrites DEF RefuseSend
    <2>2. Types'
      BY <1>0, <1>4, <2>1 DEF RefuseSend, Types, history
    <2> QED BY <2>2, Typed
  <1>5. CASE SmtpEnds(p)
    <2>1. job' \in [Parties -> Jobs]
      BY <1>0, <1>5, JobWrites DEF SmtpEnds
    <2>2. out' \in [SendKeys -> OutRows]
      BY <1>0, <1>5 DEF SmtpEnds, Types, OutRows, Statuses
    <2>3. accepted' \subseteq Copies /\ copies' \in [SendKeys -> Nat]
      <3>1. Taken(p) \/ NotTaken
        BY <1>5 DEF SmtpEnds
      <3> QED BY <1>0, <3>1, TakenTypes
    <2>4. faults' \in 0 .. MaxFaults
      BY <1>0, <1>1, <1>5 DEF SmtpEnds, Types
    <2>5. Types'
      BY <1>0, <1>5, <2>1, <2>2, <2>3, <2>4 DEF SmtpEnds, Types
    <2> QED BY <2>5, Typed
  <1>6. CASE Follow(p)
    <2>1. job' \in [Parties -> Jobs]
      BY <1>0, <1>6, JobWrites DEF Follow, Sending
    <2>2. followed' \subseteq SendKeys /\ faults' \in 0 .. MaxFaults
      BY <1>0, <1>1, <1>6 DEF Follow, Types
    <2>3. Types'
      BY <1>0, <1>6, <2>1, <2>2 DEF Follow, Types, history
    <2> QED BY <2>3, Typed
  <1>7. CASE Remove(p)
    <2>1. job' \in [Parties -> Jobs]
      BY <1>0, <1>7, JobWrites DEF Remove
    <2>2. /\ draft' \in [DraftIds -> DraftRows] /\ announced' \in [Services -> BOOLEAN]
          /\ life' \in [DraftIds -> {"unwritten", "kept", "sent", "deleted"}]
          /\ faults' \in 0 .. MaxFaults
      <3>1. CASE Drop(job[p].draft, "sent") /\ UNCHANGED faults
        BY <1>0, <3>1, DraftWrites DEF Types
      <3>2. CASE UNCHANGED <<life, draft, announced>> /\ (Fault \/ UNCHANGED faults)
        BY <1>0, <1>1, <3>2 DEF Types
      <3> QED BY <1>7, <3>1, <3>2 DEF Remove
    <2>3. Types'
      BY <1>0, <1>7, <2>1, <2>2 DEF Remove, Types, history
    <2> QED BY <2>3, Typed
  <1> QED BY <1>2, <1>3, <1>4, <1>5, <1>6, <1>7, <1>8 DEF SendStep

\* The scheduler's other steps keep the types.
LEMMA SchedulerTypes ==
  ASSUME IInvTypes, NEW s \in Services,
         ListDue(s) \/ Take(s) \/ RecordFailure(s) \/ NextDue(s) \/ Start(s) \/ SubscriptionEnds(s)
  PROVE  TypeOK'
  <1>0. /\ TypeOK /\ KeysGiven /\ JobStands(s) /\ Types /\ s \in Parties
        /\ NoJob \in Jobs /\ Kept \subseteq DraftIds
    BY Typed, Blanks DEF IInvTypes, Parties, Kept
  <1>1. ASSUME Fault PROVE faults' \in 0 .. MaxFaults
    BY <1>0, <1>1, DraftsAssumption DEF Fault, Types
  <1>2. CASE ListDue(s)
    <2>1. job' \in [Parties -> Jobs]
      BY <1>0, <1>2, JobWrites DEF ListDue, Rounds
    <2>2. due' \in [Services -> SUBSET (DraftIds \X SendKeys)]
      <3> DEFINE D == {<<d, DueKey(s, d)>> : d \in {e \in Kept : draft[e].at # NoTime /\ draft[e].at <= now}}
      <3>1. D \in SUBSET (DraftIds \X SendKeys)
        BY <1>0 DEF DueKey, KeysGiven, ScheduledIsGiven, Types
      <3>2. due' = [due EXCEPT ![s] = D] \/ UNCHANGED due
        BY <1>2 DEF ListDue
      <3> HIDE DEF D
      <3> QED BY <1>0, <3>1, <3>2 DEF Types
    <2>3. /\ until' \in [Services -> Instants \cup {Never, Unread}]
          /\ announced' \in [Services -> BOOLEAN] /\ faults' \in 0 .. MaxFaults
      BY <1>0, <1>1, <1>2 DEF ListDue, Woken, Types
    <2>4. Types'
      BY <1>0, <1>2, <2>1, <2>2, <2>3 DEF ListDue, Types, history
    <2> QED BY <2>4, Typed
  <1>3. CASE Take(s)
    <2>1. job' \in [Parties -> Jobs] /\ due' \in [Services -> SUBSET (DraftIds \X SendKeys)]
      <3>1. ASSUME NEW e \in due[s], due' = [due EXCEPT ![s] = due[s] \ {e}], Read(s, e[1], e[2], FALSE)
            PROVE  job' \in [Parties -> Jobs] /\ due' \in [Services -> SUBSET (DraftIds \X SendKeys)]
        <4>1. e[1] \in DraftIds /\ e[2] \in SendKeys
          BY <1>0 DEF Types
        <4> QED BY <1>0, <3>1, <4>1, JobWrites DEF Types
      <3>2. CASE job' = [job EXCEPT ![s] = [NoJob EXCEPT !.pc = "next"]] /\ UNCHANGED due
        <4>1. [NoJob EXCEPT !.pc = "next"] \in Jobs
          BY <1>0 DEF Jobs, Rounds
        <4> QED BY <1>0, <3>2, <4>1 DEF Types
      <3> QED BY <1>3, <3>1, <3>2 DEF Take
    <2>2. Types'
      BY <1>0, <1>3, <2>1 DEF Take, Types, history
    <2> QED BY <2>2, Typed
  <1>4. CASE RecordFailure(s)
    <2>1. job' \in [Parties -> Jobs]
      BY <1>0, <1>4, JobWrites DEF RecordFailure, Rounds
    <2>2. draft' \in [DraftIds -> DraftRows]
      <3>1. job[s].draft \in DraftIds
        BY <1>0, <1>4 DEF RecordFailure, JobStands
      <3> QED BY <1>0, <1>4, <3>1, FailureWrites DEF RecordFailure, Types
    <2>3. /\ due' \in [Services -> SUBSET (DraftIds \X SendKeys)]
          /\ announced' \in [Services -> BOOLEAN] /\ faults' \in 0 .. MaxFaults
      BY <1>0, <1>1, <1>4 DEF RecordFailure, Announce, Types
    <2>4. Types'
      BY <1>0, <1>4, <2>1, <2>2, <2>3 DEF RecordFailure, Types, history
    <2> QED BY <2>4, Typed
  <1>5. CASE NextDue(s)
    <2>1. job' \in [Parties -> Jobs]
      BY <1>0, <1>5, JobWrites DEF NextDue, Rounds
    <2>2. until' \in [Services -> Instants \cup {Never, Unread}] /\ faults' \in 0 .. MaxFaults
      BY <1>0, <1>1, <1>5, EarliestType DEF NextDue, Types
    <2>3. Types'
      BY <1>0, <1>5, <2>1, <2>2 DEF NextDue, Types, history
    <2> QED BY <2>3, Typed
  <1>6. CASE Start(s)
    <2>1. job' \in [Parties -> Jobs]
      <3>1. [NoJob EXCEPT !.pc = "list"] \in Jobs
        BY <1>0 DEF Jobs, Rounds
      <3> QED BY <1>0, <1>6, <3>1 DEF Start, Types
    <2>2. out' \in [SendKeys -> OutRows]
      BY <1>0, <1>6 DEF Start, Interrupted, Types, OutRows, Statuses
    <2>3. Types'
      BY <1>0, <1>6, <2>1, <2>2 DEF Start, Types, history
    <2> QED BY <2>3, Typed
  <1>7. CASE SubscriptionEnds(s)
    <2>1. job' \in [Parties -> Jobs]
      BY <1>0, <1>7, JobWrites DEF SubscriptionEnds, Rounds
    <2>2. Types'
      BY <1>0, <1>1, <1>7, <2>1 DEF SubscriptionEnds, Types, history
    <2> QED BY <2>2, Typed
  <1> QED BY <1>2, <1>3, <1>4, <1>5, <1>6, <1>7

LEMMA StopTypes ==
  ASSUME IInvTypes, NEW p \in Parties, Stop(p)
  PROVE  TypeOK'
  <1>0. TypeOK /\ JobStands(p) /\ Types /\ NoJob \in Jobs /\ given \in [DraftIds -> SUBSET SendKeys]
    BY Typed, Blanks DEF IInvTypes, Types
  <1>1. job' \in [Parties -> Jobs]
    <2>1. [NoJob EXCEPT !.pc = "down"] \in Jobs
      BY <1>0 DEF Jobs, Rounds
    <2> QED BY <1>0, <2>1 DEF Stop, Types
  <1>2. op' \in [Operators -> Ops]
    <2>1. [NoOp EXCEPT !.end = "error"] \in Ops
      BY Blanks DEF Ops
    <2> QED BY <1>0, <2>1 DEF Stop, Types
  <1>3. accepted' \subseteq Copies /\ copies' \in [SendKeys -> Nat]
    <2>1. CASE NotTaken
      BY <1>0, <2>1 DEF NotTaken, Types
    <2>2. CASE job[p].pc = "submitting" /\ Taken(p)
      <3>1. job[p].draft \in DraftIds /\ job[p].key \in SendKeys /\ job[p].text \in Texts
        BY <1>0, <2>2 DEF JobStands
      <3> QED BY <1>0, <2>2, <3>1, TakenTypes
    <2> QED BY <2>1, <2>2 DEF Stop
  <1>4. faults' \in 0 .. MaxFaults /\ due' \in [Services -> SUBSET (DraftIds \X SendKeys)]
    BY <1>0, DraftsAssumption DEF Stop, Fault, Types
  <1>5. Types'
    BY <1>0, <1>1, <1>2, <1>3, <1>4 DEF Stop, Types
  <1> QED BY <1>5, Typed

LEMMA StepTypeOK == IInvTypes /\ [Next]_vars => TypeOK'
  <1> SUFFICES ASSUME IInvTypes, [Next]_vars PROVE TypeOK'
    OBVIOUS
  <1>0. TypeOK /\ Types
    BY Typed DEF IInvTypes
  <1>1. CASE Tick
    <2>1. Types'
      BY <1>0, <1>1, DraftsAssumption DEF Tick, Types, Instants, history
    <2> QED BY <2>1, Typed
  <1>2. CASE UNCHANGED vars
    <2>1. Types'
      BY <1>0, <1>2 DEF vars, Types
    <2> QED BY <2>1, Typed
  <1>3. ASSUME NEW s \in Services, ServiceStep(s) \/ Start(s) \/ SubscriptionEnds(s) PROVE TypeOK'
    BY <1>3, SendTypes, SchedulerTypes DEF ServiceStep, Parties
  <1>4. ASSUME NEW o \in Operators, OperatorStep(o) PROVE TypeOK'
    BY <1>4, SendTypes, OperatorTypes DEF Parties
  <1>5. ASSUME NEW p \in Parties, Stop(p) PROVE TypeOK'
    BY <1>5, StopTypes
  <1> QED BY <1>1, <1>2, <1>3, <1>4, <1>5 DEF Next

-----------------------------------------------------------------------------
(* The rest of the invariant, part by part. *)

\* The steps that write to the outbound rows, and to the histories.
LEMMA RowSteps ==
  ASSUME [Next]_vars
  PROVE  \/ UNCHANGED out
         \/ \E p \in Parties : Claim(p) \/ SmtpEnds(p)
         \/ \E s \in Services : Start(s)
  <1>1. ASSUME NEW p \in Parties, SendStep(p) PROVE UNCHANGED out \/ Claim(p) \/ SmtpEnds(p)
    BY <1>1 DEF SendStep, Admit, ClaimLost, Replay, RefuseSend, Follow, Remove
  <1>2. ASSUME NEW o \in Operators, OperatorStep(o), ~SendStep(o) PROVE UNCHANGED out
    BY <1>2 DEF OperatorStep, Create, Update, FromOutbound, Copy, AskMerge, AskNudge, AskSendAll,
         MergeOne, SendNext, AskNew, AskSchedule, ScheduleOne, ScheduleRefused, AskAway, Away,
         OperationFails, AskSend, SetFollowUp, ClearFollowUp
  <1>3. ASSUME NEW s \in Services, ServiceStep(s), ~SendStep(s) PROVE UNCHANGED out
    BY <1>3 DEF ServiceStep, ListDue, Take, RecordFailure, NextDue
  <1>4. ASSUME NEW s \in Services, SubscriptionEnds(s) PROVE UNCHANGED out
    BY <1>4 DEF SubscriptionEnds
  <1>5. ASSUME NEW p \in Parties, Stop(p) PROVE UNCHANGED out
    BY <1>5 DEF Stop
  <1>6. CASE Tick \/ UNCHANGED vars
    BY <1>6 DEF Tick, vars
  <1> QED BY <1>1, <1>2, <1>3, <1>4, <1>5, <1>6 DEF Next, Parties

LEMMA TakenSteps ==
  ASSUME [Next]_vars
  PROVE  UNCHANGED <<accepted, copies>> \/ \E p \in Parties : SmtpEnds(p) \/ Stop(p)
  <1>1. ASSUME NEW p \in Parties, SendStep(p) PROVE UNCHANGED <<accepted, copies>> \/ SmtpEnds(p)
    BY <1>1 DEF SendStep, Admit, Claim, ClaimLost, Replay, RefuseSend, Follow, Remove, history
  <1>2. ASSUME NEW o \in Operators, OperatorStep(o), ~SendStep(o) PROVE UNCHANGED <<accepted, copies>>
    BY <1>2 DEF OperatorStep, Create, Update, FromOutbound, Copy, AskMerge, AskNudge, AskSendAll,
         MergeOne, SendNext, AskNew, AskSchedule, ScheduleOne, ScheduleRefused, AskAway, Away,
         OperationFails, AskSend, SetFollowUp, ClearFollowUp, history
  <1>3. ASSUME NEW s \in Services,
               (ServiceStep(s) /\ ~SendStep(s)) \/ Start(s) \/ SubscriptionEnds(s)
        PROVE  UNCHANGED <<accepted, copies>>
    BY <1>3 DEF ServiceStep, ListDue, Take, RecordFailure, NextDue, Start, SubscriptionEnds, history
  <1>4. CASE Tick \/ UNCHANGED vars
    BY <1>4 DEF Tick, vars, history
  <1> QED BY <1>1, <1>2, <1>3, <1>4 DEF Next, Parties

\* Keys once given stay given.
LEMMA GivenGrows ==
  ASSUME TypeOK, [Next]_vars
  PROVE  \A d \in DraftIds : given[d] \subseteq given'[d]
  <1>0. given \in [DraftIds -> SUBSET SendKeys]
    BY DEF TypeOK
  <1>1. ASSUME NEW p \in Parties, SendStep(p) PROVE UNCHANGED given
    BY <1>1 DEF SendStep, Admit, Claim, ClaimLost, Replay, RefuseSend, SmtpEnds, Follow, Remove, history
  <1>2. ASSUME NEW o \in Operators, OperatorStep(o), ~SendStep(o)
        PROVE  \A d \in DraftIds : given[d] \subseteq given'[d]
    <2>1. op[o].todo \subseteq DraftIds
      BY OpRow
    <2>2. CASE ScheduleOne(o) \/ SendNext(o)
      BY <1>0, <2>1, <2>2 DEF ScheduleOne, SendNext
    <2>3. ASSUME NEW d \in DraftIds, NEW key \in Keys, NEW follow \in BOOLEAN, AskSend(o, d, key, follow)
          PROVE  \A e \in DraftIds : given[e] \subseteq given'[e]
      BY <1>0, <2>3 DEF AskSend
    <2> QED
      BY <1>0, <1>2, <2>2, <2>3 DEF OperatorStep, Create, Update, FromOutbound, Copy, AskMerge, AskNudge,
         AskSendAll, MergeOne, AskNew, AskSchedule, ScheduleRefused, AskAway, Away,
         OperationFails, SetFollowUp, ClearFollowUp, history
  <1>3. ASSUME NEW s \in Services,
               (ServiceStep(s) /\ ~SendStep(s)) \/ Start(s) \/ SubscriptionEnds(s)
        PROVE  UNCHANGED given
    BY <1>3 DEF ServiceStep, ListDue, Take, RecordFailure, NextDue, Start, SubscriptionEnds, history
  <1>4. CASE Tick \/ UNCHANGED vars \/ \E p \in Parties : Stop(p)
    BY <1>4 DEF Tick, vars, Stop, history
  <1> QED BY <1>0, <1>1, <1>2, <1>3, <1>4 DEF Next, Parties

\* A row is written once and keeps the text it was claimed with.
LEMMA RowsStep ==
  ASSUME IInvTypes, [Next]_vars
  PROVE  /\ RowsStand'
         /\ \A k \in SendKeys : out[k] # NoRow => out'[k] # NoRow /\ out'[k].text = out[k].text
  <1>0. /\ TypeOK /\ Types /\ RowsStand /\ NoText \notin Texts
        /\ \A p \in Parties : JobStands(p)
    BY Typed, Blanks DEF IInvTypes
  <1>a. NoRow.text = NoText /\ NoRow.status = "none"
    BY DEF NoRow
  <1>1. CASE UNCHANGED out
    BY <1>0, <1>1 DEF RowsStand
  <1>2. ASSUME NEW p \in Parties, Claim(p)
        PROVE  /\ RowsStand'
               /\ \A k \in SendKeys : out[k] # NoRow => out'[k] # NoRow /\ out'[k].text = out[k].text
    BY <1>0, <1>2 DEF Claim, RowsStand, JobStands, Types
  <1>3. ASSUME NEW p \in Parties, SmtpEnds(p)
        PROVE  /\ RowsStand'
               /\ \A k \in SendKeys : out[k] # NoRow => out'[k] # NoRow /\ out'[k].text = out[k].text
    <2>1. job[p].key \in SendKeys /\ out[job[p].key].text = job[p].text /\ job[p].text \in Texts
      BY <1>0, <1>3 DEF SmtpEnds, JobStands, Types
    <2>2. out[job[p].key] # NoRow
      BY <1>0, <1>a, <2>1
    <2>3. \E status \in {"sent", "failed", "uncertain"} :
            out' = [out EXCEPT ![job[p].key].status = status] \/ UNCHANGED out
      BY <1>3 DEF SmtpEnds
    <2>4. ASSUME NEW status \in {"sent", "failed", "uncertain"},
                 out' = [out EXCEPT ![job[p].key].status = status]
          PROVE  /\ RowsStand'
                 /\ \A k \in SendKeys : out[k] # NoRow => out'[k] # NoRow /\ out'[k].text = out[k].text
      <3>1. \A k \in SendKeys : out'[k].text = out[k].text /\ (k # job[p].key => out'[k] = out[k])
        BY <1>0, <2>1, <2>4 DEF Types, OutRows
      <3>2. out'[job[p].key].status = status /\ status # "none"
        BY <1>0, <2>1, <2>4 DEF Types, OutRows
      <3> QED BY <1>0, <1>a, <2>1, <2>2, <3>1, <3>2 DEF RowsStand
    <2> QED BY <1>1, <2>3, <2>4
  <1>4. ASSUME NEW s \in Services, Start(s)
        PROVE  /\ RowsStand'
               /\ \A k \in SendKeys : out[k] # NoRow => out'[k] # NoRow /\ out'[k].text = out[k].text
    BY <1>0, <1>4, <1>a DEF Start, Interrupted, RowsStand, Types, OutRows
  <1> QED BY <1>1, <1>2, <1>3, <1>4, RowSteps

\* What a draft is written with: a kept one has a text, a scheduled one a key it
\* was given.
GoodDrafts == KeptHasText /\ ScheduledIsGiven

LEMMA DraftsStep ==
  ASSUME IInvTypes, [Next]_vars
  PROVE  GoodDrafts'
  <1>0. /\ TypeOK /\ GoodDrafts /\ KeysGiven /\ RowsStand /\ FirstText \in Texts
        /\ \A p \in Parties : JobStands(p)
        /\ draft \in [DraftIds -> DraftRows] /\ life \in [DraftIds -> {"unwritten", "kept", "sent", "deleted"}]
        /\ \A d \in DraftIds : given[d] \subseteq given'[d]
    BY Typed, Blanks, GivenGrows DEF IInvTypes, Types, GoodDrafts, KeysGiven
  <1> USE DEF GoodDrafts, KeptHasText, ScheduledIsGiven, Kept
  <1>1. CASE UNCHANGED <<life, draft>>
    BY <1>0, <1>1
  <1>2. ASSUME NEW d \in DraftIds, NEW text \in Texts, Keep(d, text) PROVE GoodDrafts'
    BY <1>0, <1>2 DEF Keep, DraftRows
  <1>3. ASSUME NEW d \in DraftIds, NEW at, NEW key, SetSchedule(d, at, key), UNCHANGED life,
               at = NoTime \/ key \in given'[d]
        PROVE  GoodDrafts'
    BY <1>0, <1>3 DEF SetSchedule, DraftRows
  <1>4. ASSUME NEW d \in DraftIds, NEW how \in {"sent", "deleted"}, Drop(d, how) PROVE GoodDrafts'
    BY <1>0, <1>4 DEF Drop, Unwritten
  <1>5. ASSUME NEW p \in Parties, SendStep(p) PROVE GoodDrafts'
    <2>1. CASE UNCHANGED <<life, draft>>
      BY <1>1, <2>1
    <2>2. CASE Remove(p)
      <3>1. CASE job[p].draft \in Kept /\ Drop(job[p].draft, "sent")
        BY <1>4, <3>1
      <3> QED BY <1>1, <2>2, <3>1 DEF Remove
    <2> QED BY <1>5, <2>1, <2>2 DEF SendStep, Admit, Claim, ClaimLost, Replay, RefuseSend, SmtpEnds, Follow
  <1>6. ASSUME NEW s \in Services, (ServiceStep(s) /\ ~SendStep(s)) \/ Start(s) \/ SubscriptionEnds(s)
        PROVE  GoodDrafts'
    <2>1. CASE RecordFailure(s)
      <3>1. CASE draft' = [draft EXCEPT ![job[s].draft].at = NoTime, ![job[s].draft].failed = TRUE]
                 /\ UNCHANGED life
        BY <1>0, <3>1 DEF DraftRows
      <3> QED BY <1>1, <2>1, <3>1 DEF RecordFailure
    <2> QED BY <1>1, <1>6, <2>1 DEF ServiceStep, ListDue, Take, NextDue, Start, SubscriptionEnds
  <1>7. ASSUME NEW o \in Operators, OperatorStep(o), ~SendStep(o) PROVE GoodDrafts'
    <2>1. ASSUME NEW d \in DraftIds, NEW text \in Texts, Create(o, d, text) PROVE GoodDrafts'
      BY <1>2, <2>1 DEF Create
    <2>2. ASSUME NEW d \in DraftIds, NEW text \in Texts, Update(o, d, text) PROVE GoodDrafts'
      BY <1>0, <2>2 DEF Update, DraftRows
    <2>3. ASSUME NEW d \in DraftIds, NEW k \in SendKeys, FromOutbound(o, d, k) PROVE GoodDrafts'
      BY <1>0, <2>1, <2>3 DEF FromOutbound, RowsStand
    <2>4. ASSUME NEW d \in DraftIds, NEW e \in DraftIds, Copy(o, d, e) PROVE GoodDrafts'
      BY <1>0, <2>1, <2>4 DEF Copy
    <2>5. CASE MergeOne(o)
      <3>1. PICK d \in DraftIds : Keep(d, FirstText)
        BY <1>0, <2>5, OpRow DEF MergeOne
      <3> QED BY <1>0, <1>2, <3>1
    <2>6. ASSUME NEW d \in DraftIds, NEW text \in Texts, NEW at \in Instants, NEW key \in Keys,
                 AskNew(o, d, text, at, key)
          PROVE  GoodDrafts'
      BY <1>2, <2>6 DEF AskNew
    <2>7. CASE ScheduleOne(o)
      <3>1. PICK d \in DraftIds : /\ SetSchedule(d, op[o].at, KeyFor(o, d))
                                  /\ given' = [given EXCEPT ![d] = given[d] \cup {KeyFor(o, d)}]
        BY <2>7 DEF ScheduleOne
      <3>2. KeyFor(o, d) \in given'[d]
        BY <1>0, <3>1, Typed DEF Types
      <3> QED BY <1>3, <2>7, <3>1, <3>2 DEF ScheduleOne
    <2>8. CASE Away(o)
      <3>1. CASE \E d \in Kept : Drop(d, "deleted") \/ (SetSchedule(d, NoTime, NoKey) /\ UNCHANGED life)
        BY <1>3, <1>4, <3>1
      <3> QED BY <1>1, <2>8, <3>1, AwayDoes
    <2>9. CASE UNCHANGED <<life, draft>>
      BY <1>1, <2>9
    <2> QED
      BY <1>7, <2>1, <2>2, <2>3, <2>4, <2>5, <2>6, <2>7, <2>8, <2>9 DEF OperatorStep, AskMerge, AskNudge,
         AskSendAll, SendNext, AskSchedule, ScheduleRefused, AskAway, OperationFails, AskSend,
         SetFollowUp, ClearFollowUp
  <1>8. CASE Tick \/ UNCHANGED vars \/ \E p \in Parties : Stop(p)
    BY <1>1, <1>8 DEF Tick, vars, Stop
  <1> QED BY <1>5, <1>6, <1>7, <1>8 DEF Next, Parties

\* What the steps of an operation leave of it: whom it is about, and how far it is.
LEMMA OpMoves ==
  ASSUME TypeOK, NEW o \in Operators, NEW x \in Ops, op' = [op EXCEPT ![o] = x]
  PROVE  op'[o] = x /\ \A e \in Operators : e # o => op'[e] = op[e]
  BY Typed DEF Types

LEMMA ScheduleOneDoes ==
  ASSUME TypeOK, NEW o \in Operators, ScheduleOne(o)
  PROVE  /\ \E d \in op[o].todo \cap Kept :
              /\ SetSchedule(d, op[o].at, KeyFor(o, d))
              /\ \/ op'[o] = [NoOp EXCEPT !.end = "done"]
                 \/ /\ op'[o].kind = op[o].kind /\ op'[o].key = op[o].key /\ op'[o].end = op[o].end
                    /\ op'[o].todo = op[o].todo \ {d} /\ op'[o].done = op[o].done \cup {d}
                    /\ op[o].todo # {d}
         /\ \A e \in Operators : e # o => op'[e] = op[e]
  <1>0. op \in [Operators -> Ops] /\ op[o] \in Ops
    BY Typed DEF Types
  <1>1. PICK d \in op[o].todo \cap Kept :
          /\ SetSchedule(d, op[o].at, KeyFor(o, d))
          /\ IF op[o].todo = {d}
               THEN op' = [op EXCEPT ![o] = [NoOp EXCEPT !.end = "done"]]
               ELSE op' = [op EXCEPT ![o].todo = op[o].todo \ {d},
                                     ![o].done = op[o].done \cup {d}, ![o].at = op[o].at + 1]
    BY <1>0 DEF ScheduleOne
  <1>2. CASE op[o].todo = {d}
    BY <1>0, <1>1, <1>2
  <1>3. CASE op[o].todo # {d}
    <2>1. op' = [op EXCEPT ![o].todo = op[o].todo \ {d},
                           ![o].done = op[o].done \cup {d}, ![o].at = op[o].at + 1]
      BY <1>1, <1>3
    <2>2. /\ op'[o].kind = op[o].kind /\ op'[o].key = op[o].key /\ op'[o].end = op[o].end
          /\ op'[o].todo = op[o].todo \ {d} /\ op'[o].done = op[o].done \cup {d}
          /\ \A e \in Operators : e # o => op'[e] = op[e]
      BY <1>0, <2>1 DEF Ops
    <2> QED BY <1>1, <1>3, <2>2
  <1> QED BY <1>2, <1>3

LEMMA RefusedDoes ==
  ASSUME TypeOK, NEW o \in Operators, ScheduleRefused(o)
  PROVE  /\ \/ op'[o].kind = "none" /\ op'[o].end = "refused" /\ op'[o].todo = {}
            \/ /\ op[o].kind = "new" /\ op'[o].kind = "delete" /\ op'[o].end = "removed"
               /\ op'[o].todo = op[o].todo /\ op'[o].done = op[o].done \cup op[o].todo
            \/ /\ op[o].kind # "new" /\ op'[o].kind = "undo" /\ op'[o].end = "undone"
               /\ op'[o].todo = op[o].done /\ op'[o].done = op[o].done
         /\ \A e \in Operators : e # o => op'[e] = op[e]
  <1>0. op \in [Operators -> Ops] /\ op[o] \in Ops
    BY Typed DEF Types
  <1>1. CASE op[o].kind = "schedule"
    BY <1>0, <1>1 DEF ScheduleRefused, End, NoOp
  <1>2. CASE op[o].kind = "new"
    <2>1. op' = [op EXCEPT ![o].kind = "delete", ![o].todo = Undone(o),
                           ![o].done = op[o].done \cup op[o].todo, ![o].end = "removed"]
      BY <1>0, <1>2 DEF ScheduleRefused
    <2> QED BY <1>0, <1>2, <2>1 DEF Undone, Ops
  <1>3. CASE op[o].kind \notin {"schedule", "new"}
    <2>1. op' = [op EXCEPT ![o].kind = "undo", ![o].todo = Undone(o),
                           ![o].done = op[o].done \cup {}, ![o].end = "undone"]
      BY <1>0, <1>3 DEF ScheduleRefused
    <2> QED BY <1>0, <1>3, <2>1 DEF Undone, Ops
  <1> QED BY <1>1, <1>2, <1>3

\* A step on one draft of an operation, or its end.
LEMMA GoesOn ==
  ASSUME TypeOK, NEW o \in Operators
  PROVE  /\ \A d : op' = [op EXCEPT ![o].todo = op[o].todo \ {d}] =>
              /\ op'[o].kind = op[o].kind /\ op'[o].key = op[o].key /\ op'[o].end = op[o].end
              /\ op'[o].todo = op[o].todo \ {d} /\ op'[o].done = op[o].done
              /\ \A e \in Operators : e # o => op'[e] = op[e]
         /\ \A how : End(o, how) =>
              /\ op'[o].kind = "none" /\ op'[o].end = how
              /\ op'[o].todo = {} /\ op'[o].done = op[o].done
              /\ \A e \in Operators : e # o => op'[e] = op[e]
  <1>0. op \in [Operators -> Ops] /\ op[o] \in Ops
    BY Typed DEF Types
  <1>1. ASSUME NEW d, op' = [op EXCEPT ![o].todo = op[o].todo \ {d}]
        PROVE  /\ op'[o].kind = op[o].kind /\ op'[o].key = op[o].key /\ op'[o].end = op[o].end
               /\ op'[o].todo = op[o].todo \ {d} /\ op'[o].done = op[o].done
               /\ \A e \in Operators : e # o => op'[e] = op[e]
    BY <1>0, <1>1 DEF Ops
  <1>2. ASSUME NEW how, End(o, how)
        PROVE  /\ op'[o].kind = "none" /\ op'[o].end = how
               /\ op'[o].todo = {} /\ op'[o].done = op[o].done
               /\ \A e \in Operators : e # o => op'[e] = op[e]
    BY <1>0, <1>2 DEF End, NoOp
  <1> QED BY <1>1, <1>2

\* What an operation asked for begins as, and what an operator's other steps do
\* to the operations.
Asked(x) ==
  /\ x.end \in {"none", "done", "error"} /\ x.done = {}
  /\ x.kind \in Scheduling => x.key \in SendKeys /\ x.end = "none"
  /\ x.kind = "new" => \E d \in DraftIds : x.todo = {d}

LEMMA OperationsMove ==
  ASSUME TypeOK, NEW o \in Operators, OperatorStep(o), ~SendStep(o)
  PROVE  /\ \A e \in Operators : e # o => op'[e] = op[e]
         /\ \/ UNCHANGED op
            \/ Asked(op'[o]) /\ (op'[o].kind = "none" => op'[o].todo = {})
            \/ ScheduleOne(o) \/ ScheduleRefused(o) \/ Away(o) \/ MergeOne(o) \/ SendNext(o)
  <1>0. op \in [Operators -> Ops] /\ op[o] \in Ops /\ Keys \subseteq SendKeys
    BY Typed DEF Types, SendKeys
  <1> DEFINE Begins == /\ \A e \in Operators : e # o => op'[e] = op[e]
                       /\ Asked(op'[o]) /\ (op'[o].kind = "none" => op'[o].todo = {})
  <1>1. ASSUME NEW D \in SUBSET DraftIds, AskMerge(o, D) \/ AskNudge(o, D) PROVE Begins
    BY <1>0, <1>1 DEF AskMerge, AskNudge, NoOp, Asked, Scheduling
  <1>2. ASSUME NEW D \in SUBSET DraftIds, AskSendAll(o, D) PROVE Begins
    BY <1>0, <1>2 DEF AskSendAll, NoOp, Asked, Scheduling
  <1>3. ASSUME NEW d \in DraftIds, NEW text \in Texts, NEW at \in Instants, NEW key \in Keys,
               AskNew(o, d, text, at, key)
        PROVE  Begins
    BY <1>0, <1>3 DEF AskNew, NoOp, Asked
  <1>4. ASSUME NEW D \in SUBSET DraftIds, NEW at \in Instants, NEW key \in Keys,
               NEW kind \in {"schedule", "many"}, AskSchedule(o, D, at, kind, key)
        PROVE  Begins
    BY <1>0, <1>4 DEF AskSchedule, NoOp, Asked
  <1>5. ASSUME NEW D \in SUBSET DraftIds, NEW kind \in {"unschedule", "delete"}, AskAway(o, D, kind)
        PROVE  Begins
    BY <1>0, <1>5 DEF AskAway, NoOp, Asked, Scheduling
  <1>6. CASE OperationFails(o)
    <2>1. Begins
      BY <1>0, <1>6 DEF OperationFails, NoOp, Asked, Scheduling
    <2> QED BY <2>1
  <1>7. CASE UNCHANGED op
    BY <1>7
  <1>8. CASE ScheduleOne(o)
    BY <1>8, ScheduleOneDoes
  <1>9. CASE ScheduleRefused(o)
    BY <1>9, RefusedDoes
  <1>10. CASE Away(o)
    BY <1>10, AwayDoes, GoesOn
  <1>11. CASE MergeOne(o)
    BY <1>0, <1>11 DEF MergeOne
  <1>12. CASE SendNext(o)
    BY <1>12, GoesOn DEF SendNext
  <1> HIDE DEF Begins
  <1>13. CASE Begins
    BY <1>13 DEF Begins
  <1> QED
    BY <1>1, <1>2, <1>3, <1>4, <1>5, <1>6, <1>7, <1>8, <1>9, <1>10, <1>11, <1>12, <1>13 DEF OperatorStep,
       Create, Update, FromOutbound, Copy, AskSend, SetFollowUp, ClearFollowUp

\* Only an operator's own steps, or the end of its process, change an operation.
LEMMA OperationsKept ==
  ASSUME TypeOK, [Next]_vars
  PROVE  \/ UNCHANGED op
         \/ \E o \in Operators : OperatorStep(o) /\ ~SendStep(o)
         \/ \E o \in Operators : op' = [op EXCEPT ![o] = [NoOp EXCEPT !.end = "error"]]
  <1>1. ASSUME NEW p \in Parties, SendStep(p) PROVE UNCHANGED op
    BY <1>1 DEF SendStep, Admit, Claim, ClaimLost, Replay, RefuseSend, SmtpEnds, Follow, Remove
  <1>2. ASSUME NEW t \in Services, (ServiceStep(t) /\ ~SendStep(t)) \/ Start(t) \/ SubscriptionEnds(t)
        PROVE  UNCHANGED op
    BY <1>2 DEF ServiceStep, ListDue, Take, RecordFailure, NextDue, Start, SubscriptionEnds
  <1>3. ASSUME NEW p \in Parties, Stop(p)
        PROVE  UNCHANGED op \/ \E o \in Operators : op' = [op EXCEPT ![o] = [NoOp EXCEPT !.end = "error"]]
    BY <1>3 DEF Stop
  <1>4. CASE Tick \/ UNCHANGED vars
    BY <1>4 DEF Tick, vars
  <1> QED BY <1>1, <1>2, <1>3, <1>4 DEF Next, Parties

LEMMA KeysStep ==
  ASSUME IInvTypes, [Next]_vars
  PROVE  KeysGiven'
  <1>0. /\ TypeOK /\ KeysGiven /\ NoOp.kind = "none" /\ Keys \subseteq SendKeys
        /\ due \in [Services -> SUBSET (DraftIds \X SendKeys)] /\ op \in [Operators -> Ops]
        /\ \A d \in DraftIds : given[d] \subseteq given'[d]
    BY Typed, Blanks, GivenGrows DEF IInvTypes, Types, SendKeys
  <1>1. ScheduledIsGiven'
    BY DraftsStep DEF GoodDrafts
  <1>2. ASSUME NEW s \in Services, NEW e \in due'[s] PROVE e[2] \in given'[e[1]]
    <2>1. CASE e \in due[s]
      BY <1>0, <2>1 DEF KeysGiven
    <2>2. CASE ListDue(s)
      <3> DEFINE D == {<<d, DueKey(s, d)>> : d \in {f \in Kept : draft[f].at # NoTime /\ draft[f].at <= now}}
      <3>1. due' = [due EXCEPT ![s] = D] \/ UNCHANGED due
        BY <2>2 DEF ListDue
      <3>2. ASSUME e \in D PROVE e[2] \in given[e[1]] /\ e[1] \in DraftIds
        BY <1>0, <3>2 DEF DueKey, KeysGiven, ScheduledIsGiven, Kept
      <3> HIDE DEF D
      <3> QED BY <1>0, <2>1, <3>1, <3>2
    <2>3. ASSUME NEW t \in Services, ListDue(t), t # s PROVE due'[s] = due[s]
      BY <1>0, <2>3 DEF ListDue
    <2>4. ASSUME NEW t \in Services, Take(t) \/ RecordFailure(t) PROVE due'[s] \subseteq due[s]
      BY <1>0, <2>4 DEF Take, RecordFailure
    <2>5. ASSUME NEW p \in Parties, Stop(p) PROVE due'[s] \subseteq due[s]
      BY <1>0, <2>5 DEF Stop
    <2>6. ASSUME NEW p \in Parties, SendStep(p) PROVE UNCHANGED due
      BY <2>6 DEF SendStep, Admit, Claim, ClaimLost, Replay, RefuseSend, SmtpEnds, Follow, Remove
    <2>7. ASSUME NEW o \in Operators, OperatorStep(o), ~SendStep(o) PROVE UNCHANGED due
      BY <2>7 DEF OperatorStep, Create, Update, FromOutbound, Copy, AskMerge, AskNudge, AskSendAll,
         MergeOne, SendNext, AskNew, AskSchedule, ScheduleOne, ScheduleRefused, AskAway, Away,
         OperationFails, AskSend, SetFollowUp, ClearFollowUp
    <2>8. ASSUME NEW t \in Services, NextDue(t) \/ Start(t) \/ SubscriptionEnds(t) PROVE UNCHANGED due
      BY <2>8 DEF NextDue, Start, SubscriptionEnds
    <2>9. CASE Tick \/ UNCHANGED vars
      BY <2>1, <2>9 DEF Tick, vars
    <2> QED
      BY <2>1, <2>2, <2>3, <2>4, <2>5, <2>6, <2>7, <2>8, <2>9 DEF Next, ServiceStep, Parties
  <1>3. ASSUME NEW o \in Operators, op'[o].kind \in Scheduling PROVE op'[o].key \in SendKeys
    <2>0. "none" \notin Scheduling
      BY DEF Scheduling
    <2>1. CASE op'[o] = op[o]
      BY <1>0, <1>3, <2>1 DEF KeysGiven
    <2>2. ASSUME OperatorStep(o), ~SendStep(o) PROVE op'[o].key \in SendKeys
      <3>1. CASE Asked(op'[o])
        BY <1>3, <3>1 DEF Asked
      <3>2. CASE ScheduleOne(o)
        BY <1>0, <1>3, <2>0, <2>1, <3>2, ScheduleOneDoes DEF KeysGiven, NoOp
      <3>3. CASE ScheduleRefused(o)
        BY <1>0, <1>3, <3>3, RefusedDoes DEF Scheduling
      <3>4. CASE Away(o)
        BY <1>0, <1>3, <3>4, AwayDoes, GoesOn DEF KeysGiven, Scheduling
      <3>5. CASE MergeOne(o)
        <4>1. PICK d : \/ op' = [op EXCEPT ![o] = [NoOp EXCEPT !.end = "done"]]
                       \/ op' = [op EXCEPT ![o].todo = op[o].todo \ {d}]
          BY <3>5 DEF MergeOne
        <4>2. CASE op' = [op EXCEPT ![o] = [NoOp EXCEPT !.end = "done"]]
          BY <1>0, <1>3, <2>0, <4>2
        <4>3. CASE op' = [op EXCEPT ![o].todo = op[o].todo \ {d}]
          BY <1>0, <1>3, <3>5, <4>3, GoesOn DEF MergeOne, Scheduling
        <4> QED BY <4>1, <4>2, <4>3
      <3>6. CASE SendNext(o)
        BY <1>0, <1>3, <3>6, GoesOn DEF SendNext, KeysGiven, Scheduling
      <3> QED BY <1>0, <2>1, <2>2, <3>1, <3>2, <3>3, <3>4, <3>5, <3>6, OperationsMove
    <2>3. ASSUME NEW p \in Operators, p # o, OperatorStep(p), ~SendStep(p) PROVE op'[o].key \in SendKeys
      BY <1>0, <2>1, <2>3, OperationsMove
    <2>4. ASSUME NEW p \in Operators, op' = [op EXCEPT ![p] = [NoOp EXCEPT !.end = "error"]]
          PROVE  op'[o].key \in SendKeys
      BY <1>0, <1>3, <2>1, <2>4 DEF NoOp, Scheduling
    <2> QED BY <1>0, <2>1, <2>2, <2>3, <2>4, OperationsKept
  <1> QED BY <1>1, <1>2, <1>3 DEF KeysGiven

\* A step leaves the sends of the parties that do not take it.
LEMMA OthersWait ==
  ASSUME TypeOK, NEW p \in Parties, SendStep(p), NEW q \in Parties, q # p
  PROVE  job'[q] = job[q]
  <1>1. job \in [Parties -> Jobs]
    BY Typed DEF Types
  <1> QED BY <1>1 DEF SendStep, Admit, Claim, ClaimLost, Replay, RefuseSend, SmtpEnds, Follow, Remove, Answered, Unsent, Over, Goto

\* Where a send that is at none of its own steps may be.
Lands(q) ==
  \/ job[q].pc \notin {"begin", "insert", "submitting", "follow", "remove", "record"}
  \/ job[q].pc = "record" /\ job[q].draft \in DraftIds
  \/ /\ job[q].pc = "begin" /\ job[q].draft \in DraftIds
     /\ job[q].key \in given[job[q].draft] /\ job[q].text \in Texts

LEMMA ReadLands ==
  ASSUME IInvTypes, NEW p \in Parties, NEW q \in Parties, NEW d \in DraftIds, NEW key \in given'[d],
         NEW follow, Read(p, d, key, follow)
  PROVE  job'[q] = job[q] \/ Lands(q)'
  <1>0. TypeOK /\ job \in [Parties -> Jobs] /\ KeptHasText
    BY Typed DEF IInvTypes, Types
  <1>1. CASE q # p
    BY <1>0, <1>1 DEF Read
  <1>2. CASE q = p /\ d \in Kept
    <2>1. draft[d].text \in Texts
      BY <1>0, <1>2 DEF KeptHasText
    <2>2. PICK fresh : job'[q] = [NoJob EXCEPT !.pc = "begin", !.draft = d, !.key = key,
                         !.text = draft[d].text, !.fresh = fresh, !.follow = follow]
      BY <1>0, <1>2 DEF Read
    <2>3. job'[q].pc = "begin" /\ job'[q].draft = d /\ job'[q].key = key /\ job'[q].text = draft[d].text
      BY <2>2 DEF NoJob
    <2> QED BY <2>1, <2>3 DEF Lands
  <1>3. CASE q = p /\ d \notin Kept
    BY <1>0, <1>3 DEF Read, NoJob, Lands
  <1> QED BY <1>1, <1>2, <1>3

\* Where a party's send is after a step of another kind: where it was, or where
\* none of its own steps has begun.
LEMMA OtherSteps ==
  ASSUME IInvTypes, [Next]_vars, NEW q \in Parties, \A p \in Parties : ~SendStep(p)
  PROVE  job'[q] = job[q] \/ Lands(q)'
  <1>0. /\ TypeOK /\ job \in [Parties -> Jobs] /\ KeysGiven /\ NoJob.pc = "idle"
        /\ \A d \in DraftIds : given[d] \subseteq given'[d]
        /\ given \in [DraftIds -> SUBSET SendKeys]
    BY Typed, Blanks, GivenGrows DEF IInvTypes, Types
  <1>1. CASE job'[q].pc \notin {"begin", "insert", "submitting", "follow", "remove", "record"}
    BY <1>1 DEF Lands
  <1>2. ASSUME NEW s \in Services, Take(s) PROVE job'[q] = job[q] \/ Lands(q)'
    <2>1. ASSUME NEW e \in due[s], Read(s, e[1], e[2], FALSE) PROVE job'[q] = job[q] \/ Lands(q)'
      <3>1. e[1] \in DraftIds /\ e[2] \in given'[e[1]] /\ s \in Parties
        BY <1>0, Typed DEF KeysGiven, Types, Parties
      <3> QED BY <2>1, <3>1, ReadLands
    <2>2. CASE job' = [job EXCEPT ![s] = [NoJob EXCEPT !.pc = "next"]]
      BY <1>0, <2>2 DEF NoJob, Lands
    <2> QED BY <1>2, <2>1, <2>2 DEF Take
  <1>3. ASSUME NEW s \in Services, ListDue(s) \/ RecordFailure(s) \/ NextDue(s) \/ Start(s) \/ SubscriptionEnds(s)
        PROVE  job'[q] = job[q] \/ Lands(q)'
    BY <1>0, <1>1, <1>3 DEF ListDue, RecordFailure, NextDue, Start, SubscriptionEnds, Goto, Over, NoJob, Jobs
  <1>4. ASSUME NEW p \in Parties, Stop(p) PROVE job'[q] = job[q] \/ Lands(q)'
    BY <1>0, <1>1, <1>4 DEF Stop, NoJob
  <1>5. ASSUME NEW o \in Operators, NEW d \in DraftIds, NEW key \in Keys, NEW follow \in BOOLEAN,
               AskSend(o, d, key, follow)
        PROVE  job'[q] = job[q] \/ Lands(q)'
    <2>1. key \in given'[d] /\ o \in Parties /\ Read(o, d, key, follow)
      BY <1>0, <1>5 DEF AskSend, Parties
    <2> QED BY <2>1, ReadLands
  <1>6. ASSUME NEW o \in Operators, SendNext(o) PROVE job'[q] = job[q] \/ Lands(q)'
    <2>1. ASSUME NEW d \in op[o].todo, Read(o, d, d, TRUE), given' = [given EXCEPT ![d] = given[d] \cup {d}]
          PROVE  job'[q] = job[q] \/ Lands(q)'
      <3>1. d \in DraftIds /\ d \in given'[d] /\ o \in Parties
        BY <1>0, <2>1, OpRow DEF Parties
      <3> QED BY <2>1, <3>1, ReadLands
    <2> QED BY <1>6, <2>1 DEF SendNext
  <1>7. ASSUME NEW o \in Operators, OperatorStep(o),
               ~SendNext(o), ~(\E d \in DraftIds, key \in Keys, follow \in BOOLEAN : AskSend(o, d, key, follow))
        PROVE  UNCHANGED job \/ SendStep(o)
    BY <1>7 DEF OperatorStep, Create, Update, FromOutbound, Copy, AskMerge, AskNudge, AskSendAll,
       MergeOne, AskNew, AskSchedule, ScheduleOne, ScheduleRefused, AskAway, Away,
       OperationFails, SetFollowUp, ClearFollowUp
  <1>8. CASE Tick \/ UNCHANGED vars
    BY <1>8 DEF Tick, vars
  <1> QED BY <1>2, <1>3, <1>4, <1>5, <1>6, <1>7, <1>8 DEF Next, ServiceStep, Parties

\* How a send's own step ends: at its next place, with the draft, key and text it
\* has, to be recorded, or nowhere.
LEMMA Advances ==
  ASSUME TypeOK, NEW p \in Parties, NEW place
  PROVE  /\ Goto(p, place) =>
              /\ job'[p].pc = place /\ job'[p].draft = job[p].draft
              /\ job'[p].key = job[p].key /\ job'[p].text = job[p].text
              /\ job'[p].lost = job[p].lost
         /\ ClaimLost(p) =>
              \/ /\ job'[p].pc \in {"follow", "remove"} /\ job'[p].draft = job[p].draft
                 /\ job'[p].key = job[p].key /\ job'[p].text = job[p].text /\ job'[p].lost
                 /\ out[job[p].key].status = "sent"
              \/ job'[p].pc = "record" /\ job'[p].draft = job[p].draft
              \/ job'[p].pc = "idle"
         /\ Over(p) => job'[p].pc \in {"take", "idle"}
         /\ Unsent(p) => \/ job'[p].pc = "record" /\ job'[p].draft = job[p].draft
                         \/ job'[p].pc \in {"take", "idle"}
  <1>1. job \in [Parties -> Jobs]
    BY Typed DEF Types
  <1>2. Over(p) => job'[p].pc \in {"take", "idle"}
    BY <1>1 DEF Over, NoJob
  <1>3. Goto(p, place) => /\ job'[p].pc = place /\ job'[p].draft = job[p].draft
                          /\ job'[p].key = job[p].key /\ job'[p].text = job[p].text
                          /\ job'[p].lost = job[p].lost
    BY <1>1 DEF Goto, Jobs
  <1>4. \/ UnsentJob(p).pc = "record" /\ UnsentJob(p).draft = job[p].draft
        \/ UnsentJob(p).pc = "idle"
    BY DEF UnsentJob, NoJob
  <1>5. Unsent(p) => job'[p] = UnsentJob(p)
    BY <1>1 DEF Unsent
  <1>6. ASSUME ClaimLost(p)
        PROVE  \/ /\ job'[p].pc \in {"follow", "remove"} /\ job'[p].draft = job[p].draft
                  /\ job'[p].key = job[p].key /\ job'[p].text = job[p].text /\ job'[p].lost
                  /\ out[job[p].key].status = "sent"
               \/ job'[p] = UnsentJob(p)
    <2>1. \/ \E next \in {"follow", "remove"} :
                /\ job'[p] = [job[p] EXCEPT !.pc = next, !.lost = TRUE]
                /\ out[job[p].key].status = "sent"
          \/ job'[p] = UnsentJob(p)
      BY <1>1, <1>6 DEF ClaimLost, Expects, Removes
    <2> QED BY <1>1, <2>1 DEF Jobs
  <1> QED BY <1>2, <1>3, <1>4, <1>5, <1>6

LEMMA JobsStep ==
  ASSUME IInvTypes, [Next]_vars, NEW q \in Parties
  PROVE  JobStands(q)'
  <1>0. /\ TypeOK /\ Types /\ JobStands(q) /\ RowsStand /\ NoText \notin Texts /\ NoRow.text = NoText
        /\ \A d \in DraftIds : given[d] \subseteq given'[d]
    BY Typed, Blanks, GivenGrows DEF IInvTypes, NoRow
  <1>1. \A k \in SendKeys : out[k] # NoRow => out'[k].text = out[k].text
    BY RowsStep
  <1>2. CASE job'[q] = job[q]
    BY <1>0, <1>1, <1>2 DEF JobStands, Types
  <1>3. CASE Lands(q)'
    BY <1>3 DEF Lands, JobStands
  <1>4. CASE SendStep(q)
    <2>0. /\ job[q].pc \in {"begin", "insert", "submitting", "follow", "remove"}
          /\ job[q].draft \in DraftIds /\ job[q].key \in given[job[q].draft] /\ job[q].text \in Texts
          /\ job[q].key \in SendKeys /\ UNCHANGED given
      BY <1>0, <1>4 DEF SendStep, Admit, Claim, ClaimLost, Replay, RefuseSend, SmtpEnds, Follow, Remove, JobStands, Types, history
    <2>1. CASE Claim(q)
      <3>1. job'[q].pc = "submitting" /\ job'[q].draft = job[q].draft
            /\ job'[q].key = job[q].key /\ job'[q].text = job[q].text
        BY <1>0, <2>1, Advances DEF Claim
      <3>2. out'[job[q].key].text = job[q].text
        BY <1>0, <2>0, <2>1 DEF Claim, Types
      <3> QED BY <2>0, <3>1, <3>2 DEF JobStands
    <2>2. CASE Admit(q) \/ ClaimLost(q) \/ Replay(q) \/ RefuseSend(q) \/ SmtpEnds(q) \/ Follow(q) \/ Remove(q)
      <3>1. \/ /\ job'[q].pc \in {"insert", "follow", "remove"} /\ job'[q].draft = job[q].draft
               /\ job'[q].key = job[q].key /\ job'[q].text = job[q].text
            \/ job'[q].pc = "record" /\ job'[q].draft = job[q].draft
            \/ job'[q].pc \in {"take", "idle"}
        BY <1>0, <2>2, Advances DEF Admit, Replay, RefuseSend, SmtpEnds, Follow, Remove, Answered
      <3> QED BY <2>0, <3>1 DEF JobStands
    <2> QED BY <1>4, <2>1, <2>2 DEF SendStep
  <1>5. ASSUME NEW p \in Parties, p # q, SendStep(p) PROVE job'[q] = job[q]
    BY <1>0, <1>5, OthersWait
  <1> QED BY <1>2, <1>3, <1>4, <1>5, OtherSteps

LEMMA StepIInvTypes == IInvTypes /\ [Next]_vars => IInvTypes'
  <1> SUFFICES ASSUME IInvTypes, [Next]_vars PROVE IInvTypes'
    OBVIOUS
  <1>1. \A p \in Parties : JobStands(p)'
    BY JobsStep
  <1> QED BY <1>1, StepTypeOK, RowsStep, DraftsStep, KeysStep DEF IInvTypes, GoodDrafts

LEMMA InitIInvTypes == Init => IInvTypes
  <1> SUFFICES ASSUME Init PROVE IInvTypes
    OBVIOUS
  <1>0. /\ Unwritten \in DraftRows /\ NoRow \in OutRows /\ NoJob \in Jobs /\ NoOp \in Ops
        /\ FirstText \in Texts
    BY Blanks
  <1>1. draft \in [DraftIds -> DraftRows]
    <2>1. [Unwritten EXCEPT !.text = FirstText] \in DraftRows
      BY <1>0 DEF DraftRows
    <2> QED BY <1>0, <2>1 DEF Init
  <1>2. job \in [Parties -> Jobs]
    <2>1. [NoJob EXCEPT !.pc = "down"] \in Jobs
      BY <1>0 DEF Jobs, Rounds
    <2> QED BY <1>0, <2>1 DEF Init
  <1>3. Types
    BY <1>0, <1>1, <1>2, DraftsAssumption DEF Init, Types, Instants
  <1>4. RowsStand
    BY DEF Init, RowsStand
  <1>5. KeptHasText
    BY <1>0 DEF Init, KeptHasText, Kept, Unwritten
  <1>6. KeysGiven
    BY DEF Init, KeysGiven, ScheduledIsGiven, Unwritten, NoOp, Scheduling
  <1>7. \A p \in Parties : JobStands(p)
    BY DEF Init, JobStands, NoJob
  <1> QED BY <1>3, <1>4, <1>5, <1>6, <1>7, Typed DEF IInvTypes

\* Every row of a draft, of an outbound message and of a party's work stays of its
\* type, whatever is interrupted where.
THEOREM TypeCorrect == Spec => []TypeOK
  <1>1. IInvTypes => TypeOK
    BY DEF IInvTypes
  <1> QED BY <1>1, InitIInvTypes, StepIInvTypes, PTL DEF Spec

-----------------------------------------------------------------------------
(* One copy for a key. *)

\* Who submits claimed its key alone, and nothing went out under it yet.
ClaimAlone(p) ==
  job[p].pc = "submitting" =>
    /\ \A q \in Parties \ {p} : job[q].pc = "submitting" => job[q].key # job[p].key
    /\ \A a \in accepted : a.key # job[p].key

\* What went out did so with the text its key was claimed for.
RowsOfTaken == \A a \in accepted : out[a.key].text = a.text

\* Nothing was submitted and taken under a key of which nothing went out.
NoneUntaken == \A k \in SendKeys : (\A a \in accepted : a.key # k) => copies[k] = 0

Took(k, text) == \E a \in accepted : a.key = k /\ a.text = text

\* A row that says `sent`, and a send that goes on from there, have their copy.
SentStands == \A k \in SendKeys : out[k].status = "sent" => Took(k, out[k].text)

\* The copy is of the text the send read, unless it lost its insertion.
GoesOnAfter(p) ==
  job[p].pc \in {"follow", "remove"} =>
    /\ Took(job[p].key, out[job[p].key].text)
    /\ out[job[p].key].text = job[p].text \/ job[p].lost

IInv ==
  /\ IInvTypes
  /\ \A p \in Parties : ClaimAlone(p) /\ GoesOnAfter(p)
  /\ RowsOfTaken /\ NoneUntaken /\ SentStands /\ OneCopyPerSchedule

CopyOf(p) == [key |-> job[p].key, text |-> job[p].text, draft |-> job[p].draft, by |-> p]

\* A copy goes out of a submission, which ends with it.
LEMMA TakenIs ==
  ASSUME TypeOK, [Next]_vars
  PROVE  \/ NotTaken
         \/ \E p \in Parties :
              /\ job[p].pc = "submitting" /\ job'[p].pc # "submitting" /\ Taken(p)
              /\ \A q \in Parties : q # p => job'[q] = job[q]
  <1>1. ASSUME NEW p \in Parties, SmtpEnds(p)
        PROVE  /\ job[p].pc = "submitting" /\ job'[p].pc # "submitting"
               /\ NotTaken \/ Taken(p)
               /\ \A q \in Parties : q # p => job'[q] = job[q]
    <2>1. job'[p].pc # "submitting"
      BY <1>1, Advances DEF SmtpEnds, Answered
    <2>2. \A q \in Parties : q # p => job'[q] = job[q]
      BY <1>1, OthersWait DEF SendStep
    <2> QED BY <1>1, <2>1, <2>2 DEF SmtpEnds
  <1>2. ASSUME NEW p \in Parties, Stop(p)
        PROVE  /\ job'[p].pc # "submitting"
               /\ NotTaken \/ (job[p].pc = "submitting" /\ Taken(p))
               /\ \A q \in Parties : q # p => job'[q] = job[q]
    <2>1. job \in [Parties -> Jobs]
      BY Typed DEF Types
    <2> QED BY <1>2, <2>1 DEF Stop, NoJob
  <1> QED BY <1>1, <1>2, TakenSteps DEF NotTaken

\* What went out stays out.
LEMMA TakenStays ==
  ASSUME TypeOK, [Next]_vars
  PROVE  accepted \subseteq accepted'
  BY TakenIs DEF Taken, NotTaken

\* Who submits after a step did before it, or claimed its key by it.
LEMMA Submits ==
  ASSUME IInvTypes, [Next]_vars, NEW q \in Parties, job'[q].pc = "submitting"
  PROVE  job'[q] = job[q] \/ (Claim(q) /\ job'[q].key = job[q].key)
  <1>0. TypeOK
    BY DEF IInvTypes
  <1>1. CASE SendStep(q)
    <2>1. Claim(q)
      BY <1>0, <1>1, Advances DEF SendStep, Admit, Replay, RefuseSend, SmtpEnds, Follow, Remove, Answered
    <2> QED BY <1>0, <2>1, Advances DEF Claim
  <1>2. ASSUME NEW p \in Parties, p # q, SendStep(p) PROVE job'[q] = job[q]
    BY <1>0, <1>2, OthersWait
  <1>3. CASE \A p \in Parties : ~SendStep(p)
    BY <1>3, OtherSteps DEF Lands
  <1> QED BY <1>1, <1>2, <1>3

\* A key is claimed when nobody submits under it and nothing went out under it.
LEMMA ClaimIsFirst ==
  ASSUME IInv, NEW q \in Parties, Claim(q)
  PROVE  /\ \A p \in Parties : job[p].pc = "submitting" => job[p].key # job[q].key
         /\ \A a \in accepted : a.key # job[q].key
  <1>1. /\ out[job[q].key].text = NoText /\ NoText \notin Texts /\ accepted \subseteq Copies
        /\ \A p \in Parties : JobStands(p)
    BY Blanks, Typed DEF Claim, NoRow, IInv, IInvTypes, Types
  <1>2. ASSUME NEW p \in Parties, job[p].pc = "submitting" PROVE job[p].key # job[q].key
    BY <1>1, <1>2 DEF JobStands
  <1>3. ASSUME NEW a \in accepted PROVE a.key # job[q].key
    BY <1>1, <1>3 DEF IInv, RowsOfTaken, Copies
  <1> QED BY <1>2, <1>3

LEMMA ClaimAloneStep ==
  ASSUME IInv, [Next]_vars, NEW q \in Parties
  PROVE  ClaimAlone(q)'
  <1> SUFFICES ASSUME job'[q].pc = "submitting"
               PROVE  /\ \A r \in Parties \ {q} : job'[r].pc = "submitting" => job'[r].key # job'[q].key
                      /\ \A a \in accepted' : a.key # job'[q].key
    BY DEF ClaimAlone
  <1>0. IInvTypes /\ TypeOK /\ \A p \in Parties : ClaimAlone(p)
    BY DEF IInv, IInvTypes
  <1>1. job'[q] = job[q] \/ (Claim(q) /\ job'[q].key = job[q].key)
    BY <1>0, Submits
  <1>2. ASSUME NEW r \in Parties, r # q, job'[r].pc = "submitting" PROVE job'[r].key # job'[q].key
    <2>1. job'[r] = job[r] \/ (Claim(r) /\ job'[r].key = job[r].key)
      BY <1>0, <1>2, Submits
    <2>2. CASE Claim(q)
      <3>1. job'[r] = job[r]
        BY <1>0, <1>2, <2>2, OthersWait DEF SendStep
      <3> QED BY <1>1, <1>2, <2>2, <3>1, ClaimIsFirst
    <2>3. CASE Claim(r)
      <3>1. job'[q] = job[q]
        BY <1>0, <1>2, <2>3, OthersWait DEF SendStep
      <3> QED BY <1>2, <2>1, <2>3, <3>1, ClaimIsFirst
    <2>4. CASE job'[q] = job[q] /\ job'[r] = job[r]
      BY <1>0, <1>2, <2>4 DEF ClaimAlone
    <2> QED BY <1>1, <2>1, <2>2, <2>3, <2>4
  <1>3. ASSUME NEW a \in accepted' PROVE a.key # job'[q].key
    <2>1. CASE a \in accepted
      BY <1>0, <1>1, <2>1, ClaimIsFirst DEF ClaimAlone
    <2>2. CASE a \notin accepted
      <3>1. PICK p \in Parties : /\ job[p].pc = "submitting" /\ job'[p].pc # "submitting" /\ a = CopyOf(p)
                                 /\ \A r \in Parties : r # p => job'[r] = job[r]
        BY <1>0, <1>3, <2>2, TakenIs DEF Taken, NotTaken, CopyOf
      <3>2. p # q /\ job'[q] = job[q] /\ a.key = job[p].key
        BY <3>1 DEF CopyOf
      <3> QED BY <1>0, <3>1, <3>2 DEF ClaimAlone
    <2> QED BY <2>1, <2>2
  <1> QED BY <1>2, <1>3

LEMMA TakenStep ==
  ASSUME IInv, [Next]_vars
  PROVE  RowsOfTaken' /\ NoneUntaken' /\ OneCopyPerSchedule'
  <1>0. /\ IInvTypes /\ TypeOK /\ Types /\ NoText \notin Texts /\ NoRow.text = NoText
        /\ \A p \in Parties : ClaimAlone(p) /\ JobStands(p)
        /\ \A a \in accepted : /\ a \in Copies /\ out[a.key].text = a.text
                               /\ a.key \in given[a.draft] /\ copies[a.key] = 1
        /\ \A d \in DraftIds : given[d] \subseteq given'[d]
    BY Typed, Blanks, GivenGrows DEF IInv, IInvTypes, RowsOfTaken, OneCopyPerSchedule, NoRow, Types
  <1>1. \A k \in SendKeys : out[k].text \in Texts => out'[k].text = out[k].text
    BY <1>0, RowsStep
  <1>2. ASSUME NEW a \in accepted PROVE out'[a.key].text = a.text /\ a.key \in given'[a.draft]
    <2>1. a.key \in SendKeys /\ a.text \in Texts /\ a.draft \in DraftIds
      BY <1>0 DEF Copies
    <2> QED BY <1>0, <1>1, <2>1
  <1>3. CASE NotTaken
    BY <1>0, <1>2, <1>3 DEF RowsOfTaken, NoneUntaken, OneCopyPerSchedule, NotTaken, IInv
  <1>4. ASSUME NEW p \in Parties, job[p].pc = "submitting", Taken(p)
        PROVE  RowsOfTaken' /\ NoneUntaken' /\ OneCopyPerSchedule'
    <2>0. /\ accepted' = accepted \cup {CopyOf(p)}
          /\ copies' = [copies EXCEPT ![job[p].key] = copies[job[p].key] + 1]
      BY <1>4 DEF Taken, CopyOf
    <2>1. /\ job[p].draft \in DraftIds /\ job[p].key \in given[job[p].draft] /\ job[p].text \in Texts
          /\ out[job[p].key].text = job[p].text /\ job[p].key \in SendKeys
      BY <1>0, <1>4 DEF JobStands, Types
    <2>2. /\ CopyOf(p).key = job[p].key /\ CopyOf(p).text = job[p].text /\ CopyOf(p).draft = job[p].draft
      BY DEF CopyOf
    <2>3. out'[CopyOf(p).key].text = CopyOf(p).text /\ CopyOf(p).key \in given'[CopyOf(p).draft]
      BY <1>0, <1>1, <2>1, <2>2
    <2>4. \A a \in accepted : a.key # CopyOf(p).key
      BY <1>0, <1>4, <2>2 DEF ClaimAlone
    <2>5. RowsOfTaken'
      BY <1>2, <2>0, <2>3 DEF RowsOfTaken
    <2>6. copies'[job[p].key] = 1 /\ \A k \in SendKeys : k # job[p].key => copies'[k] = copies[k]
      <3>1. copies \in [SendKeys -> Nat] /\ copies[job[p].key] = 0
        BY <1>0, <2>1, <2>2, <2>4 DEF IInv, NoneUntaken, Types
      <3> QED BY <2>0, <2>1, <3>1
    <2>7. OneCopyPerSchedule'
      <3>1. \A a \in accepted : copies'[a.key] = 1
        BY <1>0, <2>2, <2>4, <2>6 DEF Copies
      <3> QED BY <1>2, <2>0, <2>2, <2>3, <2>6, <3>1 DEF OneCopyPerSchedule
    <2>8. NoneUntaken'
      BY <2>0, <2>2, <2>6 DEF IInv, NoneUntaken
    <2> QED BY <2>5, <2>7, <2>8
  <1> QED BY <1>0, <1>3, <1>4, TakenIs

LEMMA SentStep ==
  ASSUME IInv, [Next]_vars
  PROVE  SentStands'
  <1>0. /\ IInvTypes /\ TypeOK /\ Types /\ SentStands /\ \A p \in Parties : JobStands(p)
    BY Typed DEF IInv, IInvTypes
  <1>1. accepted \subseteq accepted'
    BY <1>0, TakenStays
  <1>2. CASE UNCHANGED out
    BY <1>0, <1>1, <1>2 DEF SentStands, Took
  <1>3. ASSUME NEW p \in Parties, Claim(p) PROVE SentStands'
    BY <1>0, <1>1, <1>3 DEF Claim, SentStands, Took, Types
  <1>4. ASSUME NEW s \in Services, Start(s) PROVE SentStands'
    BY <1>0, <1>1, <1>4 DEF Start, Interrupted, SentStands, Took, Types, OutRows
  <1>5. ASSUME NEW p \in Parties, SmtpEnds(p) PROVE SentStands'
    <2>1. job[p].key \in SendKeys /\ out[job[p].key].text = job[p].text
      BY <1>0, <1>5 DEF SmtpEnds, JobStands, Types
    <2>2. PICK status \in {"sent", "failed", "uncertain"}, took \in BOOLEAN :
            /\ status = "sent" => took
            /\ took => accepted' = accepted \cup {CopyOf(p)}
            /\ out' = [out EXCEPT ![job[p].key].status = status] \/ UNCHANGED out
      BY <1>5 DEF SmtpEnds, Taken, CopyOf
    <2>3. CASE out' = [out EXCEPT ![job[p].key].status = status]
      <3>1. \A k \in SendKeys : out'[k].text = out[k].text /\ (k # job[p].key => out'[k] = out[k])
        BY <1>0, <2>3 DEF Types, OutRows
      <3>2. out'[job[p].key].status = status
        BY <1>0, <2>1, <2>3 DEF Types, OutRows
      <3>3. CopyOf(p).key = job[p].key /\ CopyOf(p).text = job[p].text
        BY DEF CopyOf
      <3>4. status = "sent" => CopyOf(p) \in accepted'
        BY <2>2
      <3> QED BY <1>0, <1>1, <2>1, <3>1, <3>2, <3>3, <3>4 DEF SentStands, Took
    <2> QED BY <1>2, <2>2, <2>3
  <1> QED BY <1>2, <1>3, <1>4, <1>5, RowSteps

LEMMA GoesOnStep ==
  ASSUME IInv, [Next]_vars, NEW q \in Parties
  PROVE  GoesOnAfter(q)'
  <1>0. /\ IInvTypes /\ TypeOK /\ Types /\ SentStands /\ JobStands(q) /\ GoesOnAfter(q)
        /\ NoText \notin Texts /\ NoRow.text = NoText
    BY Typed, Blanks DEF IInv, IInvTypes, NoRow
  <1>1. accepted \subseteq accepted'
    BY <1>0, TakenStays
  <1>a. \A k \in SendKeys : out[k] # NoRow => out'[k].text = out[k].text
    BY <1>0, RowsStep
  <1>b. job[q].key \in SendKeys /\ out[job[q].key].status = "sent" =>
          /\ \E a \in accepted' : a.key = job[q].key /\ a.text = out'[job[q].key].text
          /\ out'[job[q].key].text = out[job[q].key].text
    <2>1. NoRow.status = "none"
      BY DEF NoRow
    <2> QED BY <1>0, <1>1, <1>a, <2>1 DEF SentStands, Took
  <1>c. job[q].pc \in {"follow", "remove"} =>
          /\ \E a \in accepted' : a.key = job[q].key /\ a.text = out'[job[q].key].text
          /\ out'[job[q].key].text = job[q].text \/ job[q].lost
    <2> SUFFICES ASSUME job[q].pc \in {"follow", "remove"}
                 PROVE  /\ \E a \in accepted' : a.key = job[q].key /\ a.text = out'[job[q].key].text
                        /\ out'[job[q].key].text = job[q].text \/ job[q].lost
      OBVIOUS
    <2>1. PICK a \in accepted : a.key = job[q].key /\ a.text = out[job[q].key].text
      BY <1>0 DEF GoesOnAfter, Took
    <2>2. a \in Copies
      BY <1>0, <2>1 DEF Types
    <2>3. job[q].key \in SendKeys /\ out[job[q].key].text \in Texts
      BY <2>1, <2>2 DEF Copies
    <2>4. out'[job[q].key].text = out[job[q].key].text
      BY <1>0, <1>a, <2>3
    <2> QED BY <1>0, <1>1, <2>1, <2>4 DEF GoesOnAfter, Took
  <1>2. CASE job'[q] = job[q]
    BY <1>c, <1>2 DEF GoesOnAfter, Took
  <1>3. CASE job'[q].pc \notin {"follow", "remove"}
    BY <1>3 DEF GoesOnAfter
  <1>4. CASE Follow(q)
    <2>1. CASE Goto(q, "remove")
      <3>1. job'[q].key = job[q].key /\ job'[q].text = job[q].text /\ job'[q].lost = job[q].lost
        BY <1>0, <2>1, Advances
      <3> QED BY <1>c, <1>4, <3>1 DEF Follow, GoesOnAfter, Took
    <2>2. CASE Unsent(q)
      BY <1>0, <1>3, <2>2, Advances
    <2> QED BY <1>4, <2>1, <2>2 DEF Follow
  <1>5. ASSUME job[q].pc \in {"begin", "submitting"}, NEW status, Answered(q, status),
               status = "sent" =>
                 /\ \E a \in accepted' : a.key = job[q].key /\ a.text = out'[job[q].key].text
                 /\ out'[job[q].key].text = job[q].text
        PROVE  GoesOnAfter(q)'
    <2>1. CASE status = "sent"
      <3>1. job'[q].key = job[q].key /\ job'[q].text = job[q].text
        BY <1>0, <1>5, <2>1, Advances DEF Answered, Removes
      <3> QED BY <1>5, <2>1, <3>1 DEF GoesOnAfter, Took
    <2>2. CASE status # "sent"
      BY <1>0, <1>3, <1>5, <2>2, Advances DEF Answered, Expects, Removes
    <2> QED BY <2>1, <2>2
  <1>6. CASE Replay(q)
    <2>1. /\ job[q].key \in SendKeys /\ out[job[q].key].text = job[q].text
          /\ Answered(q, out[job[q].key].status) /\ job[q].pc = "begin"
      BY <1>0, <1>6 DEF Replay, JobStands, Types
    <2> QED BY <1>b, <1>5, <2>1
  <1>7. CASE SmtpEnds(q)
    <2>1. PICK status \in {"sent", "failed", "uncertain"}, took \in BOOLEAN :
            /\ status = "sent" => took
            /\ took => accepted' = accepted \cup {CopyOf(q)}
            /\ Answered(q, status) \/ Unsent(q)
      BY <1>7 DEF SmtpEnds, Taken, CopyOf
    <2>2. CASE Unsent(q)
      BY <1>0, <1>3, <2>2, Advances
    <2>3. CASE Answered(q, status)
      <3>1. CopyOf(q).key = job[q].key /\ CopyOf(q).text = job[q].text
        BY DEF CopyOf
      <3>2. out'[job[q].key].text = job[q].text
        <4>1. /\ job[q].key \in SendKeys /\ out[job[q].key].text = job[q].text
              /\ job[q].text \in Texts
          BY <1>0, <1>7 DEF SmtpEnds, JobStands, Types
        <4> QED BY <1>0, <1>a, <4>1
      <3>3. status = "sent" => \E a \in accepted' : a.key = job[q].key /\ a.text = out'[job[q].key].text
        BY <2>1, <3>1, <3>2 DEF Took
      <3> QED BY <1>5, <1>7, <2>3, <3>2, <3>3 DEF SmtpEnds
    <2> QED BY <2>1, <2>2, <2>3
  <1>8. CASE Admit(q) \/ Claim(q) \/ RefuseSend(q) \/ Remove(q)
    BY <1>0, <1>3, <1>8, Advances DEF Admit, Claim, RefuseSend, Remove
  <1>11. CASE ClaimLost(q)
    <2>1. job[q].key \in SendKeys
      BY <1>0, <1>11 DEF ClaimLost, JobStands, Types
    <2>2. CASE /\ job'[q].pc \in {"follow", "remove"}
               /\ job'[q].key = job[q].key /\ job'[q].lost
               /\ out[job[q].key].status = "sent"
      BY <1>b, <2>1, <2>2 DEF GoesOnAfter, Took
    <2> QED BY <1>0, <1>3, <1>11, <2>2, Advances
  <1>9. ASSUME NEW p \in Parties, p # q, SendStep(p) PROVE job'[q] = job[q]
    BY <1>0, <1>9, OthersWait
  <1>10. CASE \A p \in Parties : ~SendStep(p)
    BY <1>0, <1>2, <1>3, <1>10, OtherSteps DEF Lands
  <1> QED BY <1>2, <1>4, <1>6, <1>7, <1>8, <1>9, <1>10, <1>11 DEF SendStep

LEMMA InitIInv == Init => IInv
  <1> SUFFICES ASSUME Init PROVE IInv
    OBVIOUS
  <1>1. \A p \in Parties : job[p].pc \in {"idle", "down"}
    BY DEF Init, NoJob
  <1>2. \A k \in SendKeys : out[k].status = "none"
    BY DEF Init, NoRow
  <1>3. accepted = {} /\ \A k \in SendKeys : copies[k] = 0
    BY DEF Init
  <1> QED BY <1>1, <1>2, <1>3, InitIInvTypes
          DEF IInv, ClaimAlone, GoesOnAfter, RowsOfTaken, NoneUntaken, SentStands, OneCopyPerSchedule

LEMMA StepIInv == IInv /\ [Next]_vars => IInv'
  <1> SUFFICES ASSUME IInv, [Next]_vars PROVE IInv'
    OBVIOUS
  <1>1. IInvTypes'
    BY StepIInvTypes DEF IInv
  <1>2. \A p \in Parties : ClaimAlone(p)' /\ GoesOnAfter(p)'
    BY ClaimAloneStep, GoesOnStep
  <1>3. (\A p \in Parties : ClaimAlone(p) /\ GoesOnAfter(p))'
    BY <1>2
  <1> QED BY <1>1, <1>3, TakenStep, SentStep DEF IInv

LEMMA Inductive == Spec => []IInv
  BY InitIInv, StepIInv, PTL DEF Spec

\* However many services send a due draft, stop in the middle of it, start and
\* find it due again, the provider takes one submission under a key, counted one
\* by one whoever made it, and only under a key the draft was given.
THEOREM OneCopy == Spec => []OneCopyPerSchedule
  <1>1. IInv => OneCopyPerSchedule
    BY DEF IInv
  <1> QED BY <1>1, Inductive, PTL

-----------------------------------------------------------------------------
(* Only what was sent leads on. *)

\* The steps that write to the drafts, and the steps that write who is followed.
LEMMA DraftMoves ==
  ASSUME IInvTypes, [Next]_vars
  PROVE  \/ UNCHANGED <<life, draft>>
         \/ \E d \in DraftIds, text \in Texts : Keep(d, text)
         \/ \E d \in DraftIds, text \in Texts : draft' = [draft EXCEPT ![d].text = text] /\ UNCHANGED life
         \/ \E o \in Operators : ScheduleOne(o) \/ Away(o)
         \/ \E s \in Services : RecordFailure(s)
         \/ \E p \in Parties :
              /\ job[p].pc = "remove" /\ SendStep(p)
              /\ job[p].draft \in Kept /\ Drop(job[p].draft, "sent")
  <1>0. TypeOK /\ RowsStand /\ KeptHasText /\ FirstText \in Texts
    BY Blanks DEF IInvTypes
  <1>1. ASSUME NEW p \in Parties, SendStep(p)
        PROVE  \/ UNCHANGED <<life, draft>>
               \/ job[p].pc = "remove" /\ job[p].draft \in Kept /\ Drop(job[p].draft, "sent")
    BY <1>1 DEF SendStep, Admit, Claim, ClaimLost, Replay, RefuseSend, SmtpEnds, Follow, Remove
  <1>2. ASSUME NEW s \in Services, (ServiceStep(s) /\ ~SendStep(s)) \/ Start(s) \/ SubscriptionEnds(s)
        PROVE  UNCHANGED <<life, draft>> \/ RecordFailure(s)
    BY <1>2 DEF ServiceStep, ListDue, Take, NextDue, Start, SubscriptionEnds
  <1>3. ASSUME NEW o \in Operators, OperatorStep(o), ~SendStep(o)
        PROVE  \/ UNCHANGED <<life, draft>>
               \/ \E d \in DraftIds, text \in Texts : Keep(d, text)
               \/ \E d \in DraftIds, text \in Texts :
                    draft' = [draft EXCEPT ![d].text = text] /\ UNCHANGED life
               \/ ScheduleOne(o) \/ Away(o)
    <2>1. ASSUME NEW d \in DraftIds, NEW k \in SendKeys, FromOutbound(o, d, k)
          PROVE  \E text \in Texts : Keep(d, text)
      BY <1>0, <2>1 DEF FromOutbound, Create, RowsStand
    <2>2. ASSUME NEW d \in DraftIds, NEW e \in DraftIds, Copy(o, d, e)
          PROVE  \E text \in Texts : Keep(d, text)
      BY <1>0, <2>2 DEF Copy, Create, KeptHasText
    <2>3. CASE MergeOne(o)
      BY <1>0, <2>3, OpRow DEF MergeOne
    <2>4. ASSUME NEW d \in DraftIds, NEW text \in Texts, Create(o, d, text) PROVE Keep(d, text)
      BY <2>4 DEF Create
    <2>5. ASSUME NEW d \in DraftIds, NEW text \in Texts, Update(o, d, text)
          PROVE  draft' = [draft EXCEPT ![d].text = text] /\ UNCHANGED life
      BY <2>5 DEF Update
    <2>6. ASSUME NEW d \in DraftIds, NEW text \in Texts, NEW at \in Instants, NEW key \in Keys,
                 AskNew(o, d, text, at, key)
          PROVE  Keep(d, text)
      BY <2>6 DEF AskNew
    <2>7. CASE UNCHANGED <<life, draft>>
      BY <2>7
    <2> QED
      BY <1>3, <2>1, <2>2, <2>3, <2>4, <2>5, <2>6, <2>7 DEF OperatorStep, AskMerge, AskNudge,
         AskSendAll, SendNext, AskSchedule, ScheduleRefused, AskAway, OperationFails, AskSend,
         SetFollowUp, ClearFollowUp
  <1>4. CASE Tick \/ UNCHANGED vars \/ \E p \in Parties : Stop(p)
    BY <1>4 DEF Tick, vars, Stop
  <1> QED BY <1>1, <1>2, <1>3, <1>4 DEF Next, Parties

LEMMA FollowMoves ==
  ASSUME [Next]_vars
  PROVE  \/ followed' \subseteq followed
         \/ \E p \in Parties : job[p].pc = "follow" /\ followed' = followed \cup {job[p].key}
         \/ \E k \in SendKeys : out[k].status = "sent" /\ followed' = followed \cup {k}
  <1>1. ASSUME NEW p \in Parties, SendStep(p)
        PROVE  \/ UNCHANGED followed
               \/ job[p].pc = "follow" /\ followed' = followed \cup {job[p].key}
    BY <1>1 DEF SendStep, Admit, Claim, ClaimLost, Replay, RefuseSend, SmtpEnds, Follow, Remove
  <1>2. ASSUME NEW s \in Services, (ServiceStep(s) /\ ~SendStep(s)) \/ Start(s) \/ SubscriptionEnds(s)
        PROVE  UNCHANGED followed
    BY <1>2 DEF ServiceStep, ListDue, Take, RecordFailure, NextDue, Start, SubscriptionEnds
  <1>3. ASSUME NEW o \in Operators, OperatorStep(o), ~SendStep(o)
        PROVE  \/ followed' \subseteq followed
               \/ \E k \in SendKeys : out[k].status = "sent" /\ followed' = followed \cup {k}
    BY <1>3 DEF OperatorStep, Create, Update, FromOutbound, Copy, AskMerge, AskNudge, AskSendAll,
       MergeOne, SendNext, AskNew, AskSchedule, ScheduleOne, ScheduleRefused, AskAway, Away,
       OperationFails, AskSend, SetFollowUp, ClearFollowUp
  <1>4. CASE Tick \/ UNCHANGED vars \/ \E p \in Parties : Stop(p)
    BY <1>4 DEF Tick, vars, Stop
  <1> QED BY <1>1, <1>2, <1>3, <1>4 DEF Next, Parties

\* A draft is taken away as sent by the send that does so, and one taken away
\* never comes back.
LEMMA SentBy ==
  ASSUME IInvTypes, [Next]_vars, NEW d \in DraftIds
  PROVE  /\ life[d] = "kept" /\ life'[d] = "sent" =>
              \E p \in Parties : job[p].pc = "remove" /\ SendStep(p)
         /\ life[d] \in {"sent", "deleted"} => life'[d] = life[d]
  <1>0. TypeOK /\ life \in [DraftIds -> {"unwritten", "kept", "sent", "deleted"}]
        /\ \A p \in Parties : JobStands(p)
    BY Typed DEF IInvTypes, Types
  <1> DEFINE Goal == /\ life[d] = "kept" /\ life'[d] = "sent" =>
                          \E p \in Parties : job[p].pc = "remove" /\ SendStep(p)
                     /\ life[d] \in {"sent", "deleted"} => life'[d] = life[d]
  <1>1. CASE UNCHANGED life
    BY <1>1
  <1>2. ASSUME NEW e \in DraftIds, NEW text \in Texts, Keep(e, text) PROVE Goal
    BY <1>0, <1>2 DEF Keep
  <1>3. ASSUME NEW o \in Operators, ScheduleOne(o) PROVE Goal
    BY <1>3 DEF ScheduleOne
  <1>4. ASSUME NEW o \in Operators, Away(o) PROVE Goal
    <2>1. CASE \E e \in Kept : Drop(e, "deleted")
      BY <1>0, <2>1 DEF Drop, Kept
    <2> QED BY <1>1, <1>4, <2>1, AwayDoes
  <1>5. ASSUME NEW s \in Services, RecordFailure(s) PROVE Goal
    BY <1>5 DEF RecordFailure
  <1>6. ASSUME NEW p \in Parties, job[p].pc = "remove", SendStep(p),
               job[p].draft \in Kept, Drop(job[p].draft, "sent")
        PROVE  Goal
    BY <1>0, <1>6 DEF Drop, Kept
  <1> QED BY <1>1, <1>2, <1>3, <1>4, <1>5, <1>6, DraftMoves

\* A draft is removed by its send only after the provider took the message of the
\* row the send was answered with, which has the text the send read unless the
\* send lost its insertion; and an answer is expected only of what was taken.
THEOREM SentLeadsOnStands == Spec => SentLeadsOn
  <1> DEFINE LeadsOn ==
        /\ \A d \in DraftIds, p \in Parties :
             life[d] = "kept" /\ life'[d] = "sent" /\ job[p] # job'[p] =>
               \E a \in accepted : /\ a.key = job[p].key /\ a.text = out[a.key].text
                                   /\ a.text = job[p].text \/ job[p].lost
        /\ \A k \in followed' \ followed : \E a \in accepted : a.key = k
  <1>1. IInv /\ [Next]_vars => [LeadsOn]_vars
    <2> SUFFICES ASSUME IInv, [Next]_vars PROVE LeadsOn
      OBVIOUS
    <2>0. IInvTypes /\ TypeOK /\ SentStands /\ \A p \in Parties : GoesOnAfter(p)
      BY DEF IInv, IInvTypes
    <2>1. ASSUME NEW d \in DraftIds, NEW p \in Parties,
                 life[d] = "kept", life'[d] = "sent", job[p] # job'[p]
          PROVE  \E a \in accepted : /\ a.key = job[p].key /\ a.text = out[a.key].text
                                     /\ a.text = job[p].text \/ job[p].lost
      <3>1. PICK q \in Parties : job[q].pc = "remove" /\ SendStep(q)
        BY <2>0, <2>1, SentBy
      <3>2. q = p
        BY <2>0, <2>1, <3>1, OthersWait
      <3> QED BY <2>0, <3>1, <3>2 DEF GoesOnAfter, Took
    <2>2. ASSUME NEW k \in followed', k \notin followed PROVE \E a \in accepted : a.key = k
      <3>1. CASE \E p \in Parties : job[p].pc = "follow" /\ followed' = followed \cup {job[p].key}
        BY <2>0, <2>2, <3>1 DEF GoesOnAfter, Took
      <3>2. CASE \E j \in SendKeys : out[j].status = "sent" /\ followed' = followed \cup {j}
        BY <2>0, <2>2, <3>2 DEF SentStands, Took
      <3> QED BY <2>2, <3>1, <3>2, FollowMoves
    <2> QED BY <2>1, <2>2
  <1> QED BY <1>1, Inductive, PTL DEF Spec, SentLeadsOn

-----------------------------------------------------------------------------
(* What a refused schedule leaves behind. *)

OneOperator == \A o1, o2 \in Operators : o1 = o2

\* Of a refused operation, what is no longer to be undone is undone: a draft is
\* gone, or off its schedule unless another operator puts it back.
OpStands(o) ==
  /\ op[o].kind = "none" => op[o].todo = {}
  /\ op[o].kind = "new" => op[o].done = {} /\ \E d \in DraftIds : op[o].todo = {d}
  /\ op[o].kind \in Scheduling => op[o].end = "none"
  /\ op[o].end = "undone" =>
       /\ op[o].kind \in {"none", "undo"}
       /\ OneOperator => \A d \in op[o].done \ op[o].todo : draft[d].at = NoTime
  /\ op[o].end = "removed" =>
       /\ op[o].kind \in {"none", "delete"}
       /\ \A d \in op[o].done \ op[o].todo : life[d] \in {"sent", "deleted"}

\* Only an operation that schedules a draft puts one on its schedule.
LEMMA OffSchedule ==
  ASSUME IInvTypes, [Next]_vars, \A o \in Operators : ~ScheduleOne(o),
         NEW d \in DraftIds, draft[d].at = NoTime
  PROVE  draft'[d].at = NoTime
  <1>0. TypeOK /\ draft \in [DraftIds -> DraftRows] /\ Kept \subseteq DraftIds
    BY Typed DEF IInvTypes, Types, Kept
  <1>1. CASE UNCHANGED draft
    BY <1>1
  <1>2. ASSUME NEW e \in DraftIds, NEW text \in Texts,
               Keep(e, text) \/ draft' = [draft EXCEPT ![e].text = text]
        PROVE  draft'[d].at = NoTime
    BY <1>0, <1>2 DEF Keep, DraftRows
  <1>3. ASSUME NEW e \in DraftIds, NEW how, Drop(e, how) PROVE draft'[d].at = NoTime
    BY <1>0, <1>3 DEF Drop, Unwritten
  <1>4. ASSUME NEW e \in DraftIds, SetSchedule(e, NoTime, NoKey) PROVE draft'[d].at = NoTime
    BY <1>0, <1>4 DEF SetSchedule, DraftRows
  <1>5. ASSUME NEW o \in Operators, Away(o) PROVE draft'[d].at = NoTime
    BY <1>0, <1>1, <1>3, <1>4, <1>5, AwayDoes
  <1>6. ASSUME NEW s \in Services, RecordFailure(s) PROVE draft'[d].at = NoTime
    <2>1. CASE draft' = [draft EXCEPT ![job[s].draft].at = NoTime, ![job[s].draft].failed = TRUE]
      BY <1>0, <2>1 DEF DraftRows
    <2> QED BY <1>1, <1>6, <2>1 DEF RecordFailure
  <1>7. ASSUME NEW p \in Parties, job[p].draft \in Kept, Drop(job[p].draft, "sent")
        PROVE  draft'[d].at = NoTime
    BY <1>0, <1>3, <1>7
  <1> QED BY <1>1, <1>2, <1>5, <1>6, <1>7, DraftMoves

LEMMA OpStandsStep ==
  ASSUME IInvTypes, [Next]_vars, NEW o \in Operators, OpStands(o)
  PROVE  OpStands(o)'
  <1>0. /\ TypeOK /\ op \in [Operators -> Ops] /\ draft \in [DraftIds -> DraftRows]
        /\ life \in [DraftIds -> {"unwritten", "kept", "sent", "deleted"}]
        /\ op[o].todo \subseteq DraftIds /\ op[o].done \subseteq DraftIds
        /\ Kept \subseteq DraftIds
    BY Typed, OpRow DEF IInvTypes, Types, Kept
  <1>1. \A d \in DraftIds : life[d] \in {"sent", "deleted"} => life'[d] \in {"sent", "deleted"}
    BY SentBy
  <1>2. CASE ScheduleOne(o)
    <2>1. op[o].kind \in Scheduling
      BY <1>2 DEF ScheduleOne
    <2>2. PICK d \in op[o].todo \cap Kept :
            \/ op'[o] = [NoOp EXCEPT !.end = "done"]
            \/ /\ op'[o].kind = op[o].kind /\ op'[o].end = op[o].end
               /\ op'[o].todo = op[o].todo \ {d} /\ op'[o].done = op[o].done \cup {d}
               /\ op[o].todo # {d}
      BY <1>0, <1>2, ScheduleOneDoes
    <2>3. CASE op'[o] = [NoOp EXCEPT !.end = "done"]
      <3>1. op'[o].kind = "none" /\ op'[o].end = "done" /\ op'[o].todo = {}
        BY <2>3 DEF NoOp
      <3> QED BY <3>1 DEF OpStands, Scheduling
    <2>4. CASE /\ op'[o].kind = op[o].kind /\ op'[o].end = op[o].end /\ op[o].todo # {d}
      <3>1. op'[o].kind \in Scheduling /\ op'[o].kind # "new" /\ op'[o].end = "none"
        BY <2>1, <2>2, <2>4 DEF OpStands
      <3> QED BY <3>1 DEF OpStands, Scheduling
    <2> QED BY <2>2, <2>3, <2>4
  <1>3. ASSUME ~ScheduleOne(o) PROVE OpStands(o)'
    <2>1. OneOperator => \A d \in DraftIds : draft[d].at = NoTime => draft'[d].at = NoTime
      <3>1. OneOperator => \A e \in Operators : ~ScheduleOne(e)
        BY <1>3, Zenon DEF OneOperator
      <3> QED BY <3>1, OffSchedule
    <2>2. CASE op'[o] = op[o]
      BY <1>0, <1>1, <2>1, <2>2 DEF OpStands
    <2>3. ASSUME NEW e \in Operators, op' = [op EXCEPT ![e] = [NoOp EXCEPT !.end = "error"]]
          PROVE  OpStands(o)'
      <3>1. op'[o] = op[o] \/ op'[o] = [NoOp EXCEPT !.end = "error"]
        BY <1>0, <2>3
      <3>2. CASE op'[o] = [NoOp EXCEPT !.end = "error"]
        <4>1. op'[o].kind = "none" /\ op'[o].end = "error" /\ op'[o].todo = {}
          BY <3>2 DEF NoOp
        <4> QED BY <4>1 DEF OpStands, Scheduling
      <3> QED BY <2>2, <3>1, <3>2
    <2>4. CASE Asked(op'[o]) /\ (op'[o].kind = "none" => op'[o].todo = {})
      BY <2>4 DEF Asked, OpStands, Scheduling
    <2>5. CASE ScheduleRefused(o)
      <3>1. op[o].kind \in Scheduling
        BY <2>5 DEF ScheduleRefused
      <3>2. CASE op'[o].kind = "none" /\ op'[o].end = "refused" /\ op'[o].todo = {}
        BY <3>2 DEF OpStands, Scheduling
      <3>3. CASE /\ op[o].kind = "new" /\ op'[o].kind = "delete" /\ op'[o].end = "removed"
                 /\ op'[o].todo = op[o].todo /\ op'[o].done = op[o].done \cup op[o].todo
        <4>1. op'[o].done \ op'[o].todo = {}
          BY <3>3 DEF OpStands
        <4> QED BY <3>3, <4>1 DEF OpStands, Scheduling
      <3>4. CASE /\ op[o].kind # "new" /\ op'[o].kind = "undo" /\ op'[o].end = "undone"
                 /\ op'[o].todo = op[o].done /\ op'[o].done = op[o].done
        BY <3>4 DEF OpStands, Scheduling
      <3> QED BY <1>0, <2>5, <3>2, <3>3, <3>4, RefusedDoes
    <2>6. CASE Away(o)
      <3>1. op[o].kind \in {"unschedule", "delete", "undo"}
        BY <2>6 DEF Away
      <3>2. ASSUME NEW d \in op[o].todo \cap Kept, op' = [op EXCEPT ![o].todo = op[o].todo \ {d}],
                   \/ op[o].kind = "delete" /\ Drop(d, "deleted")
                   \/ op[o].kind # "delete" /\ SetSchedule(d, NoTime, NoKey) /\ UNCHANGED life
            PROVE  OpStands(o)'
        <4>1. /\ op'[o].kind = op[o].kind /\ op'[o].end = op[o].end
              /\ op'[o].todo = op[o].todo \ {d} /\ op'[o].done = op[o].done
          BY <1>0, <3>2, GoesOn
        <4>2. op[o].kind = "delete" => life'[d] = "deleted"
          BY <1>0, <3>2 DEF Drop
        <4>3. op[o].kind = "undo" => draft'[d].at = NoTime
          BY <1>0, <3>2 DEF SetSchedule, DraftRows
        <4>4. op[o].end = "undone" /\ OneOperator => \A e \in op'[o].done \ op'[o].todo : draft'[e].at = NoTime
          BY <1>0, <2>1, <3>1, <4>1, <4>3 DEF OpStands
        <4>5. op[o].end = "removed" => \A e \in op'[o].done \ op'[o].todo : life'[e] \in {"sent", "deleted"}
          BY <1>0, <1>1, <3>1, <4>1, <4>2 DEF OpStands
        <4> QED BY <3>1, <4>1, <4>4, <4>5 DEF OpStands, Scheduling
      <3>3. CASE op[o].todo = {} /\ End(o, op[o].end)
        <4>1. /\ op'[o].kind = "none" /\ op'[o].end = op[o].end
              /\ op'[o].todo = {} /\ op'[o].done = op[o].done
          BY <1>0, <3>3, GoesOn
        <4> QED BY <1>0, <1>1, <2>1, <3>3, <4>1 DEF OpStands, Scheduling
      <3>4. CASE End(o, "error")
        <4>1. op'[o].kind = "none" /\ op'[o].end = "error" /\ op'[o].todo = {}
          BY <1>0, <3>4, GoesOn
        <4> QED BY <4>1 DEF OpStands, Scheduling
      <3> QED BY <2>6, <3>2, <3>3, <3>4, AwayDoes
    <2>7. ASSUME op[o].kind \in {"merge", "send"},
                 NEW d, op' = [op EXCEPT ![o].todo = op[o].todo \ {d}]
          PROVE  OpStands(o)'
      <3>1. op'[o].kind = op[o].kind /\ op'[o].end = op[o].end
        BY <1>0, <2>7, GoesOn
      <3> QED BY <2>7, <3>1 DEF OpStands, Scheduling
    <2>8. CASE MergeOne(o)
      <3>1. CASE op' = [op EXCEPT ![o] = [NoOp EXCEPT !.end = "done"]]
        <4>1. op'[o] = [NoOp EXCEPT !.end = "done"]
          BY <1>0, <3>1
        <4>2. op'[o].kind = "none" /\ op'[o].end = "done" /\ op'[o].todo = {}
          BY <4>1 DEF NoOp
        <4> QED BY <4>2 DEF OpStands, Scheduling
      <3> QED BY <2>7, <2>8, <3>1 DEF MergeOne
    <2>9. CASE SendNext(o)
      <3>1. CASE End(o, "done")
        <4>1. op'[o].kind = "none" /\ op'[o].end = "done" /\ op'[o].todo = {}
          BY <1>0, <3>1, GoesOn
        <4> QED BY <4>1 DEF OpStands, Scheduling
      <3> QED BY <2>7, <2>9, <3>1 DEF SendNext
    <2>10. ASSUME NEW e \in Operators, OperatorStep(e), ~SendStep(e) PROVE OpStands(o)'
      <3>1. CASE e = o
        BY <1>0, <1>3, <2>2, <2>4, <2>5, <2>6, <2>8, <2>9, <2>10, <3>1, OperationsMove
      <3>2. CASE e # o
        BY <1>0, <2>2, <2>10, <3>2, OperationsMove
      <3> QED BY <3>1, <3>2
    <2> QED BY <1>0, <2>2, <2>3, <2>10, OperationsKept
  <1> QED BY <1>2, <1>3

Stand == IInvTypes /\ \A o \in Operators : OpStands(o)

LEMMA StandHolds == Spec => []Stand
  <1>1. Init => Stand
    <2>1. Init => \A o \in Operators : OpStands(o)
      BY DEF Init, OpStands, NoOp, Scheduling
    <2> QED BY <2>1, InitIInvTypes DEF Stand
  <1>2. Stand /\ [Next]_vars => Stand'
    <2> SUFFICES ASSUME Stand, [Next]_vars PROVE Stand'
      OBVIOUS
    <2>1. ASSUME NEW o \in Operators PROVE OpStands(o)'
      BY OpStandsStep DEF Stand
    <2> QED BY <2>1, StepIInvTypes DEF Stand
  <1> QED BY <1>1, <1>2, PTL DEF Spec

\* With one operator at work, a refusal leaves no draft of its operation
\* scheduled, and a refused `send --at` no draft, whatever services send and
\* remove meanwhile.
THEOREM RefusalUndoesAll ==
  ASSUME \A o1, o2 \in Operators : o1 = o2
  PROVE  Spec => []RefusedLeavesNothing
  <1>1. OneOperator
    BY DEF OneOperator
  <1>2. Stand => RefusedLeavesNothing
    <2> SUFFICES ASSUME Stand, NEW o \in Operators, op[o].kind = "none"
                 PROVE  /\ op[o].end = "undone" => \A d \in op[o].done : draft[d].at = NoTime
                        /\ op[o].end = "removed" => op[o].done \cap Kept = {}
      BY DEF RefusedLeavesNothing
    <2>1. OpStands(o) /\ op[o].todo = {}
      BY DEF OpStands, Stand
    <2> QED BY <1>1, <2>1 DEF OpStands, Kept
  <1> QED BY <1>2, StandHolds, PTL

NoDraftIsLeft ==
  \A o \in Operators :
    op[o].kind = "none" /\ op[o].end = "removed" => op[o].done \cap Kept = {}

\* For any number of operators, a refused `send --at` leaves no draft.
THEOREM RefusedSendLeavesNone == Spec => []NoDraftIsLeft
  <1>1. Stand => NoDraftIsLeft
    BY DEF Stand, OpStands, NoDraftIsLeft, Kept
  <1> QED BY <1>1, StandHolds, PTL
=============================================================================
