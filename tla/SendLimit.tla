------------------------------ MODULE SendLimit ------------------------------
(***************************************************************************)
(* One mailbox's send limit: the claims of its sends, admitted under the   *)
(* lock of its limit row; the operator who sets, warms up and removes the  *)
(* limit; and the UTC day, which may turn between any two steps.           *)
(***************************************************************************)
EXTENDS Integers, FiniteSets

CONSTANTS
  Claims,    \* requests that claim a send from the mailbox
  Clicks,    \* those that unsubscribe with one click, which sends no mail
  Settable,  \* the limits an operator sets: [per_day, grow_by, up_to]
  LastDay,   \* bound on the clock: days are 0..LastDay
  U32Max,    \* the largest count a NonZeroU32 holds
  Nobody     \* no claim

Days == 0 .. LastDay
NoDay == -1

\* A limit without a warm-up has grow_by = 0, up_to = 0 and since = NoDay, for
\* NULL; a warm-up's ceiling is above its start (set_mailbox_send_limit).
ASSUME SendLimitAssumption ==
  /\ IsFiniteSet(Claims)
  /\ Clicks \subseteq Claims
  /\ LastDay \in Nat
  /\ U32Max \in Nat \ {0}
  /\ Settable \subseteq [per_day : 1 .. U32Max, grow_by : 0 .. U32Max, up_to : 0 .. U32Max]
  /\ \A r \in Settable : IF r.grow_by = 0 THEN r.up_to = 0 ELSE r.up_to > r.per_day
  /\ Nobody \notin Claims

VARIABLES
  day,       \* the UTC day it is
  limit,     \* the mailbox_send_limits row
  lock,      \* who holds the row's lock
  pc,        \* where each claim is
  created,   \* created_at of the row a claim inserts, as a day
  today,     \* the day a claim is counted on
  status,    \* of the row each claim inserted
  ceiling    \* history: the highest limit in force on each day, or Many

vars == <<day, limit, lock, pc, created, today, status, ceiling>>

NoLimit == [per_day |-> 0, grow_by |-> 0, up_to |-> 0, since |-> NoDay]
RowOf(r, d) ==
  [per_day |-> r.per_day, grow_by |-> r.grow_by, up_to |-> r.up_to, since |-> d]
\* A row stores a whole warm-up or none of it.
Rows == {RowOf(r, d) : r \in {s \in Settable : s.grow_by # 0}, d \in Days}
          \cup {RowOf(r, NoDay) : r \in {s \in Settable : s.grow_by = 0}}
Places == {"idle", "waiting", "holding", "counting", "admitted", "unlimited", "claimed", "over"}
Many == Cardinality(Claims)   \* more sends than that are never claimed

MinOf(a, b) == IF a <= b THEN a ELSE b
MaxOf(a, b) == IF a <= b THEN b ELSE a

-----------------------------------------------------------------------------
(* The limit in force on a day, and the day a warm-up reaches its ceiling. *)

Times_Wrapping(a, b) == (a * b) % (U32Max + 1)   \* mutant: wrapping_mul

Times(a, b) == MinOf(a * b, U32Max)              \* saturating_mul
Plus(a, b) == MinOf(a + b, U32Max)               \* saturating_add

InForce(row, d) ==
  IF row.grow_by = 0 \/ d <= row.since
    THEN row.per_day
    ELSE MinOf(Plus(row.per_day, Times(row.grow_by, d - row.since)), row.up_to)

DivCeil_Down(a, b) == a \div b                   \* mutant: the last step not rounded up

DivCeil(a, b) == (a + b - 1) \div b

CeilingDay(row) == row.since + DivCeil(MaxOf(row.up_to - row.per_day, 0), row.grow_by)

-----------------------------------------------------------------------------
(* What counts. *)

Counts(c) == c \notin Clicks /\ status[c] \notin {"none", "failed"}

SendsSince(d) == Cardinality({c \in Claims : Counts(c) /\ created[c] >= d})

\* The limit that binds a day, as the history keeps it.
Binding(row, d) == IF row = NoLimit THEN Many ELSE MinOf(InForce(row, d), Many)

TypeOK ==
  /\ day \in Days
  /\ limit \in Rows \cup {NoLimit}
  /\ lock \in Claims \cup {Nobody}
  /\ pc \in [Claims -> Places]
  /\ created \in [Claims -> Days]
  /\ today \in [Claims -> Days]
  /\ status \in [Claims -> {"none", "pending", "failed", "kept"}]
  /\ ceiling \in [Days -> 0 .. Many]

Init ==
  /\ day = 0
  /\ limit \in {r \in Rows : r.since <= 0} \cup {NoLimit}
  /\ lock = Nobody
  /\ pc = [c \in Claims |-> "idle"]
  /\ created = [c \in Claims |-> 0]
  /\ today = [c \in Claims |-> 0]
  /\ status = [c \in Claims |-> "none"]
  /\ ceiling = [d \in Days |-> IF d = 0 THEN Binding(limit, 0) ELSE 0]

-----------------------------------------------------------------------------
(* One claim. *)

Goto(c, place) == pc' = [pc EXCEPT ![c] = place]
Free(c) == lock' = IF lock = c THEN Nobody ELSE lock

\* created_at is taken before the transaction begins; a one-click unsubscribe
\* sends no mail and is inserted outside the limit.
Stamp(c) ==
  /\ pc[c] = "idle"
  /\ created' = [created EXCEPT ![c] = day]
  /\ today' = [today EXCEPT ![c] = day]
  /\ Goto(c, IF c \in Clicks THEN "unlimited" ELSE "waiting")
  /\ UNCHANGED <<day, limit, lock, status, ceiling>>

\* SELECT ... FOR UPDATE: waits for the row's lock; no row, no limit, no lock.
LockFree_Unlocked(c) == TRUE   \* mutant: a plain SELECT

LockFree(c) == lock = Nobody

LockRow(c) ==
  /\ pc[c] = "waiting"
  /\ LockFree(c)
  /\ IF limit = NoLimit
       THEN /\ Goto(c, "unlimited")
            /\ today' = [today EXCEPT ![c] = day]
            /\ UNCHANGED lock
       ELSE /\ Goto(c, "holding")
            /\ lock' = c
            /\ UNCHANGED today
  /\ UNCHANGED <<day, limit, created, status, ceiling>>

\* The day the claim is counted on is taken under the lock.
ReadDay(c) ==
  /\ pc[c] = "holding"
  /\ today' = [today EXCEPT ![c] = day]
  /\ Goto(c, "counting")
  /\ UNCHANGED <<day, limit, lock, created, status, ceiling>>

HasRoom(c) == SendsSince(today[c]) < InForce(limit, today[c])

Admit(c) ==
  /\ pc[c] = "counting"
  /\ IF HasRoom(c)
       THEN Goto(c, "admitted") /\ UNCHANGED lock
       ELSE Goto(c, "over") /\ Free(c)   \* MAILBOX_SEND_LIMIT_REACHED
  /\ UNCHANGED <<day, limit, created, today, status, ceiling>>

\* The insert and its commit, which releases the lock.
Commit(c) ==
  /\ pc[c] \in {"admitted", "unlimited"}
  /\ status' = [status EXCEPT ![c] = "pending"]
  /\ Goto(c, "claimed")
  /\ Free(c)
  /\ UNCHANGED <<day, limit, created, today, ceiling>>

\* A key already claimed, a database error or a process that dies rolls the
\* transaction back.
Abort(c) ==
  /\ pc[c] \in {"waiting", "holding", "counting", "admitted", "unlimited"}
  /\ Goto(c, "over")
  /\ Free(c)
  /\ UNCHANGED <<day, limit, created, today, status, ceiling>>

\* The claimed send is recorded `failed`, or anything else.
Settle(c) ==
  /\ status[c] = "pending"
  /\ \E ended \in {"failed", "kept"} : status' = [status EXCEPT ![c] = ended]
  /\ UNCHANGED <<day, limit, lock, pc, created, today, ceiling>>

-----------------------------------------------------------------------------
(* The operator and the clock. *)

SetRow(row) ==
  /\ limit' = row
  /\ ceiling' = [ceiling EXCEPT ![day] = MaxOf(@, Binding(row, day))]
  /\ UNCHANGED <<day, lock, pc, created, today, status>>

Since(r, d) == IF r.grow_by = 0 THEN NoDay ELSE d

\* The upsert waits for the row's lock; the warm-up's first day was read before
\* it waited, so the day may have turned since.
SetLimit(r) ==
  /\ limit = NoLimit \/ lock = Nobody
  /\ \E d \in {day - 1, day} \cap Days : SetRow(RowOf(r, Since(r, d)))

ClearLimit ==
  /\ limit # NoLimit
  /\ lock = Nobody
  /\ SetRow(NoLimit)

Midnight ==
  /\ day < LastDay
  /\ day' = day + 1
  /\ ceiling' = [ceiling EXCEPT ![day + 1] = Binding(limit, day + 1)]
  /\ UNCHANGED <<limit, lock, pc, created, today, status>>

Next ==
  \/ \E c \in Claims : \/ Stamp(c) \/ LockRow(c) \/ ReadDay(c) \/ Admit(c)
                       \/ Commit(c) \/ Abort(c) \/ Settle(c)
  \/ \E r \in Settable : SetLimit(r)
  \/ ClearLimit
  \/ Midnight

Spec == Init /\ [][Next]_vars

-----------------------------------------------------------------------------
(* Properties. *)

OfDay(d) == {c \in Claims : Counts(c) /\ created[c] = d}

\* Two claims at once never both take the last place: however claims, changes of
\* the limit and failures interleave, the sends claimed and counted on one and
\* the same day are no more than the highest limit in force that day.
SameDayWithinLimit ==
  \A d \in Days : Cardinality({c \in OfDay(d) : today[c] = d}) <= ceiling[d]

\* The limit in force is the start grown by every whole day since, up to the
\* ceiling, although it is computed in 32 bits that saturate.
WarmUpIsExact ==
  limit.grow_by # 0 =>
    \A d \in Days : d > limit.since =>
      InForce(limit, d) = MinOf(limit.per_day + limit.grow_by * (d - limit.since), limit.up_to)

\* reaches_up_to_on is the first day the limit allows up_to.
CeilingDayIsFirst ==
  limit.grow_by # 0 =>
    /\ InForce(limit, CeilingDay(limit)) = limit.up_to
    /\ InForce(limit, CeilingDay(limit) - 1) < limit.up_to

\* What the code does not keep.  "How many messages the operator lets it send in
\* one UTC day": the sends claimed on one day are within the limit of that day,
\* or at least of some day.
DayWithinLimit ==
  \A d \in Days : \E e \in 0 .. day : Cardinality(OfDay(d)) <= ceiling[e]
=============================================================================
