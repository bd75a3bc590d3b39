--------------------------- MODULE SendLimitProofs ---------------------------
(***************************************************************************)
(* The send limit for every set of claims, limits and days: its types; its *)
(* arithmetic, where the saturating computation of a warm-up never differs *)
(* from the one on unbounded integers; the first day of a warm-up's        *)
(* ceiling; and the claims of one day, which the row's lock keeps within   *)
(* the limits of that day.                                                 *)
(***************************************************************************)
EXTENDS SendLimit, FiniteSetTheorems, TLAPS

\* The number of claims is a number.
LEMMA ManyType == Many \in Nat
  BY SendLimitAssumption, FS_CardinalityType DEF Many

\* A stored row holds counts that fit, a day, and a ceiling above its start.
LEMMA RowType ==
  ASSUME NEW row \in Rows
  PROVE  /\ row.per_day \in 1 .. U32Max
         /\ row.grow_by \in 0 .. U32Max
         /\ row.up_to \in 0 .. U32Max
         /\ row.since \in Int
         /\ row.grow_by # 0 => row.since \in Days /\ row.up_to > row.per_day
  <1>1. CASE \E r \in {s \in Settable : s.grow_by # 0}, d \in Days : row = RowOf(r, d)
    <2>1. PICK r \in Settable, d \in Days : r.grow_by # 0 /\ row = RowOf(r, d)
      BY <1>1
    <2> QED BY <2>1, SendLimitAssumption DEF RowOf, Days
  <1>2. CASE \E r \in {s \in Settable : s.grow_by = 0} : row = RowOf(r, NoDay)
    <2>1. PICK r \in Settable : r.grow_by = 0 /\ row = RowOf(r, NoDay)
      BY <1>2
    <2> QED BY <2>1, SendLimitAssumption DEF RowOf, NoDay
  <1> QED BY <1>1, <1>2 DEF Rows

\* Saturation at the type's largest count is invisible under a smaller ceiling.
LEMMA SaturationIsHidden ==
  ASSUME NEW p \in Nat, NEW x \in Nat, NEW u \in Nat, u <= U32Max
  PROVE  MinOf(Plus(p, MinOf(x, U32Max)), u) = MinOf(p + x, u)
  BY SendLimitAssumption DEF MinOf, Plus

\* The limit in force on any day, of any row.
LEMMA InForceIs ==
  ASSUME NEW row \in Rows, NEW d \in Nat
  PROVE  /\ InForce(row, d) \in Nat
         /\ row.grow_by # 0 /\ d > row.since =>
              InForce(row, d) = MinOf(row.per_day + row.grow_by * (d - row.since), row.up_to)
  <1>0. U32Max \in Nat
    BY SendLimitAssumption
  <1>1. CASE row.grow_by = 0 \/ d <= row.since
    <2>1. row.per_day \in Nat /\ row.since \in Int
      BY RowType, <1>0
    <2> QED BY <1>1, <2>1, <1>0 DEF InForce
  <1>2. CASE ~(row.grow_by = 0 \/ d <= row.since)
    <2>1. /\ row.per_day \in Nat /\ row.grow_by \in Nat
          /\ row.up_to \in Nat /\ row.up_to <= U32Max
          /\ row.since \in Nat
      BY RowType, <1>0, <1>2, SendLimitAssumption DEF Days
    <2>2. d - row.since \in Nat
      BY <1>2, <2>1
    <2> DEFINE x == row.grow_by * (d - row.since)
    <2>3. x \in Nat
      BY <2>1, <2>2
    <2>4. InForce(row, d) = MinOf(Plus(row.per_day, MinOf(x, U32Max)), row.up_to)
      BY <1>2 DEF InForce, Times
    <2> HIDE DEF x
    <2>5. InForce(row, d) = MinOf(row.per_day + x, row.up_to)
      BY <2>1, <2>3, <2>4, SaturationIsHidden
    <2>6. MinOf(row.per_day + x, row.up_to) \in Nat
      BY <2>1, <2>3 DEF MinOf
    <2> QED BY <2>5, <2>6 DEF x
  <1> QED BY <1>1, <1>2

\* The binding limit of a day is a number of claims.
LEMMA BindingType ==
  ASSUME NEW row \in Rows \cup {NoLimit}, NEW d \in Days
  PROVE  Binding(row, d) \in 0 .. Many
  <1>1. CASE row = NoLimit
    BY <1>1, ManyType DEF Binding
  <1>2. CASE row \in Rows /\ row # NoLimit
    <2>1. InForce(row, d) \in Nat
      BY <1>2, InForceIs, SendLimitAssumption DEF Days
    <2> QED BY <1>2, <2>1, ManyType DEF Binding, MinOf
  <1> QED BY <1>1, <1>2

\* A set limit is a row the table may hold.
LEMMA SetRows ==
  ASSUME NEW r \in Settable, NEW d \in Days
  PROVE  RowOf(r, Since(r, d)) \in Rows
  BY DEF Rows, Since

LEMMA InitTypeOK == Init => TypeOK
  <1> SUFFICES ASSUME Init PROVE TypeOK
    OBVIOUS
  <1>1. 0 \in Days
    BY SendLimitAssumption DEF Days
  <1>2. limit \in Rows \cup {NoLimit}
    BY DEF Init
  <1>3. Binding(limit, 0) \in 0 .. Many
    BY <1>1, <1>2, BindingType
  <1>4. ceiling \in [Days -> 0 .. Many]
    BY <1>3, ManyType DEF Init
  <1> QED BY <1>1, <1>2, <1>4 DEF Init, TypeOK, Places

LEMMA StepTypeOK == TypeOK /\ [Next]_vars => TypeOK'
  <1> SUFFICES ASSUME TypeOK, [Next]_vars PROVE TypeOK'
    OBVIOUS
  <1> USE DEF TypeOK
  <1>1. ASSUME NEW c \in Claims, Stamp(c) PROVE TypeOK'
    BY <1>1 DEF Stamp, Goto, Places
  <1>2. ASSUME NEW c \in Claims, LockRow(c) PROVE TypeOK'
    BY <1>2 DEF LockRow, Goto, Places
  <1>3. ASSUME NEW c \in Claims, ReadDay(c) PROVE TypeOK'
    BY <1>3 DEF ReadDay, Goto, Places
  <1>4. ASSUME NEW c \in Claims, Admit(c) PROVE TypeOK'
    BY <1>4 DEF Admit, Goto, Free, Places
  <1>5. ASSUME NEW c \in Claims, Commit(c) PROVE TypeOK'
    BY <1>5 DEF Commit, Goto, Free, Places
  <1>6. ASSUME NEW c \in Claims, Abort(c) PROVE TypeOK'
    BY <1>6 DEF Abort, Goto, Free, Places
  <1>7. ASSUME NEW c \in Claims, Settle(c) PROVE TypeOK'
    BY <1>7 DEF Settle
  <1>8. ASSUME NEW row \in Rows \cup {NoLimit}, SetRow(row) PROVE TypeOK'
    <2>1. Binding(row, day) \in 0 .. Many
      BY BindingType
    <2>2. MaxOf(ceiling[day], Binding(row, day)) \in 0 .. Many
      BY <2>1, ManyType DEF MaxOf
    <2> QED BY <1>8, <2>2 DEF SetRow
  <1>9. ASSUME NEW r \in Settable, SetLimit(r) PROVE TypeOK'
    BY <1>8, <1>9, SetRows DEF SetLimit
  <1>10. ASSUME ClearLimit PROVE TypeOK'
    BY <1>8, <1>10 DEF ClearLimit
  <1>11. ASSUME Midnight PROVE TypeOK'
    <2>1. day + 1 \in Days
      BY <1>11, SendLimitAssumption DEF Midnight, Days
    <2>2. Binding(limit, day + 1) \in 0 .. Many
      BY <2>1, BindingType
    <2> QED BY <1>11, <2>1, <2>2 DEF Midnight
  <1>12. CASE UNCHANGED vars
    BY <1>12 DEF vars
  <1> QED BY <1>1, <1>2, <1>3, <1>4, <1>5, <1>6, <1>7, <1>9, <1>10, <1>11, <1>12 DEF Next

\* Every row of a limit, day and count stays within what its column stores: a
\* limit holds a whole warm-up or none of it (limit_of).
THEOREM TypeCorrect == Spec => []TypeOK
  BY InitTypeOK, StepTypeOK, PTL DEF Spec

\* The limit in force, computed in a width that saturates, is the start grown by
\* every whole day, up to the ceiling.
THEOREM WarmUpStandsExact == Spec => []WarmUpIsExact
  <1>1. TypeOK => WarmUpIsExact
    <2> SUFFICES ASSUME TypeOK, limit.grow_by # 0, NEW d \in Days, d > limit.since
                 PROVE  InForce(limit, d) =
                          MinOf(limit.per_day + limit.grow_by * (d - limit.since), limit.up_to)
      BY DEF WarmUpIsExact
    <2>1. limit \in Rows
      BY DEF TypeOK, NoLimit
    <2> QED BY <2>1, InForceIs, SendLimitAssumption DEF Days
  <1> QED BY <1>1, TypeCorrect, PTL

-----------------------------------------------------------------------------
(* The day a warm-up reaches its ceiling. *)

LEMMA DivisionIs ==
  ASSUME NEW a \in Nat, NEW b \in Nat \ {0}
  PROVE  a \div b \in Nat /\ b * (a \div b) <= a /\ a < b * ((a \div b) + 1)
  BY Z3

\* Rounded up: enough steps, and one step fewer is not.
LEMMA RoundedUp ==
  ASSUME NEW a \in Nat \ {0}, NEW b \in Nat \ {0}
  PROVE  /\ DivCeil(a, b) \in Nat \ {0}
         /\ b * DivCeil(a, b) >= a /\ b * (DivCeil(a, b) - 1) < a
  <1> DEFINE q == (a + b - 1) \div b
  <1>1. q \in Nat /\ b * q <= a + b - 1 /\ a + b - 1 < b * (q + 1)
    BY DivisionIs, a + b - 1 \in Nat
  <1>2. DivCeil(a, b) = q
    BY DEF DivCeil
  <1> HIDE DEF q
  <1>3. b * (q + 1) = b * q + b /\ b * (q - 1) = b * q - b /\ b * q \in Nat
    BY <1>1
  <1>4. q # 0
    BY <1>1, <1>3
  <1> QED BY <1>1, <1>2, <1>3, <1>4

\* The day announced for a warm-up's ceiling is the first day it is allowed.
THEOREM CeilingDayStands == Spec => []CeilingDayIsFirst
  <1>1. TypeOK => CeilingDayIsFirst
    <2> SUFFICES ASSUME TypeOK, limit.grow_by # 0
                 PROVE  /\ InForce(limit, CeilingDay(limit)) = limit.up_to
                        /\ InForce(limit, CeilingDay(limit) - 1) < limit.up_to
      BY DEF CeilingDayIsFirst
    <2>1. limit \in Rows
      BY DEF TypeOK, NoLimit
    <2>2. /\ limit.per_day \in Nat /\ limit.grow_by \in Nat \ {0} /\ limit.up_to \in Nat
          /\ limit.since \in Nat /\ limit.up_to - limit.per_day \in Nat \ {0}
      BY <2>1, RowType, SendLimitAssumption DEF Days
    <2> DEFINE n == DivCeil(limit.up_to - limit.per_day, limit.grow_by)
    <2>3. /\ n \in Nat \ {0} /\ limit.grow_by * n >= limit.up_to - limit.per_day
          /\ limit.grow_by * (n - 1) < limit.up_to - limit.per_day
      BY <2>2, RoundedUp
    <2>4. CeilingDay(limit) = limit.since + n
      BY <2>2 DEF CeilingDay, MaxOf
    <2> HIDE DEF n
    <2>5. InForce(limit, limit.since + n) = limit.up_to
      <3> DEFINE x == limit.grow_by * n
      <3>1. limit.since + n \in Nat /\ limit.since + n > limit.since /\ (limit.since + n) - limit.since = n
        BY <2>2, <2>3
      <3>2. InForce(limit, limit.since + n) = MinOf(limit.per_day + x, limit.up_to)
        BY <2>1, <2>2, <3>1, InForceIs
      <3>3. x \in Nat /\ x >= limit.up_to - limit.per_day
        BY <2>2, <2>3
      <3> HIDE DEF x
      <3> QED BY <2>2, <3>2, <3>3 DEF MinOf
    <2>6. InForce(limit, limit.since + n - 1) < limit.up_to
      <3>1. CASE n = 1
        BY <2>2, <3>1 DEF InForce
      <3>2. CASE n # 1
        <4>1. /\ limit.since + n - 1 \in Nat /\ limit.since + n - 1 > limit.since
              /\ (limit.since + n - 1) - limit.since = n - 1
          BY <2>2, <2>3, <3>2
        <4>2. InForce(limit, limit.since + n - 1) =
                MinOf(limit.per_day + limit.grow_by * (n - 1), limit.up_to)
          BY <2>1, <4>1, InForceIs
        <4> DEFINE x == limit.grow_by * (n - 1)
        <4>3. x \in Nat /\ x < limit.up_to - limit.per_day
          BY <2>2, <2>3
        <4> HIDE DEF x
        <4> QED BY <2>2, <4>2, <4>3 DEF MinOf, x
      <3> QED BY <3>1, <3>2
    <2>7. CeilingDay(limit) - 1 = limit.since + n - 1
      BY <2>2, <2>3, <2>4
    <2> QED BY <2>4, <2>5, <2>6, <2>7
  <1> QED BY <1>1, TypeCorrect, PTL
-----------------------------------------------------------------------------
(* Claims counted on one day. *)

Same(d) == {c \in OfDay(d) : today[c] = d}

\* Who counts holds the row's lock, of a limit that is there; a click never does.
\* The limit the holder counts by was in force on the day it counts.
HoldsLock(c) ==
  pc[c] \in {"holding", "counting", "admitted"} =>
    /\ lock = c /\ c \notin Clicks /\ limit # NoLimit
    /\ pc[c] # "holding" => Binding(limit, today[c]) <= ceiling[today[c]]

\* A claim that is admitted has a place left; one that found no limit needs none.
HasPlace(c) ==
  /\ pc[c] = "admitted" => Cardinality(Same(today[c])) < ceiling[today[c]]
  /\ pc[c] = "unlimited" /\ c \notin Clicks => ceiling[today[c]] = Many
  /\ c \in Clicks => pc[c] # "waiting"

\* Nothing is counted before its row is inserted, nor on a day to come.
NotYet(c) == (pc[c] # "claimed" => status[c] = "none") /\ today[c] <= day

IInv ==
  /\ TypeOK
  /\ \A c \in Claims : HoldsLock(c) /\ HasPlace(c) /\ NotYet(c)
  /\ Binding(limit, day) <= ceiling[day]
  /\ SameDayWithinLimit

\* Sets of claims are counted by numbers, a smaller set by a smaller one.
LEMMA CountIs ==
  ASSUME NEW T \in SUBSET Claims, NEW S \in SUBSET T
  PROVE  /\ IsFiniteSet(S) /\ Cardinality(S) \in Nat /\ Cardinality(T) \in Nat
         /\ Cardinality(S) <= Cardinality(T) /\ Cardinality(T) <= Many
         /\ S = {} => Cardinality(S) = 0
  <1>1. IsFiniteSet(T) /\ Cardinality(T) <= Many
    BY FS_Subset, SendLimitAssumption DEF Many
  <1>2. IsFiniteSet(S) /\ Cardinality(S) <= Cardinality(T)
    BY <1>1, FS_Subset
  <1> QED BY <1>1, <1>2, FS_CardinalityType, FS_EmptySet

LEMMA CountWithout ==
  ASSUME NEW c \in Claims, NEW S \in SUBSET (Claims \ {c})
  PROVE  Cardinality(S) < Many /\ Cardinality(S \cup {c}) = Cardinality(S) + 1
  <1>1. IsFiniteSet(S) /\ Cardinality(S) \in Nat /\ S \cup {c} \in SUBSET Claims
    BY CountIs
  <1>2. Cardinality(S \cup {c}) = Cardinality(S) + 1
    BY <1>1, FS_AddElement
  <1>3. Cardinality(S \cup {c}) <= Many
    BY <1>1, CountIs
  <1> QED BY <1>1, <1>2, <1>3, ManyType

\* The highest limit of a day that is or was never falls.
LEMMA CeilingsGrow ==
  ASSUME TypeOK, [Next]_vars
  PROVE  /\ day' \in {day, day + 1} /\ day \in Nat
         /\ \A d \in Days : /\ ceiling[d] \in 0 .. Many /\ ceiling'[d] \in 0 .. Many
                            /\ d <= day => ceiling[d] <= ceiling'[d]
  <1>a. day \in Nat
    BY SendLimitAssumption DEF TypeOK, Days
  <1>0. TypeOK' /\ Many \in Nat /\ day \in Nat
    BY <1>a, StepTypeOK, ManyType
  <1>1. \A d \in Days : ceiling[d] \in 0 .. Many /\ ceiling'[d] \in 0 .. Many
    BY <1>0 DEF TypeOK
  <1>2. CASE UNCHANGED <<day, ceiling>>
    BY <1>0, <1>1, <1>2
  <1>3. ASSUME NEW row \in Rows \cup {NoLimit}, SetRow(row)
        PROVE  day' = day /\ \A d \in Days : ceiling[d] <= ceiling'[d]
    <2>1. Binding(row, day) \in 0 .. Many
      BY BindingType DEF TypeOK
    <2> QED BY <1>0, <1>1, <1>3, <2>1 DEF SetRow, MaxOf, TypeOK
  <1>4. CASE Midnight
    BY <1>0, <1>1, <1>4 DEF Midnight, TypeOK
  <1>5. ASSUME NEW r \in Settable, SetLimit(r) PROVE \E row \in Rows \cup {NoLimit} : SetRow(row)
    BY <1>5, SetRows DEF SetLimit
  <1>6. ASSUME NEW c \in Claims,
               Stamp(c) \/ LockRow(c) \/ ReadDay(c) \/ Admit(c) \/ Commit(c) \/ Abort(c) \/ Settle(c)
        PROVE  UNCHANGED <<day, ceiling>>
    BY <1>6 DEF Stamp, LockRow, ReadDay, Admit, Commit, Abort, Settle
  <1>7. CASE ClearLimit
    BY <1>0, <1>1, <1>3, <1>7 DEF ClearLimit
  <1> QED BY <1>0, <1>1, <1>2, <1>3, <1>4, <1>5, <1>6, <1>7 DEF Next, vars

\* The limit in force is within the day's highest, whoever sets which.
LEMMA BindingStands ==
  ASSUME TypeOK, Binding(limit, day) <= ceiling[day], [Next]_vars
  PROVE  (Binding(limit, day) <= ceiling[day])'
  <1>a. day \in Nat
    BY SendLimitAssumption DEF TypeOK, Days
  <1>0. TypeOK' /\ Many \in Nat /\ day \in Nat
    BY <1>a, StepTypeOK, ManyType
  <1>1. CASE UNCHANGED <<day, limit, ceiling>>
    BY <1>1 DEF Binding, InForce, Plus, Times
  <1>2. ASSUME NEW row \in Rows \cup {NoLimit}, SetRow(row) PROVE (Binding(limit, day) <= ceiling[day])'
    <2>1. Binding(row, day) \in 0 .. Many /\ ceiling[day] \in 0 .. Many
      BY BindingType DEF TypeOK
    <2>2. Binding(limit, day)' = Binding(row, day)
      BY <1>2 DEF SetRow, Binding, InForce, Plus, Times
    <2>3. ceiling'[day'] = MaxOf(ceiling[day], Binding(row, day))
      BY <1>2 DEF SetRow, TypeOK
    <2> QED BY <2>1, <2>2, <2>3, <1>0 DEF MaxOf
  <1>3. CASE Midnight
    <2>1. Binding(limit, day)' = Binding(limit, day + 1)
      BY <1>3 DEF Midnight, Binding, InForce, Plus, Times
    <2>2. ceiling'[day'] = Binding(limit, day + 1) /\ ceiling'[day'] \in 0 .. Many
      BY <1>0, <1>3 DEF Midnight, TypeOK
    <2> QED BY <2>1, <2>2, <1>0
  <1>4. ASSUME NEW r \in Settable, SetLimit(r) PROVE \E row \in Rows \cup {NoLimit} : SetRow(row)
    BY <1>4, SetRows DEF SetLimit
  <1>5. ASSUME NEW c \in Claims,
               Stamp(c) \/ LockRow(c) \/ ReadDay(c) \/ Admit(c) \/ Commit(c) \/ Abort(c) \/ Settle(c)
        PROVE  UNCHANGED <<day, limit, ceiling>>
    BY <1>5 DEF Stamp, LockRow, ReadDay, Admit, Commit, Abort, Settle
  <1>6. CASE ClearLimit
    BY <1>2, <1>6 DEF ClearLimit
  <1> QED BY <1>1, <1>2, <1>3, <1>4, <1>5, <1>6 DEF Next, vars
\* What a step leaves of the claims it does not take: their places, days and
\* rows; and what it does to its own.
LEMMA OthersStay ==
  ASSUME TypeOK, NEW c \in Claims,
         Stamp(c) \/ LockRow(c) \/ ReadDay(c) \/ Admit(c) \/ Commit(c) \/ Abort(c) \/ Settle(c),
         NEW e \in Claims, e # c
  PROVE  pc'[e] = pc[e] /\ today'[e] = today[e] /\ created'[e] = created[e] /\ status'[e] = status[e]
  BY DEF Stamp, LockRow, ReadDay, Admit, Commit, Abort, Settle, Goto, TypeOK

LEMMA NotYetStep ==
  ASSUME IInv, [Next]_vars, NEW e \in Claims
  PROVE  NotYet(e)'
  <1>a. TypeOK /\ NotYet(e)
    BY DEF IInv
  <1>b. today[e] \in Nat
    BY <1>a, SendLimitAssumption DEF TypeOK, Days
  <1>0. TypeOK /\ NotYet(e) /\ day' >= day /\ day \in Nat /\ day' \in Nat /\ today[e] \in Nat
    BY <1>a, <1>b, CeilingsGrow
  <1>1. ASSUME NEW c \in Claims, c # e,
               Stamp(c) \/ LockRow(c) \/ ReadDay(c) \/ Admit(c) \/ Commit(c) \/ Abort(c) \/ Settle(c)
        PROVE  NotYet(e)'
    BY <1>0, <1>1, OthersStay DEF NotYet
  <1>2. CASE Stamp(e) \/ LockRow(e) \/ ReadDay(e) \/ Admit(e) \/ Commit(e) \/ Abort(e) \/ Settle(e)
    BY <1>0, <1>2 DEF Stamp, LockRow, ReadDay, Admit, Commit, Abort, Settle, Goto, TypeOK, NotYet
  <1>3. CASE UNCHANGED <<pc, today, status>>
    BY <1>0, <1>3 DEF NotYet
  <1> QED BY <1>1, <1>2, <1>3 DEF Next, vars, SetLimit, ClearLimit, SetRow, Midnight

LEMMA HoldsLockStep ==
  ASSUME IInv, [Next]_vars, NEW e \in Claims
  PROVE  HoldsLock(e)'
  <1>0. /\ TypeOK /\ HoldsLock(e) /\ HasPlace(e) /\ NotYet(e) /\ Many \in Nat /\ e # Nobody
        /\ Binding(limit, day) <= ceiling[day]
    BY ManyType, SendLimitAssumption DEF IInv
  <1>1. \A d \in Days : /\ ceiling[d] \in Nat /\ ceiling'[d] \in Nat
                        /\ d <= day => ceiling[d] <= ceiling'[d]
    BY <1>0, CeilingsGrow
  <1>2. /\ today[e] \in Days /\ today[e] <= day
        /\ limit # NoLimit => Binding(limit, today[e]) \in Nat
    BY <1>0, BindingType DEF TypeOK, NotYet
  <1>3. CASE UNCHANGED limit /\ pc'[e] = pc[e] /\ today'[e] = today[e] /\ (lock = e => lock' = e)
    <2>1. Binding(limit, today[e])' = Binding(limit, today[e])
      BY <1>3 DEF Binding, InForce, Plus, Times
    <2> QED BY <1>0, <1>1, <1>2, <1>3, <2>1 DEF HoldsLock
  <1>4. ASSUME NEW c \in Claims, c # e,
               Stamp(c) \/ LockRow(c) \/ ReadDay(c) \/ Admit(c) \/ Commit(c) \/ Abort(c) \/ Settle(c)
        PROVE  HoldsLock(e)'
    <2>1. UNCHANGED limit /\ (lock = e => lock' = e)
      BY <1>0, <1>4 DEF Stamp, LockRow, ReadDay, Admit, Commit, Abort, Settle, Free, LockFree
    <2> QED BY <1>0, <1>3, <1>4, <2>1, OthersStay
  <1>5. CASE Stamp(e) \/ Commit(e) \/ Abort(e)
    BY <1>0, <1>5 DEF Stamp, Commit, Abort, Goto, TypeOK, HoldsLock
  <1>6. CASE LockRow(e)
    BY <1>0, <1>6 DEF LockRow, Goto, TypeOK, HoldsLock, HasPlace
  <1>7. CASE ReadDay(e)
    <2>1. /\ pc'[e] = "counting" /\ pc[e] = "holding" /\ today'[e] = day /\ day \in Days
          /\ UNCHANGED <<limit, lock, ceiling>>
      BY <1>0, <1>7 DEF ReadDay, Goto, TypeOK
    <2>2. Binding(limit, today[e])' = Binding(limit, day)
      BY <2>1 DEF Binding, InForce, Plus, Times
    <2> QED BY <1>0, <2>1, <2>2 DEF HoldsLock
  <1>8. CASE Admit(e)
    <2>1. /\ pc'[e] \in {"admitted", "over"} /\ pc[e] = "counting" /\ today'[e] = today[e]
          /\ UNCHANGED <<limit, ceiling>> /\ (pc'[e] = "admitted" => lock' = lock)
      BY <1>0, <1>8 DEF Admit, Goto, TypeOK
    <2>2. Binding(limit, today[e])' = Binding(limit, today[e])
      BY <2>1 DEF Binding, InForce, Plus, Times
    <2> QED BY <1>0, <2>1, <2>2 DEF HoldsLock
  <1>9. CASE Settle(e)
    BY <1>3, <1>9 DEF Settle
  <1>10. ASSUME NEW r \in Settable, SetLimit(r) PROVE HoldsLock(e)'
    <2>1. UNCHANGED <<pc, lock>> /\ (limit = NoLimit \/ lock = Nobody)
      BY <1>10 DEF SetLimit, SetRow
    <2> QED BY <1>0, <2>1 DEF HoldsLock
  <1>11. CASE ClearLimit
    BY <1>0, <1>11 DEF ClearLimit, SetRow, HoldsLock
  <1>12. CASE Midnight \/ UNCHANGED vars
    BY <1>3, <1>12 DEF Midnight, vars
  <1> QED BY <1>4, <1>5, <1>6, <1>7, <1>8, <1>9, <1>10, <1>11, <1>12 DEF Next
\* Only a commit makes a send count, and what counts keeps its day.
LEMMA CountedBefore ==
  ASSUME IInv, [Next]_vars, NEW c \in Claims, Counts(c)', ~Commit(c)
  PROVE  Counts(c) /\ created'[c] = created[c] /\ today'[c] = today[c]
  <1>0. TypeOK /\ NotYet(c)
    BY DEF IInv
  <1>1. ASSUME NEW e \in Claims, e # c,
               Stamp(e) \/ LockRow(e) \/ ReadDay(e) \/ Admit(e) \/ Commit(e) \/ Abort(e) \/ Settle(e)
        PROVE  Counts(c) /\ created'[c] = created[c] /\ today'[c] = today[c]
    BY <1>0, <1>1, OthersStay DEF Counts
  <1>2. CASE Stamp(c) \/ LockRow(c) \/ ReadDay(c)
    BY <1>0, <1>2 DEF Stamp, LockRow, ReadDay, NotYet, Counts
  <1>3. CASE Admit(c) \/ Abort(c) \/ Settle(c)
    BY <1>0, <1>3 DEF Admit, Abort, Settle, Counts, TypeOK
  <1>4. CASE UNCHANGED <<status, created, today>>
    BY <1>4 DEF Counts
  <1> QED
    BY <1>1, <1>2, <1>3, <1>4 DEF Next, vars, SetLimit, ClearLimit, SetRow, Midnight

\* Apart from the send that commits, nothing is added to what a day counts.
LEMMA SameShrinks ==
  ASSUME IInv, [Next]_vars, NEW d \in Days
  PROVE  /\ Same(d) \in SUBSET Claims /\ Same(d)' \in SUBSET Claims
         /\ (\A c \in Claims : ~Commit(c)) => Same(d)' \subseteq Same(d)
         /\ \A c \in Claims : Commit(c) =>
              /\ c \notin Same(d) /\ Same(d)' \subseteq Same(d) \cup {c}
              /\ c \in Clicks \/ today[c] # d => Same(d)' \subseteq Same(d)
  <1>1. Same(d) \in SUBSET Claims /\ Same(d)' \in SUBSET Claims
    BY DEF Same, OfDay
  <1>2. ASSUME NEW c \in Claims, c \in Same(d)', ~Commit(c) PROVE c \in Same(d)
    BY <1>2, CountedBefore DEF Same, OfDay
  <1>3. ASSUME NEW c \in Claims, Commit(c)
        PROVE  /\ c \notin Same(d) /\ today'[c] = today[c]
               /\ \A e \in Claims : e # c => ~Commit(e)
    <2>1. pc[c] # "claimed" /\ pc'[c] = "claimed" /\ UNCHANGED today /\ TypeOK /\ NotYet(c)
      BY <1>3 DEF Commit, Goto, IInv, TypeOK
    <2>2. ASSUME NEW e \in Claims, e # c, Commit(e) PROVE FALSE
      BY <2>1, <2>2, OthersStay
    <2> QED BY <2>1, <2>2 DEF Same, OfDay, Counts, NotYet
  <1>4. ASSUME NEW c \in Claims, Commit(c), c \in Clicks \/ today[c] # d PROVE c \notin Same(d)'
    BY <1>3, <1>4 DEF Same, OfDay, Counts
  <1> QED BY <1>1, <1>2, <1>3, <1>4

\* A day to come counts nothing yet.
LEMMA NoneAhead ==
  ASSUME \A c \in Claims : NotYet(c), TypeOK, NEW d \in Days, d > day
  PROVE  Same(d) = {}
  BY SendLimitAssumption DEF Same, OfDay, NotYet, TypeOK, Days

LEMMA SameDayStep ==
  ASSUME IInv, [Next]_vars, NEW d \in Days
  PROVE  Cardinality(Same(d)') <= ceiling'[d]
  <1>1. /\ TypeOK /\ TypeOK' /\ Many \in Nat
        /\ \A c \in Claims : HoldsLock(c) /\ HasPlace(c) /\ NotYet(c)
        /\ Cardinality(Same(d)) <= ceiling[d]
    BY StepTypeOK, ManyType DEF IInv, SameDayWithinLimit, Same
  <1>2. /\ ceiling[d] \in 0 .. Many /\ ceiling'[d] \in 0 .. Many /\ day \in Nat
        /\ d <= day => ceiling[d] <= ceiling'[d]
    BY <1>1, CeilingsGrow
  <1>3. /\ Same(d) \in SUBSET Claims /\ Same(d)' \in SUBSET Claims
        /\ Cardinality(Same(d)) \in Nat /\ Cardinality(Same(d)') \in Nat
        /\ Cardinality(Same(d)') <= Many
        /\ Same(d)' \subseteq Same(d) => Cardinality(Same(d)') <= Cardinality(Same(d))
    BY SameShrinks, CountIs
  <1>4. CASE ~(d <= day)
    <2>1. Same(d) = {} /\ d \in Nat
      BY <1>1, <1>2, <1>4, NoneAhead, SendLimitAssumption DEF Days
    <2>2. Same(d)' \subseteq Same(d)
      <3>1. ASSUME NEW c \in Claims, Commit(c) PROVE today[c] # d
        BY <1>1, <1>4, <3>1 DEF NotYet
      <3> QED BY <3>1, SameShrinks
    <2> QED BY <1>2, <1>3, <2>1, <2>2, CountIs
  <1>5. CASE d <= day /\ \A c \in Claims : Commit(c) => c \in Clicks \/ today[c] # d
    <2>1. Same(d)' \subseteq Same(d)
      BY <1>5, SameShrinks
    <2> QED BY <1>1, <1>2, <1>3, <1>5, <2>1
  <1>6. ASSUME d <= day, NEW c \in Claims, Commit(c), c \notin Clicks, today[c] = d
        PROVE  Cardinality(Same(d)') <= ceiling'[d]
    <2>1. CASE pc[c] = "admitted"
      <3>1. Cardinality(Same(d)') <= Cardinality(Same(d) \cup {c})
        BY <1>3, <1>6, SameShrinks, CountIs
      <3>2. Cardinality(Same(d) \cup {c}) = Cardinality(Same(d)) + 1
        BY <1>3, <1>6, SameShrinks, CountWithout
      <3>3. Cardinality(Same(d)) < ceiling[d]
        BY <1>1, <1>6, <2>1 DEF HasPlace
      <3> QED BY <1>2, <1>3, <1>6, <3>1, <3>2, <3>3
    <2>2. CASE pc[c] = "unlimited"
      <3>1. ceiling[d] = Many
        BY <1>1, <1>6, <2>2 DEF HasPlace
      <3> QED BY <1>2, <1>3, <1>6, <3>1, <1>1
    <2> QED BY <1>6, <2>1, <2>2 DEF Commit
  <1> QED BY <1>4, <1>5, <1>6

\* Who is not yet counted leaves a place among all the claims.
LEMMA RoomBeside ==
  ASSUME IInv, [Next]_vars, NEW e \in Claims, pc'[e] # "claimed", NEW d \in Days
  PROVE  Cardinality(Same(d)') < Many
  <1>1. NotYet(e)'
    BY NotYetStep
  <1>2. Same(d)' \in SUBSET (Claims \ {e})
    BY <1>1 DEF NotYet, Same, OfDay, Counts
  <1> QED BY <1>2, CountWithout

\* Nobody takes the place of a claim that is admitted: its lock is its own, and
\* a claim beside it found no limit that day.
LEMMA PlaceKept ==
  ASSUME IInv, [Next]_vars, NEW e \in Claims, NEW d \in Days, d = today[e],
         pc[e] = "admitted", pc'[e] = "admitted"
  PROVE  Cardinality(Same(d)') < ceiling'[d]
  <1>1. /\ TypeOK /\ Many \in Nat /\ d <= day
        /\ \A c \in Claims : HoldsLock(c) /\ HasPlace(c)
        /\ Cardinality(Same(d)) < ceiling[d]
    BY ManyType DEF IInv, HasPlace, NotYet
  <1>2. ceiling[d] \in 0 .. Many /\ ceiling'[d] \in 0 .. Many /\ ceiling[d] <= ceiling'[d]
    BY <1>1, CeilingsGrow
  <1>3. /\ Cardinality(Same(d)) \in Nat /\ Cardinality(Same(d)') \in Nat
        /\ Same(d)' \subseteq Same(d) => Cardinality(Same(d)') <= Cardinality(Same(d))
    BY SameShrinks, CountIs
  <1>4. CASE Same(d)' \subseteq Same(d)
    BY <1>1, <1>2, <1>3, <1>4
  <1>5. CASE ~(Same(d)' \subseteq Same(d))
    <2>1. PICK c \in Claims : Commit(c) /\ c \notin Clicks /\ today[c] = d
      BY <1>5, SameShrinks
    <2>2. pc'[c] = "claimed"
      BY <1>1, <2>1 DEF Commit, Goto, TypeOK
    <2>3. pc[c] # "admitted"
      BY <1>1, <2>2 DEF HoldsLock
    <2>4. ceiling[d] = Many
      BY <1>1, <2>1, <2>3 DEF Commit, HasPlace
    <2>5. Cardinality(Same(d)') < Many
      BY RoomBeside
    <2> QED BY <1>1, <1>2, <2>4, <2>5
  <1> QED BY <1>4, <1>5

\* Who is admitted counted fewer than the limit, and fewer still on its own day.
LEMMA PlaceTaken ==
  ASSUME IInv, [Next]_vars, NEW e \in Claims, NEW d \in Days, d = today[e],
         Admit(e), pc'[e] = "admitted"
  PROVE  Cardinality(Same(d)') < ceiling'[d]
  <1>1. /\ TypeOK /\ Many \in Nat /\ HoldsLock(e) /\ NotYet(e)
        /\ pc[e] = "counting" /\ UNCHANGED <<day, created, today, status, ceiling>>
    BY ManyType DEF IInv, Admit
  <1>2. SendsSince(d) < InForce(limit, d)
    BY <1>1, "over" # "admitted" DEF Admit, Goto, HasRoom, TypeOK
  <1>3. limit # NoLimit /\ limit \in Rows /\ Binding(limit, d) <= ceiling[d]
    BY <1>1 DEF HoldsLock, TypeOK
  <1>4. InForce(limit, d) \in Nat
    BY <1>3, InForceIs, SendLimitAssumption DEF Days
  <1>5. Cardinality(Same(d)') < Many
    BY <1>1, RoomBeside, "admitted" # "claimed"
  <1> DEFINE S == {c \in Claims : Counts(c) /\ created[c] >= d}
  <1>6. Same(d)' \subseteq S /\ S \in SUBSET Claims
    BY <1>1, SendLimitAssumption DEF Same, OfDay, Counts, Days
  <1>7. /\ Cardinality(Same(d)') \in Nat /\ Cardinality(S) \in Nat
        /\ Cardinality(Same(d)') <= Cardinality(S)
    BY <1>6, CountIs
  <1>8. Cardinality(S) < InForce(limit, d)
    BY <1>2 DEF SendsSince
  <1>9. ceiling'[d] = ceiling[d] /\ ceiling[d] \in 0 .. Many
    BY <1>1 DEF TypeOK
  <1> HIDE DEF S
  <1> QED BY <1>1, <1>3, <1>4, <1>5, <1>7, <1>8, <1>9 DEF Binding, MinOf

\* A claim that found no limit found none in force on its day.
LEMMA UnlimitedDay ==
  ASSUME IInv, [Next]_vars, NEW e \in Claims, pc'[e] = "unlimited", e \notin Clicks
  PROVE  ceiling'[today'[e]] = Many
  <1>1. /\ TypeOK /\ Many \in Nat /\ HasPlace(e) /\ NotYet(e) /\ today[e] \in Days /\ day \in Days
        /\ Binding(limit, day) <= ceiling[day]
    BY ManyType DEF IInv, TypeOK
  <1>2. \A d \in Days : /\ ceiling[d] \in 0 .. Many /\ ceiling'[d] \in 0 .. Many
                        /\ d <= day => ceiling[d] <= ceiling'[d]
    BY <1>1, CeilingsGrow
  <1>3. CASE pc[e] = "unlimited" /\ today'[e] = today[e]
    BY <1>1, <1>2, <1>3 DEF HasPlace, NotYet
  <1>4. ASSUME NEW c \in Claims, c # e,
               Stamp(c) \/ LockRow(c) \/ ReadDay(c) \/ Admit(c) \/ Commit(c) \/ Abort(c) \/ Settle(c)
        PROVE  ceiling'[today'[e]] = Many
    BY <1>1, <1>3, <1>4, OthersStay
  <1>5. CASE Stamp(e) \/ ReadDay(e) \/ Admit(e) \/ Commit(e) \/ Abort(e)
    BY <1>1, <1>5 DEF Stamp, ReadDay, Admit, Commit, Abort, Goto, TypeOK
  <1>6. CASE LockRow(e)
    <2>1. limit = NoLimit /\ today'[e] = day /\ UNCHANGED ceiling
      BY <1>1, <1>6 DEF LockRow, Goto, TypeOK
    <2>2. ceiling[day] = Many
      BY <1>1, <1>2, <2>1 DEF Binding
    <2> QED BY <2>1, <2>2
  <1>7. CASE UNCHANGED <<pc, today>>
    BY <1>3, <1>7
  <1> QED BY <1>4, <1>5, <1>6, <1>7 DEF Next, vars, Settle, SetLimit, ClearLimit, SetRow, Midnight

LEMMA HasPlaceStep ==
  ASSUME IInv, [Next]_vars, NEW e \in Claims
  PROVE  HasPlace(e)'
  <1>1. TypeOK /\ HasPlace(e) /\ today[e] \in Days
    BY DEF IInv, TypeOK
  <1>2. \/ Admit(e) /\ today'[e] = today[e]
        \/ pc'[e] = "admitted" => pc[e] = "admitted" /\ today'[e] = today[e]
    <2>1. ASSUME NEW c \in Claims, c # e,
                 Stamp(c) \/ LockRow(c) \/ ReadDay(c) \/ Admit(c) \/ Commit(c) \/ Abort(c) \/ Settle(c)
          PROVE  pc'[e] = pc[e] /\ today'[e] = today[e]
      BY <1>1, <2>1, OthersStay
    <2>2. CASE Stamp(e) \/ LockRow(e) \/ ReadDay(e) \/ Commit(e) \/ Abort(e) \/ Settle(e)
      BY <1>1, <2>2 DEF Stamp, LockRow, ReadDay, Commit, Abort, Settle, Goto, TypeOK
    <2>3. CASE Admit(e)
      BY <2>3 DEF Admit
    <2>4. CASE UNCHANGED <<pc, today>>
      BY <2>4
    <2> QED BY <2>1, <2>2, <2>3, <2>4 DEF Next, vars, SetLimit, ClearLimit, SetRow, Midnight
  <1>3. ASSUME pc'[e] = "admitted" PROVE Cardinality(Same(today[e])') < ceiling'[today'[e]]
    <2>1. PICK d \in Days : d = today[e]
      BY <1>1
    <2>2. today'[e] = d
      BY <1>2, <1>3, <2>1
    <2>3. Cardinality(Same(d)') < ceiling'[d]
      BY <1>2, <1>3, <2>1, PlaceKept, PlaceTaken
    <2>4. Same(today[e])' = Same(d)'
      BY <2>2 DEF Same, OfDay
    <2> QED BY <2>2, <2>3, <2>4
  <1>4. e \in Clicks => pc'[e] # "waiting"
    <2>1. ASSUME NEW c \in Claims, c # e,
                 Stamp(c) \/ LockRow(c) \/ ReadDay(c) \/ Admit(c) \/ Commit(c) \/ Abort(c) \/ Settle(c)
          PROVE  pc'[e] = pc[e]
      BY <1>1, <2>1, OthersStay
    <2>2. CASE Stamp(e) \/ LockRow(e) \/ ReadDay(e) \/ Admit(e) \/ Commit(e) \/ Abort(e) \/ Settle(e)
      BY <1>1, <2>2 DEF Stamp, LockRow, ReadDay, Admit, Commit, Abort, Settle, Goto, TypeOK, HasPlace
    <2>3. CASE UNCHANGED pc
      BY <1>1, <2>3 DEF HasPlace
    <2> QED BY <1>1, <2>1, <2>2, <2>3 DEF Next, vars, SetLimit, ClearLimit, SetRow, Midnight, HasPlace
  <1> QED BY <1>3, <1>4, UnlimitedDay DEF HasPlace

LEMMA InitIInv == Init => IInv
  <1> SUFFICES ASSUME Init PROVE IInv
    OBVIOUS
  <1>1. TypeOK /\ Many \in Nat /\ day = 0 /\ 0 \in Days
    BY InitTypeOK, ManyType, SendLimitAssumption DEF Init, Days
  <1>2. \A c \in Claims : pc[c] = "idle" /\ status[c] = "none" /\ today[c] = 0
    BY DEF Init
  <1>3. \A c \in Claims : HoldsLock(c) /\ HasPlace(c) /\ NotYet(c)
    BY <1>1, <1>2 DEF HoldsLock, HasPlace, NotYet
  <1>4. Binding(limit, day) <= ceiling[day]
    <2>1. ceiling[day] = Binding(limit, day) /\ Binding(limit, day) \in 0 .. Many
      BY <1>1, BindingType DEF Init, TypeOK
    <2> QED BY <1>1, <2>1
  <1>5. SameDayWithinLimit
    <2> SUFFICES ASSUME NEW d \in Days PROVE Cardinality(Same(d)) <= ceiling[d]
      BY DEF SameDayWithinLimit, Same
    <2>1. Same(d) = {} /\ ceiling[d] \in 0 .. Many
      BY <1>1, <1>2 DEF Same, OfDay, Counts, TypeOK
    <2>2. Cardinality(Same(d)) = 0
      BY <2>1, FS_EmptySet
    <2> QED BY <1>1, <2>1, <2>2
  <1> QED BY <1>1, <1>3, <1>4, <1>5 DEF IInv

LEMMA IInvStep == IInv /\ [Next]_vars => IInv'
  <1> SUFFICES ASSUME IInv, [Next]_vars PROVE IInv'
    OBVIOUS
  <1>1. TypeOK'
    BY StepTypeOK DEF IInv
  <1>2. ASSUME NEW c \in Claims PROVE HoldsLock(c)' /\ HasPlace(c)' /\ NotYet(c)'
    BY HoldsLockStep, HasPlaceStep, NotYetStep
  <1>3. (Binding(limit, day) <= ceiling[day])'
    BY BindingStands DEF IInv
  <1>4. SameDayWithinLimit'
    <2>1. ASSUME NEW d \in Days
          PROVE  Cardinality({c \in OfDay(d) : today[c] = d})' <= ceiling'[d]
      BY SameDayStep DEF Same
    <2> QED BY <2>1 DEF SameDayWithinLimit
  <1> QED BY <1>1, <1>2, <1>3, <1>4 DEF IInv

\* The lock of the limit's row is what keeps two claims from taking one place:
\* what is claimed and counted on a day is within the highest limit of that day,
\* however many claims, limits and days there are.
THEOREM SameDayStands == Spec => []SameDayWithinLimit
  <1>1. IInv => SameDayWithinLimit
    BY DEF IInv
  <1> QED BY <1>1, InitIInv, IInvStep, PTL DEF Spec
=============================================================================
