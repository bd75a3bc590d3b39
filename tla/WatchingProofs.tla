--------------------------- MODULE WatchingProofs ---------------------------
(***************************************************************************)
(* No announcement is lost on its way to a round, for any number of        *)
(* mailboxes: what has to be added to the claim itself is that a list a    *)
(* round has just read is current, or another round is due.  And a watch   *)
(* for messages misses and repeats nothing, for any number of imports,     *)
(* messages and clients: what has to be added is where each client is in   *)
(* the stored order, and what it is owed from there.                       *)
(***************************************************************************)
EXTENDS Watching, MessageWatch, WellFoundedInduction, TLAPS

ListIsCurrent ==
  round = "starting" =>
    \A m \in Mailboxes : status[m] = "enabled" => m \in listed \/ RoundIsDue

IInv == TypeOK /\ ListIsCurrent /\ UnwatchedIsDue

LEMMA InitIInv == Init => IInv
  BY DEF Init, IInv, TypeOK, Stored, Watchers, Active, ListIsCurrent, UnwatchedIsDue, RoundIsDue

LEMMA StepTypeOK == TypeOK /\ [Next]_vars => TypeOK'
  <1> SUFFICES ASSUME TypeOK, [Next]_vars PROVE TypeOK'
    OBVIOUS
  <1> USE DEF TypeOK, Watchers, Active, Stored, Announce, ClearFailure, Goto, service
  <1>1. CASE Hear \/ SubscriptionEnds \/ Resubscribe
    BY <1>1 DEF Hear, SubscriptionEnds, Resubscribe, Permitted
  <1>2. CASE StartRound \/ ListMailboxes \/ StartWatchers
    BY <1>2 DEF StartRound, ListMailboxes, StartWatchers
  <1>3. ASSUME NEW m \in Mailboxes, WatcherStep(m) PROVE TypeOK'
    <2>1. CASE Sync(m)
      BY <2>1 DEF Sync
    <2>2. CASE Check(m)
      BY <2>2 DEF Check
    <2>3. CASE OpenIdle(m)
      BY <2>3 DEF OpenIdle
    <2>4. CASE Wake(m)
      BY <2>4 DEF Wake, Woken
    <2>5. CASE Record(m)
      BY <2>5 DEF Record, Recordable
    <2>6. CASE Finish(m)
      BY <2>6 DEF Finish
    <2> QED BY <1>3, <2>1, <2>2, <2>3, <2>4, <2>5, <2>6 DEF WatcherStep
  <1>4. ASSUME NEW m \in Mailboxes, IdleEnds(m) \/ Arrive(m) PROVE TypeOK'
    BY <1>4 DEF IdleEnds, Arrive
  <1>5. ASSUME NEW m \in Mailboxes, Create(m) \/ Enable(m) PROVE TypeOK'
    BY <1>5 DEF Create, Enable
  <1>6. ASSUME NEW m \in Mailboxes, Disable(m) \/ Delete(m) PROVE TypeOK'
    BY <1>6 DEF Disable, Delete
  <1>7. ASSUME NEW m \in Mailboxes, OtherSync(m) PROVE TypeOK'
    BY <1>7 DEF OtherSync
  <1>8. CASE UNCHANGED vars
    BY <1>8 DEF vars
  <1> QED BY <1>1, <1>2, <1>3, <1>4, <1>5, <1>6, <1>7, <1>8 DEF Next

\* Steps that enable no mailbox and leave the rounds alone, or announce.
LEMMA QuietStep ==
  ASSUME TypeOK, TypeOK', ListIsCurrent, UnwatchedIsDue,
         UNCHANGED <<subscription, permit, round, listed, unlisted>>,
         announced => announced',
         \A m \in Mailboxes : status'[m] = "enabled" =>
           status[m] = "enabled" \/ announced' \/ subscription # "held",
         \A m \in Mailboxes : watcher'[m] = "none" => watcher[m] = "none"
  PROVE  ListIsCurrent' /\ UnwatchedIsDue'
  BY DEF ListIsCurrent, UnwatchedIsDue, RoundIsDue

LEMMA StepIInv == IInv /\ [Next]_vars => IInv'
  <1> SUFFICES ASSUME IInv, [Next]_vars PROVE IInv'
    OBVIOUS
  <1>0. TypeOK /\ TypeOK' /\ ListIsCurrent /\ UnwatchedIsDue
    BY StepTypeOK DEF IInv
  <1>1. CASE Hear \/ SubscriptionEnds \/ Resubscribe
    BY <1>0, <1>1
    DEF Hear, SubscriptionEnds, Resubscribe, Permitted, IInv, ListIsCurrent, UnwatchedIsDue,
        RoundIsDue
  <1>2. CASE StartRound
    BY <1>0, <1>2 DEF StartRound, IInv, ListIsCurrent, UnwatchedIsDue, RoundIsDue
  <1>3. CASE ListMailboxes
    BY <1>0, <1>3 DEF ListMailboxes, IInv, ListIsCurrent, UnwatchedIsDue, RoundIsDue
  <1>4. CASE StartWatchers
    <2> SUFFICES ASSUME NEW m \in Mailboxes, status[m] = "enabled", watcher'[m] = "none"
                 PROVE  RoundIsDue'
      BY <1>0, <1>4 DEF StartWatchers, IInv, ListIsCurrent, UnwatchedIsDue
    <2>1. m \notin listed
      BY <1>4 DEF StartWatchers
    <2>2. RoundIsDue
      BY <1>0, <1>4, <2>1 DEF StartWatchers, ListIsCurrent
    <2> QED BY <1>4, <2>2 DEF StartWatchers, RoundIsDue
  <1>5. ASSUME NEW m \in Mailboxes,
               \/ WatcherStep(m) \/ IdleEnds(m) \/ Arrive(m)
               \/ Create(m) \/ Enable(m) \/ Disable(m) \/ Delete(m) \/ OtherSync(m)
        PROVE  IInv'
    <2> DEFINE quiet == UNCHANGED <<subscription, permit, round, listed, unlisted>>
    <2>a. ASSUME Announce PROVE announced => announced'
      BY <2>a DEF Announce
    <2>b. ASSUME ClearFailure(m) PROVE announced => announced'
      BY <2>a, <2>b DEF ClearFailure
    <2>c. ASSUME WatcherStep(m) PROVE quiet /\ (announced => announced')
      BY <2>b, <2>c DEF WatcherStep, Sync, Check, OpenIdle, Wake, Record, Finish, service
    <2>d. ASSUME IdleEnds(m) \/ Arrive(m) PROVE quiet /\ (announced => announced')
      BY <2>d DEF IdleEnds, Arrive, service
    <2>e. ASSUME Create(m) \/ Enable(m) \/ Disable(m) \/ Delete(m)
          PROVE  quiet /\ (announced => announced')
      BY <2>a, <2>e DEF Create, Enable, Disable, Delete
    <2>f. ASSUME OtherSync(m) PROVE quiet /\ (announced => announced')
      BY <2>b, <2>f DEF OtherSync
    <2>1. quiet /\ (announced => announced')
      BY <1>5, <2>c, <2>d, <2>e, <2>f
    <2>2. \A n \in Mailboxes : watcher'[n] = "none" => watcher[n] = "none"
      BY <1>0, <1>5
      DEF TypeOK, WatcherStep, Sync, Check, OpenIdle, Wake, Woken, Record, Finish, IdleEnds,
          Arrive, Create, Enable, Disable, Delete, OtherSync, Goto
    <2>3. \A n \in Mailboxes : status'[n] = "enabled" =>
            status[n] = "enabled" \/ announced' \/ subscription # "held"
      BY <1>0, <1>5
      DEF TypeOK, WatcherStep, Sync, Check, OpenIdle, Wake, Record, Finish, IdleEnds,
          Arrive, Create, Enable, Disable, Delete, OtherSync, Announce
    <2> QED BY <1>0, <2>1, <2>2, <2>3, QuietStep DEF IInv
  <1>6. CASE UNCHANGED vars
    BY <1>0, <1>6
    DEF vars, service, IInv, ListIsCurrent, UnwatchedIsDue, RoundIsDue
  <1> QED BY <1>1, <1>2, <1>3, <1>4, <1>5, <1>6 DEF Next

\* An enabled mailbox not watched yet always has a round coming that will list
\* it, or the service has said why none will be.
THEOREM NoAnnouncementIsLost == Spec => []UnwatchedIsDue
  <1>1. IInv => UnwatchedIsDue
    BY DEF IInv
  <1> QED BY <1>1, InitIInv, StepIInv, PTL DEF Spec

\* Every state the service's watching reaches is of its types, whatever mailboxes
\* and watchers there are.
THEOREM TypeCorrect == Spec => []TypeOK
  <1>1. IInv => TypeOK
    BY DEF IInv
  <1> QED BY <1>1, InitIInv, StepIInv, PTL DEF Spec

-----------------------------------------------------------------------------
(* Watching for messages. *)

\* The numbers of one transaction at a time are not visible yet, and are above
\* every number that is.
OrderStands ==
  /\ \A i \in Imports : Rows(i) # {} => lock = i
  /\ \A i \in Imports : \A m \in Rows(i) :
       /\ order[m] = 0
       /\ \A n \in Messages : order[n] < taken[i][m]
       /\ \A n \in Rows(i) : taken[i][m] = taken[i][n] => m = n

Sorted(c) == \A i, j \in 1 .. Len(got[c]) : i < j => order[got[c][i]] < order[got[c][j]]

Reads(c) == watch[c].pc \in {"read", "hand", "wait"}

\* What a client got comes before what it is being handed, and that before what
\* it will read.
PlaceStands(c) ==
  /\ watch[c].after = 0 \/ \E m \in Messages : order[m] = watch[c].after
  /\ \A m \in Got(c) :
       /\ order[m] # 0 /\ (Reads(c) => order[m] <= watch[c].after)
       /\ \A b \in watch[c].batch : order[m] < order[b]
  /\ \A b \in watch[c].batch : order[b] # 0 /\ order[b] <= watch[c].after

Due(c) == {m \in owed[c] \ removed : watch[c].mailbox \in {All, MailboxOf[m]}}

\* What a client is owed it got, is being handed, or will read from its place;
\* cut off, from the last it got.
NoneMissed(c) ==
  /\ \A m \in owed[c] : order[m] # 0
  /\ Reads(c) => \A m \in Due(c) : m \in Got(c) \/ m \in watch[c].batch \/ order[m] > watch[c].after
  /\ got[c] # <<>> => \A m \in Due(c) : m \in Got(c) \/ order[m] > order[LastGot(c)]
  /\ watch[c].pc = "wait" /\ ~heard[c] => StoredAfter(watch[c].mailbox, watch[c].after) = {}

WatchIInv ==
  /\ WatchTypeOK /\ OrderStands
  /\ \A c \in Clients : Sorted(c) /\ PlaceStands(c) /\ NoneMissed(c)

\* The highest number there is, wherever numbers are bounded.
LEMMA SomeNewest ==
  ASSUME WatchTypeOK, NEW M \in SUBSET Messages, M # {}
  PROVE  Newest(M) # {}
  <1> DEFINE R == {ss \in Nat \X Nat : ss[1] < ss[2]}
             B == {sequence - order[m] : m \in M}
  <1>1. IsWellFoundedOn(R, Nat)
    BY NatLessThanWellFounded DEF OpToRel
  <1>2. \A m \in M : order[m] \in 0 .. sequence /\ sequence \in Nat
    BY DEF WatchTypeOK
  <1>3. B \in SUBSET Nat /\ B # {}
    BY <1>2
  <1> HIDE DEF R, B
  <1>4. PICK x \in B : \A y \in B : ~(<<y, x>> \in R)
    BY <1>1, <1>3, WFMin
  <1>5. \A y \in B : ~(y < x)
    BY <1>3, <1>4 DEF R
  <1>6. PICK m \in M : x = sequence - order[m]
    BY <1>4 DEF B
  <1>7. \A n \in M : sequence - order[n] \in B
    BY DEF B
  <1>8. \A n \in M : order[n] <= order[m]
    BY <1>2, <1>5, <1>6, <1>7
  <1> QED BY <1>8 DEF Newest

LEMMA LastStoredIs ==
  ASSUME WatchTypeOK
  PROVE  LastStored = 0 \/ \E m \in Messages : order[m] = LastStored
  <1>1. CASE StoredMessages # {}
    <2>1. Newest(StoredMessages) # {} /\ Newest(StoredMessages) \subseteq Messages
      BY <1>1, SomeNewest DEF StoredMessages, Newest
    <2> QED BY <1>1, <2>1 DEF LastStored
  <1> QED BY <1>1 DEF LastStored

LEMMA InitWatchIInv == WatchInit => WatchIInv
  <1> SUFFICES ASSUME WatchInit PROVE WatchIInv
    OBVIOUS
  <1>1. WatchTypeOK
    BY MessageWatchAssumption DEF WatchInit, WatchTypeOK, Watches, NoWatch, removed
  <1>2. OrderStands
    BY DEF WatchInit, OrderStands, Rows
  <1>3. ASSUME NEW c \in Clients PROVE Sorted(c) /\ PlaceStands(c) /\ NoneMissed(c)
    BY <1>3 DEF WatchInit, Sorted, PlaceStands, NoneMissed, NoWatch, Reads, Got, Due
  <1> QED BY <1>1, <1>2, <1>3 DEF WatchIInv

-----------------------------------------------------------------------------
(* Imports. *)

LEMMA InsertTypes ==
  ASSUME WatchTypeOK, OrderStands, NEW i \in Imports, NEW m \in Messages, Insert(i, m)
  PROVE  WatchTypeOK' /\ OrderStands'
  <1>1. sequence \in Nat /\ sequence' = sequence + 1 /\ order \in [Messages -> 0 .. sequence]
        /\ taken \in [Imports -> [Messages -> 0 .. sequence]]
    BY DEF WatchTypeOK, Insert, NextNumber
  <1>2. taken' = [taken EXCEPT ![i][m] = sequence + 1] /\ UNCHANGED <<order, deleted, watch, got, heard, faults, owed>>
        /\ m \notin removed /\ order[m] = 0 /\ lock' = i /\ lock \in {NoImport, i}
    BY DEF Insert, NextNumber, Handed, Unstored, Orderable
  <1>3. /\ \A n \in Messages : order[n] \in Nat /\ order[n] <= sequence
        /\ \A j \in Imports, n \in Messages : taken[j][n] \in Nat /\ taken[j][n] <= sequence
    BY <1>1
  <1>4. \A j \in Imports, n \in Messages :
          taken'[j][n] = IF j = i /\ n = m THEN sequence + 1 ELSE taken[j][n]
    BY <1>1, <1>2
  <1>5. taken' \in [Imports -> [Messages -> 0 .. sequence']] /\ order' \in [Messages -> 0 .. sequence']
    <2>1. 0 .. sequence \subseteq 0 .. sequence' /\ sequence + 1 \in 0 .. sequence'
      BY <1>1
    <2> QED BY <1>1, <1>2, <2>1
  <1>6. \A j \in Imports, n \in removed' : taken'[j][n] = 0
    BY <1>2, <1>4 DEF WatchTypeOK, removed
  <1>7. \A c \in Clients : watch'[c].after <= sequence' /\ (watch'[c].pc = "hand" <=> watch'[c].batch # {})
    BY <1>1, <1>2 DEF WatchTypeOK, Watches
  <1>8. WatchTypeOK'
    BY <1>1, <1>2, <1>5, <1>6, <1>7 DEF WatchTypeOK
  <1>9. \A j \in Imports : j # i => Rows(j) = {}
    BY <1>2, MessageWatchAssumption DEF OrderStands
  <1>10. OrderStands'
    <2>1. \A j \in Imports : Rows(j)' # {} => lock' = j
      BY <1>2, <1>4, <1>9 DEF Rows
    <2>2. ASSUME NEW j \in Imports, NEW n \in Rows(j)'
          PROVE  /\ order'[n] = 0
                 /\ \A k \in Messages : order'[k] < taken'[j][n]
                 /\ \A k \in Rows(j)' : taken'[j][n] = taken'[j][k] => n = k
      <3>1. j = i /\ n \in Messages /\ (n = m \/ n \in Rows(i))
        BY <1>2, <1>4, <1>9, <2>2 DEF Rows
      <3>2. \A k \in Messages : order'[k] < taken'[j][n]
        BY <1>1, <1>2, <1>3, <1>4, <3>1 DEF OrderStands
      <3>3. \A k \in Rows(j)' : taken'[j][n] = taken'[j][k] => n = k
        BY <1>1, <1>2, <1>3, <1>4, <3>1 DEF OrderStands, Rows
      <3> QED BY <1>2, <3>1, <3>2, <3>3 DEF OrderStands
    <2> QED BY <2>1, <2>2 DEF OrderStands
  <1> QED BY <1>8, <1>10

\* An import ends with its numbers taken into the order, or with none.
LEMMA EndTypes ==
  ASSUME WatchTypeOK, OrderStands, NEW i \in Imports, Commit(i) \/ Rollback(i)
  PROVE  WatchTypeOK' /\ OrderStands'
  <1>1. /\ sequence \in Nat /\ sequence' = sequence /\ order \in [Messages -> 0 .. sequence]
        /\ taken \in [Imports -> [Messages -> 0 .. sequence]]
        /\ UNCHANGED <<deleted, watch, got>> /\ Rows(i) # {} /\ lock = i
    BY DEF WatchTypeOK, Commit, Rollback, Handed, OrderStands
  <1>2. taken' = [taken EXCEPT ![i] = [m \in Messages |-> 0]] /\ lock' = NoImport
    BY <1>1 DEF Commit, Rollback, Release
  <1>3. \A j \in Imports : j # i => Rows(j) = {}
    BY <1>1 DEF OrderStands
  <1>4. \A j \in Imports, m \in Messages : taken'[j][m] = 0
    BY <1>1, <1>2, <1>3 DEF Rows
  <1>5. taken' \in [Imports -> [Messages -> 0 .. sequence']] /\ OrderStands'
    BY <1>1, <1>2, <1>4 DEF OrderStands, Rows
  <1>6. /\ order' \in [Messages -> 0 .. sequence']
        /\ \A m, n \in Messages : order'[m] = order'[n] /\ order'[m] # 0 => m = n
    <2>1. CASE UNCHANGED order
      BY <1>1, <2>1 DEF WatchTypeOK
    <2>2. CASE order' = [m \in Messages |-> IF m \in Rows(i) THEN taken[i][m] ELSE order[m]]
      <3>1. \A m \in Rows(i) : \A n \in Messages : order[n] < taken[i][m]
        BY DEF OrderStands
      <3>2. \A m, n \in Rows(i) : taken[i][m] = taken[i][n] => m = n
        BY DEF OrderStands
      <3>3. \A m \in Messages : order[m] \in Nat /\ taken[i][m] \in Nat
        BY <1>1
      <3> QED BY <1>1, <2>2, <3>1, <3>2, <3>3 DEF WatchTypeOK
    <2> QED BY <2>1, <2>2 DEF Commit, Rollback
  <1>7. heard' \in [Clients -> BOOLEAN] /\ owed' \in [Clients -> SUBSET Messages] /\ faults' \in 0 .. MaxFaults
    <2>1. \A c \in Clients : (heard[c] \/ watch[c].pc # "off") \in BOOLEAN
      OBVIOUS
    <2>2. heard' \in [Clients -> BOOLEAN]
      BY <2>1 DEF Commit, Rollback, WatchTypeOK
    <2>3. owed' \in [Clients -> SUBSET Messages]
      BY DEF Commit, Rollback, WatchTypeOK, Rows
    <2>4. faults' \in 0 .. MaxFaults
      BY MessageWatchAssumption DEF Commit, Rollback, Fault, WatchTypeOK
    <2> QED BY <2>2, <2>3, <2>4
  <1>8. \A j \in Imports, n \in removed' : taken'[j][n] = 0
    BY <1>4 DEF removed
  <1> QED BY <1>1, <1>2, <1>5, <1>6, <1>7, <1>8 DEF WatchTypeOK

LEMMA DeleteTypes ==
  ASSUME WatchTypeOK, OrderStands, NEW b \in Inboxes, DeleteMailbox(b)
  PROVE  WatchTypeOK' /\ OrderStands'
  <1>1. UNCHANGED <<sequence, lock, taken, order, watch, got, heard, faults, owed>>
        /\ deleted' = deleted \cup {b}
        /\ \A i \in Imports : \A m \in Rows(i) : MailboxOf[m] # b
    BY DEF DeleteMailbox, Handed
  <1>2. \A i \in Imports, n \in removed' : taken'[i][n] = 0
    BY <1>1 DEF removed, Rows, WatchTypeOK
  <1> QED BY <1>1, <1>2 DEF WatchTypeOK, OrderStands, Rows

\* What imports and deletions do to what clients read: numbers stay, new ones are
\* above all others, and who is listening has something to hear.
LEMMA StoringSteps ==
  ASSUME WatchTypeOK, OrderStands,
         \/ \E i \in Imports : ImportStep(i)
         \/ \E b \in Inboxes : DeleteMailbox(b)
  PROVE  /\ WatchTypeOK' /\ OrderStands'
         /\ UNCHANGED <<watch, got>>
         /\ removed \subseteq removed'
         /\ \A m \in Messages : order[m] # 0 => order'[m] = order[m]
         /\ \A m, n \in Messages : order[m] = 0 /\ order'[m] # 0 => order[n] < order'[m]
         /\ \A c \in Clients :
              /\ owed[c] \subseteq owed'[c]
              /\ \A m \in owed'[c] \ owed[c] : order[m] = 0 /\ order'[m] # 0
              /\ heard[c] => heard'[c]
              /\ watch[c].pc # "off" /\ ~heard'[c] => UNCHANGED order
  <1>0. owed \in [Clients -> SUBSET Messages] /\ heard \in [Clients -> BOOLEAN]
        /\ order \in [Messages -> 0 .. sequence]
    BY DEF WatchTypeOK
  <1>1. ASSUME NEW i \in Imports, NEW m \in Messages, Insert(i, m)
        PROVE  UNCHANGED <<watch, got, order, deleted, owed, heard>>
    BY <1>1 DEF Insert, Handed
  <1>2. ASSUME NEW i \in Imports, Rollback(i) PROVE UNCHANGED <<watch, got, order, deleted, owed, heard>>
    BY <1>2 DEF Rollback, Handed
  <1>3. ASSUME NEW b \in Inboxes, DeleteMailbox(b)
        PROVE  UNCHANGED <<watch, got, order, owed, heard>> /\ removed \subseteq removed'
    BY <1>3 DEF DeleteMailbox, Handed, removed
  <1>4. ASSUME NEW i \in Imports, Commit(i)
        PROVE  /\ UNCHANGED <<watch, got>> /\ removed \subseteq removed'
               /\ \A m \in Messages : order[m] # 0 => order'[m] = order[m]
               /\ \A m, n \in Messages : order[m] = 0 /\ order'[m] # 0 => order[n] < order'[m]
               /\ \A c \in Clients :
                    /\ owed[c] \subseteq owed'[c]
                    /\ \A m \in owed'[c] \ owed[c] : order[m] = 0 /\ order'[m] # 0
                    /\ heard[c] => heard'[c]
                    /\ watch[c].pc # "off" /\ ~heard'[c] => UNCHANGED order
    <2>1. /\ order' = [m \in Messages |-> IF m \in Rows(i) THEN taken[i][m] ELSE order[m]]
          /\ heard' = [c \in Clients |-> heard[c] \/ watch[c].pc # "off"]
          /\ owed' = [c \in Clients |-> owed[c] \cup Rows(i)]
          /\ UNCHANGED <<watch, got, deleted>>
      BY <1>4 DEF Commit, Handed
    <2>2. \A m \in Rows(i) : m \in Messages /\ order[m] = 0 /\ taken[i][m] # 0
                             /\ \A n \in Messages : order[n] < taken[i][m]
      BY DEF OrderStands, Rows
    <2>3. \A m \in Messages : order'[m] = IF m \in Rows(i) THEN taken[i][m] ELSE order[m]
      BY <2>1
    <2>4. \A c \in Clients : (heard[c] => heard'[c]) /\ (watch[c].pc # "off" => heard'[c])
      BY <2>1
    <2>5. \A c \in Clients : owed'[c] = owed[c] \cup Rows(i)
      BY <2>1
    <2> QED BY <2>1, <2>2, <2>3, <2>4, <2>5 DEF removed
  <1>5. WatchTypeOK' /\ OrderStands'
    BY InsertTypes, EndTypes, DeleteTypes DEF ImportStep
  <1>6. CASE UNCHANGED <<watch, got, order, owed, heard>> /\ removed \subseteq removed'
    BY <1>0, <1>5, <1>6
  <1> QED BY <1>1, <1>2, <1>3, <1>4, <1>5, <1>6 DEF ImportStep, removed

\* A client none of whose own steps is taken stays in place, and what is stored
\* meanwhile is ahead of it.
LEMMA ClientStandsStill ==
  ASSUME WatchTypeOK, OrderStands, NEW c \in Clients, Sorted(c), PlaceStands(c), NoneMissed(c),
         WatchTypeOK', watch'[c] = watch[c], got'[c] = got[c],
         removed \subseteq removed',
         \A m \in Messages : order[m] # 0 => order'[m] = order[m],
         \A m, n \in Messages : order[m] = 0 /\ order'[m] # 0 => order[n] < order'[m],
         owed[c] \subseteq owed'[c],
         \A m \in owed'[c] \ owed[c] : order[m] = 0 /\ order'[m] # 0,
         heard[c] => heard'[c],
         watch[c].pc # "off" /\ ~heard'[c] => UNCHANGED order
  PROVE  Sorted(c)' /\ PlaceStands(c)' /\ NoneMissed(c)'
  <1>1. /\ got[c] \in Seq(Messages) /\ got'[c] = got[c] /\ Got(c)' = Got(c) /\ Got(c) \subseteq Messages
        /\ watch[c].batch \subseteq Messages /\ owed[c] \subseteq Messages /\ owed'[c] \subseteq Messages
        /\ \A m \in Messages : order[m] \in Nat /\ order'[m] \in Nat
        /\ watch[c].after \in Nat
    <2>1. got[c] \in Seq(Messages)
      BY DEF WatchTypeOK
    <2>2. Got(c) \subseteq Messages /\ Got(c)' = Got(c)
      BY <2>1 DEF Got
    <2>3. \A m \in Messages : order[m] \in Nat /\ order'[m] \in Nat
      BY DEF WatchTypeOK
    <2>4. watch[c].batch \subseteq Messages /\ watch[c].after \in Nat
      BY DEF WatchTypeOK, Watches
    <2>5. owed[c] \subseteq Messages /\ owed'[c] \subseteq Messages
      BY DEF WatchTypeOK
    <2> QED BY <2>1, <2>2, <2>3, <2>4, <2>5
  <1>2. \A m \in Got(c) \cup watch[c].batch \cup owed[c] : order'[m] = order[m] /\ order[m] # 0
    BY <1>1 DEF PlaceStands, NoneMissed
  <1>3. \A i \in 1 .. Len(got[c]) : got[c][i] \in Got(c)
    BY DEF Got
  <1>4. Sorted(c)'
    BY <1>1, <1>2, <1>3 DEF Sorted
  <1>5. watch'[c].after = 0 \/ \E m \in Messages : order'[m] = watch'[c].after
    BY <1>1 DEF PlaceStands
  <1>6. PlaceStands(c)'
    BY <1>1, <1>2, <1>5 DEF PlaceStands, Reads
  <1>7. \A m \in owed'[c] \ owed[c] : order'[m] > watch[c].after
    BY <1>1 DEF PlaceStands
  <1>8. got[c] # <<>> => LastGot(c) \in Got(c) /\ LastGot(c)' = LastGot(c)
    BY <1>1 DEF LastGot, Got
  <1>9. \A m \in Due(c)' : m \in Due(c) \/ m \in owed'[c] \ owed[c]
    BY DEF Due
  <1>10. ASSUME Reads(c)', NEW m \in Due(c)'
         PROVE  m \in Got(c) \/ m \in watch[c].batch \/ order'[m] > watch[c].after
    <2>1. CASE m \in Due(c)
      BY <1>1, <1>2, <1>10, <2>1 DEF NoneMissed, Reads, Due
    <2> QED BY <1>7, <1>9, <1>10, <2>1
  <1>11. ASSUME got[c] # <<>>, NEW m \in Due(c)'
         PROVE  m \in Got(c) \/ order'[m] > order'[LastGot(c)]
    <2>1. CASE m \in Due(c)
      BY <1>1, <1>2, <1>8, <1>11, <2>1 DEF NoneMissed, Due
    <2>2. CASE m \in owed'[c] \ owed[c]
      BY <1>1, <1>2, <1>8, <1>11, <2>2
    <2> QED BY <1>9, <1>11, <2>1, <2>2
  <1>12. ASSUME watch'[c].pc = "wait", ~heard'[c]
         PROVE  StoredAfter(watch[c].mailbox, watch[c].after)' = {}
    <2>1. UNCHANGED order /\ ~heard[c] /\ StoredAfter(watch[c].mailbox, watch[c].after) = {}
      BY <1>12 DEF NoneMissed
    <2> QED BY <2>1 DEF StoredAfter, StoredMessages
  <1>13. \A m \in owed'[c] : order'[m] # 0
    BY <1>2
  <1> QED BY <1>1, <1>4, <1>6, <1>8, <1>10, <1>11, <1>12, <1>13 DEF NoneMissed, Reads

-----------------------------------------------------------------------------
(* One client's watch. *)

\* What the steps of a watch read, of a client c.
ClientIs(c) ==
  /\ got[c] \in Seq(Messages) /\ Got(c) \subseteq Messages /\ owed[c] \subseteq Messages
  /\ watch[c] \in Watches /\ watch[c].batch \subseteq Messages /\ watch[c].after \in Nat
  /\ got[c] # <<>> => LastGot(c) \in Got(c) /\ \A m \in Got(c) : order[m] <= order[LastGot(c)]
  /\ got[c] = <<>> => Got(c) = {}
  /\ \A m \in Messages : order[m] \in Nat

LEMMA ClientReads ==
  ASSUME WatchTypeOK, NEW c \in Clients, Sorted(c)
  PROVE  ClientIs(c)
  <1>1. got[c] \in Seq(Messages) /\ owed[c] \subseteq Messages /\ watch[c] \in Watches
        /\ \A m \in Messages : order[m] \in Nat
    BY DEF WatchTypeOK
  <1>2. Got(c) \subseteq Messages
    BY <1>1 DEF Got
  <1>3. got[c] = <<>> => Got(c) = {}
    BY <1>1 DEF Got
  <1>4. ASSUME got[c] # <<>>
        PROVE  LastGot(c) \in Got(c) /\ \A m \in Got(c) : order[m] <= order[LastGot(c)]
    <2>1. Len(got[c]) \in 1 .. Len(got[c])
      BY <1>1, <1>4
    <2>2. LastGot(c) \in Got(c)
      BY <2>1 DEF LastGot, Got
    <2>3. ASSUME NEW m \in Got(c) PROVE order[m] <= order[LastGot(c)]
      <3>1. PICK j \in 1 .. Len(got[c]) : m = got[c][j]
        BY DEF Got
      <3>2. j = Len(got[c]) \/ j < Len(got[c])
        BY <1>1, <3>1
      <3> QED BY <1>1, <1>2, <2>1, <2>2, <3>1, <3>2 DEF Sorted, LastGot
    <2> QED BY <2>2, <2>3
  <1> QED BY <1>1, <1>2, <1>3, <1>4 DEF ClientIs, Watches

\* A client's watch is left at a place, and nobody else's changed.
Left(c, place, mailbox, after, batch) ==
  /\ watch' \in [Clients -> Watches] /\ \A d \in Clients : d # c => watch'[d] = watch[d]
  /\ watch'[c].pc = place /\ watch'[c].mailbox = mailbox
  /\ watch'[c].after = after /\ watch'[c].batch = batch

LEMMA Leaves ==
  ASSUME WatchTypeOK, NEW c \in Clients, NEW place \in {"off", "start", "read", "hand", "wait"},
         NEW mailbox \in Inboxes \cup {All}, NEW after \in Nat, NEW batch \in SUBSET Messages
  PROVE  /\ watch' = [watch EXCEPT ![c].pc = place] =>
              Left(c, place, watch[c].mailbox, watch[c].after, watch[c].batch)
         /\ watch' = [watch EXCEPT ![c].pc = place, ![c].mailbox = mailbox] =>
              Left(c, place, mailbox, watch[c].after, watch[c].batch)
         /\ watch' = [watch EXCEPT ![c].pc = place, ![c].after = after] =>
              Left(c, place, watch[c].mailbox, after, watch[c].batch)
         /\ watch' = [watch EXCEPT ![c].pc = place, ![c].batch = batch, ![c].after = after] =>
              Left(c, place, watch[c].mailbox, after, batch)
         /\ watch' = [watch EXCEPT ![c].batch = batch, ![c].pc = place] =>
              Left(c, place, watch[c].mailbox, watch[c].after, batch)
         /\ watch' = [watch EXCEPT ![c] = [NoWatch EXCEPT !.mailbox = watch[c].mailbox]] =>
              Left(c, "off", watch[c].mailbox, 0, {})
  <1>1. watch \in [Clients -> Watches] /\ watch[c] \in Watches
    BY DEF WatchTypeOK
  <1>3. ASSUME watch' = [watch EXCEPT ![c].pc = place]
        PROVE  Left(c, place, watch[c].mailbox, watch[c].after, watch[c].batch)
    BY <1>1, <1>3 DEF Left, Watches
  <1>4. ASSUME watch' = [watch EXCEPT ![c].pc = place, ![c].mailbox = mailbox]
        PROVE  Left(c, place, mailbox, watch[c].after, watch[c].batch)
    BY <1>1, <1>4 DEF Left, Watches
  <1>5. ASSUME watch' = [watch EXCEPT ![c].pc = place, ![c].after = after]
        PROVE  Left(c, place, watch[c].mailbox, after, watch[c].batch)
    BY <1>1, <1>5 DEF Left, Watches
  <1>6. ASSUME watch' = [watch EXCEPT ![c].pc = place, ![c].batch = batch, ![c].after = after]
        PROVE  Left(c, place, watch[c].mailbox, after, batch)
    BY <1>1, <1>6 DEF Left, Watches
  <1>7. ASSUME watch' = [watch EXCEPT ![c].batch = batch, ![c].pc = place]
        PROVE  Left(c, place, watch[c].mailbox, watch[c].after, batch)
    BY <1>1, <1>7 DEF Left, Watches
  <1>8. ASSUME watch' = [watch EXCEPT ![c] = [NoWatch EXCEPT !.mailbox = watch[c].mailbox]]
        PROVE  Left(c, "off", watch[c].mailbox, 0, {})
    BY <1>1, <1>8 DEF Left, Watches, NoWatch
  <1> QED BY <1>3, <1>4, <1>5, <1>6, <1>7, <1>8

LEMMA NewestIs ==
  ASSUME WatchTypeOK, NEW mailbox, NEW after \in Nat, NEW m \in Newest(StoredAfter(mailbox, after))
  PROVE  m \in StoredAfter(mailbox, after) /\ m \in Messages /\ order[m] \in Nat /\ order[m] <= sequence
         /\ order[m] > after /\ StoredAfter(mailbox, after) \in SUBSET Messages
  BY DEF Newest, StoredAfter, StoredMessages, WatchTypeOK

\* Where each step of a watch leaves it.
LEMMA WatchMoves ==
  ASSUME WatchTypeOK, NEW c \in Clients, ClientIs(c)
  PROVE  /\ Subscribe(c) => \E mailbox \in Inboxes \cup {All} :
              /\ Left(c, "start", mailbox, watch[c].after, watch[c].batch)
              /\ got[c] = <<>> \/ mailbox = watch[c].mailbox
         /\ Start(c) => \E after \in 0 .. sequence :
              /\ Left(c, "read", watch[c].mailbox, after, watch[c].batch)
              /\ \/ got[c] = <<>> /\ after = LastStored
                 \/ got[c] # <<>> /\ after = order[LastGot(c)]
         /\ Read(c) =>
              \/ /\ StoredAfter(watch[c].mailbox, watch[c].after) = {}
                 /\ Left(c, "wait", watch[c].mailbox, watch[c].after, watch[c].batch)
              \/ \E m \in Newest(StoredAfter(watch[c].mailbox, watch[c].after)) :
                   Left(c, "hand", watch[c].mailbox, order[m], StoredAfter(watch[c].mailbox, watch[c].after))
         /\ Hand(c) => \E m \in Oldest(watch[c].batch) :
              /\ Left(c, IF watch[c].batch = {m} THEN "read" ELSE "hand",
                      watch[c].mailbox, watch[c].after, watch[c].batch \ {m})
              /\ got' = [got EXCEPT ![c] = IF m \in removed THEN got[c] ELSE Append(got[c], m)]
         /\ HearReceived(c) => Left(c, "read", watch[c].mailbox, watch[c].after, watch[c].batch)
         /\ CutOff(c) => Left(c, "off", watch[c].mailbox, 0, {})
  <1>0. /\ watch[c].mailbox \in Inboxes \cup {All} /\ watch[c].after \in Nat /\ watch[c].batch \in SUBSET Messages
        /\ \A m \in Messages : order[m] \in 0 .. sequence
        /\ sequence \in Nat
    BY DEF ClientIs, Watches, WatchTypeOK
  <1>1. ASSUME Subscribe(c)
        PROVE  \E mailbox \in Inboxes \cup {All} :
                 /\ Left(c, "start", mailbox, watch[c].after, watch[c].batch)
                 /\ got[c] = <<>> \/ mailbox = watch[c].mailbox
    <2>1. PICK mailbox \in Inboxes \cup {All} :
            /\ watch' = [watch EXCEPT ![c].pc = "start", ![c].mailbox = mailbox]
            /\ got[c] = <<>> \/ mailbox = watch[c].mailbox
      BY <1>0, <1>1 DEF Subscribe
    <2> QED BY <1>0, <2>1, Leaves
  <1>2. ASSUME Start(c)
        PROVE  \E after \in 0 .. sequence :
                 /\ Left(c, "read", watch[c].mailbox, after, watch[c].batch)
                 /\ \/ got[c] = <<>> /\ after = LastStored
                    \/ got[c] # <<>> /\ after = order[LastGot(c)]
    <2>1. LastStored \in 0 .. sequence
      BY <1>0, LastStoredIs
    <2>2. got[c] # <<>> => order[LastGot(c)] \in 0 .. sequence
      BY <1>0 DEF ClientIs
    <2>3. PICK after \in 0 .. sequence :
            /\ watch' = [watch EXCEPT ![c].pc = "read", ![c].after = after]
            /\ \/ got[c] = <<>> /\ after = LastStored
               \/ got[c] # <<>> /\ after = order[LastGot(c)]
      BY <1>2, <2>1, <2>2 DEF Start
    <2>4. after \in Nat
      BY <1>0
    <2>5. Left(c, "read", watch[c].mailbox, after, watch[c].batch)
      BY <1>0, <2>3, <2>4, Leaves
    <2> QED BY <2>3, <2>5
  <1>3. ASSUME Read(c)
        PROVE  \/ /\ StoredAfter(watch[c].mailbox, watch[c].after) = {}
                  /\ Left(c, "wait", watch[c].mailbox, watch[c].after, watch[c].batch)
               \/ \E m \in Newest(StoredAfter(watch[c].mailbox, watch[c].after)) :
                    Left(c, "hand", watch[c].mailbox, order[m], StoredAfter(watch[c].mailbox, watch[c].after))
    <2>1. CASE /\ StoredAfter(watch[c].mailbox, watch[c].after) = {}
               /\ watch' = [watch EXCEPT ![c].pc = "wait"]
      BY <1>0, <2>1, Leaves
    <2>2. ASSUME NEW m \in Newest(StoredAfter(watch[c].mailbox, watch[c].after)),
                 watch' = [watch EXCEPT ![c].pc = "hand",
                             ![c].batch = StoredAfter(watch[c].mailbox, watch[c].after), ![c].after = order[m]]
          PROVE  Left(c, "hand", watch[c].mailbox, order[m], StoredAfter(watch[c].mailbox, watch[c].after))
      BY <1>0, <2>2, NewestIs, Leaves
    <2> QED BY <1>3, <2>1, <2>2 DEF Read
  <1>4. ASSUME Hand(c)
        PROVE  \E m \in Oldest(watch[c].batch) :
                 /\ Left(c, IF watch[c].batch = {m} THEN "read" ELSE "hand",
                         watch[c].mailbox, watch[c].after, watch[c].batch \ {m})
                 /\ got' = [got EXCEPT ![c] = IF m \in removed THEN got[c] ELSE Append(got[c], m)]
    <2>1. PICK m \in Oldest(watch[c].batch) :
            /\ got' = [got EXCEPT ![c] = IF m \in removed THEN got[c] ELSE Append(got[c], m)]
            /\ watch' = [watch EXCEPT ![c].batch = watch[c].batch \ {m},
                                      ![c].pc = IF watch[c].batch = {m} THEN "read" ELSE "hand"]
      BY <1>4 DEF Hand
    <2>2. /\ (IF watch[c].batch = {m} THEN "read" ELSE "hand") \in {"off", "start", "read", "hand", "wait"}
          /\ watch[c].batch \ {m} \in SUBSET Messages
      BY <1>0
    <2>3. Left(c, IF watch[c].batch = {m} THEN "read" ELSE "hand",
               watch[c].mailbox, watch[c].after, watch[c].batch \ {m})
      BY <1>0, <2>1, <2>2, Leaves
    <2> QED BY <2>1, <2>3
  <1>5. ASSUME HearReceived(c)
        PROVE  Left(c, "read", watch[c].mailbox, watch[c].after, watch[c].batch)
    BY <1>0, <1>5, Leaves DEF HearReceived
  <1>6. ASSUME CutOff(c) PROVE Left(c, "off", watch[c].mailbox, 0, {})
    BY <1>0, <1>6, Leaves DEF CutOff
  <1> QED BY <1>1, <1>2, <1>3, <1>4, <1>5, <1>6

\* What is stored stays as it is while a client takes a step.
Stays == UNCHANGED <<sequence, lock, taken, order, deleted>>

LEMMA WatchTypes ==
  ASSUME WatchIInv, NEW c \in Clients, WatchStep(c)
  PROVE  /\ WatchTypeOK' /\ OrderStands' /\ Stays /\ removed' = removed
         /\ \A d \in Clients : d # c =>
              watch'[d] = watch[d] /\ got'[d] = got[d] /\ heard'[d] = heard[d] /\ owed'[d] = owed[d]
  <1>0. /\ WatchTypeOK /\ OrderStands /\ Sorted(c) /\ PlaceStands(c) /\ ClientIs(c)
        /\ watch \in [Clients -> Watches] /\ got \in [Clients -> Seq(Messages)]
        /\ heard \in [Clients -> BOOLEAN] /\ owed \in [Clients -> SUBSET Messages]
        /\ sequence \in Nat /\ watch[c].after \in Nat /\ watch[c].after <= sequence
        /\ (watch[c].pc = "hand" <=> watch[c].batch # {})
    BY ClientReads DEF WatchIInv, WatchTypeOK, ClientIs
  <1>1. Stays /\ removed' = removed
    BY DEF WatchStep, Subscribe, Start, Read, Hand, HearReceived, CutOff, Storing, Stays, removed
  <1>2. faults' \in 0 .. MaxFaults
    BY <1>0, MessageWatchAssumption
    DEF WatchStep, Subscribe, Start, Read, Hand, HearReceived, CutOff, Fault, WatchTypeOK
  <1>3. heard' \in [Clients -> BOOLEAN] /\ \A d \in Clients : d # c => heard'[d] = heard[d]
    BY <1>0 DEF WatchStep, Subscribe, Start, Read, Hand, HearReceived, CutOff
  <1>4. owed' \in [Clients -> SUBSET Messages] /\ \A d \in Clients : d # c => owed'[d] = owed[d]
    BY <1>0 DEF WatchStep, Subscribe, Start, Read, Hand, HearReceived, CutOff
  <1>5. got' \in [Clients -> Seq(Messages)] /\ \A d \in Clients : d # c => got'[d] = got[d]
    <2>1. CASE Hand(c)
      <3>1. PICK m \in Oldest(watch[c].batch) :
              got' = [got EXCEPT ![c] = IF m \in removed THEN got[c] ELSE Append(got[c], m)]
        BY <2>1 DEF Hand
      <3>2. m \in Messages /\ got[c] \in Seq(Messages)
        BY <1>0, <3>1 DEF Oldest, ClientIs
      <3>3. (IF m \in removed THEN got[c] ELSE Append(got[c], m)) \in Seq(Messages)
        BY <3>2
      <3> QED BY <1>0, <3>1, <3>3
    <2>2. CASE got' = got
      BY <1>0, <2>2
    <2> QED BY <2>1, <2>2 DEF WatchStep, Subscribe, Start, Read, HearReceived, CutOff
  <1>6. /\ watch' \in [Clients -> Watches] /\ \A d \in Clients : d # c => watch'[d] = watch[d]
        /\ watch'[c].after <= sequence /\ (watch'[c].pc = "hand" <=> watch'[c].batch # {})
    <2>1. \E place, mailbox, after, batch :
            /\ Left(c, place, mailbox, after, batch)
            /\ after <= sequence /\ (place = "hand" <=> batch # {})
      <3>1. CASE Subscribe(c)
        <4>1. PICK mailbox : Left(c, "start", mailbox, watch[c].after, watch[c].batch)
          BY <1>0, <3>1, WatchMoves
        <4>2. watch[c].batch = {}
          BY <1>0, <3>1 DEF Subscribe
        <4> QED BY <1>0, <4>1, <4>2
      <3>2. CASE Start(c)
        <4>1. PICK after \in 0 .. sequence : Left(c, "read", watch[c].mailbox, after, watch[c].batch)
          BY <1>0, <3>2, WatchMoves
        <4>2. watch[c].batch = {} /\ after <= sequence
          BY <1>0, <3>2 DEF Start
        <4> QED BY <4>1, <4>2
      <3>3. CASE Read(c)
        <4>1. CASE Left(c, "wait", watch[c].mailbox, watch[c].after, watch[c].batch)
          <5>1. watch[c].batch = {}
            BY <1>0, <3>3 DEF Read
          <5> QED BY <1>0, <4>1, <5>1
        <4>2. ASSUME NEW m \in Newest(StoredAfter(watch[c].mailbox, watch[c].after)),
                     Left(c, "hand", watch[c].mailbox, order[m], StoredAfter(watch[c].mailbox, watch[c].after))
              PROVE  \E place, mailbox, after, batch :
                       /\ Left(c, place, mailbox, after, batch)
                       /\ after <= sequence /\ (place = "hand" <=> batch # {})
          <5>1. /\ order[m] <= sequence
                /\ StoredAfter(watch[c].mailbox, watch[c].after) # {}
            BY <1>0, NewestIs
          <5> QED BY <4>2, <5>1
        <4> QED BY <1>0, <3>3, <4>1, <4>2, WatchMoves
      <3>4. CASE Hand(c)
        <4>1. PICK m \in Oldest(watch[c].batch) :
                Left(c, IF watch[c].batch = {m} THEN "read" ELSE "hand",
                     watch[c].mailbox, watch[c].after, watch[c].batch \ {m})
          BY <1>0, <3>4, WatchMoves
        <4>2. (IF watch[c].batch = {m} THEN "read" ELSE "hand") = "hand" <=> watch[c].batch \ {m} # {}
          BY DEF Oldest
        <4> QED BY <1>0, <4>1, <4>2
      <3>5. CASE HearReceived(c)
        <4>1. Left(c, "read", watch[c].mailbox, watch[c].after, watch[c].batch)
          BY <1>0, <3>5, WatchMoves
        <4>2. watch[c].batch = {}
          BY <1>0, <3>5 DEF HearReceived
        <4> QED BY <1>0, <4>1, <4>2
      <3>6. CASE CutOff(c)
        <4>1. Left(c, "off", watch[c].mailbox, 0, {})
          BY <1>0, <3>6, WatchMoves
        <4> QED BY <1>0, <4>1
      <3> QED BY <3>1, <3>2, <3>3, <3>4, <3>5, <3>6 DEF WatchStep
    <2> QED BY <2>1 DEF Left
  <1>7. \A d \in Clients : watch'[d].after <= sequence /\ (watch'[d].pc = "hand" <=> watch'[d].batch # {})
    BY <1>0, <1>6 DEF WatchTypeOK
  <1>8. WatchTypeOK'
    BY <1>0, <1>1, <1>2, <1>3, <1>4, <1>5, <1>6, <1>7 DEF WatchTypeOK, Stays
  <1>9. OrderStands'
    BY <1>0, <1>1 DEF OrderStands, Stays, Rows
  <1> QED BY <1>1, <1>3, <1>4, <1>5, <1>6, <1>8, <1>9

\* Subscribing or being cut off gives up the place, and keeps what was got.
LEMMA OffThePlace ==
  ASSUME WatchIInv, NEW c \in Clients, Subscribe(c) \/ CutOff(c)
  PROVE  Sorted(c)' /\ PlaceStands(c)' /\ NoneMissed(c)'
  <1>0. Sorted(c) /\ PlaceStands(c) /\ NoneMissed(c) /\ ClientIs(c) /\ WatchTypeOK
        /\ (watch[c].pc = "hand" <=> watch[c].batch # {})
    BY ClientReads DEF WatchIInv, WatchTypeOK
  <1>1. got' = got /\ owed' = owed /\ order' = order /\ removed' = removed
    BY DEF Subscribe, CutOff, Storing, removed
  <1>2. /\ watch'[c].pc \in {"off", "start"} /\ watch'[c].after \in {0, watch[c].after}
        /\ watch'[c].batch = {} /\ (got[c] = <<>> \/ watch'[c].mailbox = watch[c].mailbox)
    <2>1. CASE Subscribe(c)
      <3>1. PICK mailbox : /\ Left(c, "start", mailbox, watch[c].after, watch[c].batch)
                           /\ got[c] = <<>> \/ mailbox = watch[c].mailbox
        BY <1>0, <2>1, WatchMoves
      <3>2. watch[c].batch = {}
        BY <1>0, <2>1 DEF Subscribe
      <3> QED BY <3>1, <3>2 DEF Left
    <2>2. CASE CutOff(c)
      <3>1. Left(c, "off", watch[c].mailbox, 0, {})
        BY <1>0, <2>2, WatchMoves
      <3> QED BY <3>1 DEF Left
    <2> QED BY <2>1, <2>2
  <1>3. Sorted(c)'
    BY <1>0, <1>1 DEF Sorted
  <1>4. Got(c)' = Got(c) /\ (got[c] # <<>> => LastGot(c)' = LastGot(c))
    BY <1>1 DEF Got, LastGot
  <1>5. PlaceStands(c)'
    BY <1>0, <1>1, <1>2, <1>4 DEF PlaceStands, Reads
  <1>6. got[c] # <<>> => Due(c)' = Due(c)
    BY <1>1, <1>2 DEF Due
  <1>7. NoneMissed(c)'
    BY <1>0, <1>1, <1>2, <1>4, <1>6 DEF NoneMissed, Reads
  <1> QED BY <1>3, <1>5, <1>7

LEMMA StartsInPlace ==
  ASSUME WatchIInv, NEW c \in Clients, Start(c)
  PROVE  Sorted(c)' /\ PlaceStands(c)' /\ NoneMissed(c)'
  <1>0. Sorted(c) /\ PlaceStands(c) /\ NoneMissed(c) /\ ClientIs(c) /\ WatchTypeOK
        /\ (watch[c].pc = "hand" <=> watch[c].batch # {}) /\ owed \in [Clients -> SUBSET Messages]
    BY ClientReads DEF WatchIInv, WatchTypeOK
  <1>1. got' = got /\ order' = order /\ removed' = removed /\ watch[c].batch = {}
    BY <1>0 DEF Start, Storing, removed
  <1>2. PICK after \in 0 .. sequence :
          /\ Left(c, "read", watch[c].mailbox, after, watch[c].batch)
          /\ \/ got[c] = <<>> /\ after = LastStored
             \/ got[c] # <<>> /\ after = order[LastGot(c)]
    BY <1>0, WatchMoves
  <1>3. watch'[c].pc = "read" /\ watch'[c].mailbox = watch[c].mailbox /\ watch'[c].batch = {}
        /\ watch'[c].after = after
    BY <1>1, <1>2 DEF Left
  <1>4. Got(c)' = Got(c) /\ (got[c] # <<>> => LastGot(c)' = LastGot(c))
    BY <1>1 DEF Got, LastGot
  <1>5. Sorted(c)'
    BY <1>0, <1>1 DEF Sorted
  <1>6. CASE got[c] = <<>>
    <2>1. owed'[c] = {} /\ Got(c) = {}
      BY <1>0, <1>6 DEF Start, ClientIs
    <2>2. after = 0 \/ \E m \in Messages : order[m] = after
      BY <1>0, <1>2, <1>6, LastStoredIs
    <2>3. PlaceStands(c)'
      BY <1>1, <1>3, <1>4, <2>1, <2>2 DEF PlaceStands
    <2>4. NoneMissed(c)'
      BY <1>1, <1>3, <1>6, <2>1 DEF NoneMissed, Due
    <2> QED BY <1>5, <2>3, <2>4
  <1>7. CASE got[c] # <<>>
    <2>1. owed'[c] = owed[c] /\ after = order[LastGot(c)] /\ LastGot(c) \in Got(c) /\ Got(c) \subseteq Messages
      BY <1>0, <1>2, <1>7 DEF Start, ClientIs
    <2>2. PlaceStands(c)'
      BY <1>0, <1>1, <1>3, <1>4, <1>7, <2>1 DEF PlaceStands, ClientIs
    <2>3. Due(c)' = Due(c)
      BY <1>1, <1>3, <2>1 DEF Due
    <2>4. NoneMissed(c)'
      BY <1>0, <1>1, <1>3, <1>4, <1>7, <2>1, <2>3 DEF NoneMissed
    <2> QED BY <1>5, <2>2, <2>4
  <1> QED BY <1>6, <1>7

LEMMA ReadsOn ==
  ASSUME WatchIInv, NEW c \in Clients, Read(c)
  PROVE  Sorted(c)' /\ PlaceStands(c)' /\ NoneMissed(c)'
  <1> DEFINE stored == StoredAfter(watch[c].mailbox, watch[c].after)
  <1>0. Sorted(c) /\ PlaceStands(c) /\ NoneMissed(c) /\ ClientIs(c) /\ WatchTypeOK
        /\ (watch[c].pc = "hand" <=> watch[c].batch # {})
    BY ClientReads DEF WatchIInv, WatchTypeOK
  <1>1. UNCHANGED <<got, owed, order, deleted, heard>> /\ removed' = removed /\ watch[c].batch = {} /\ Reads(c)
    BY <1>0 DEF Read, Storing, removed, Reads
  <1>2. Got(c)' = Got(c) /\ (got[c] # <<>> => LastGot(c)' = LastGot(c))
    BY <1>1 DEF Got, LastGot
  <1>3. Sorted(c)'
    BY <1>0, <1>1 DEF Sorted
  <1>4. \A m \in Due(c) : m \in Got(c) \/ m \in stored
    BY <1>0, <1>1 DEF NoneMissed, Due, StoredAfter, StoredMessages, ClientIs
  <1>5. CASE stored = {} /\ Left(c, "wait", watch[c].mailbox, watch[c].after, watch[c].batch)
    <2>1. watch'[c].pc = "wait" /\ watch'[c].mailbox = watch[c].mailbox /\ watch'[c].after = watch[c].after
          /\ watch'[c].batch = {}
      BY <1>1, <1>5 DEF Left
    <2>2. PlaceStands(c)'
      BY <1>0, <1>1, <1>2, <2>1 DEF PlaceStands, Reads
    <2>3. Due(c)' = Due(c) /\ StoredAfter(watch[c].mailbox, watch[c].after)' = {}
      BY <1>1, <1>5, <2>1 DEF Due, StoredAfter, StoredMessages
    <2>4. NoneMissed(c)'
      BY <1>0, <1>1, <1>2, <1>4, <1>5, <2>1, <2>3 DEF NoneMissed
    <2> QED BY <1>3, <2>2, <2>4
  <1>6. ASSUME NEW m \in Newest(stored), Left(c, "hand", watch[c].mailbox, order[m], stored)
        PROVE  Sorted(c)' /\ PlaceStands(c)' /\ NoneMissed(c)'
    <2>1. watch'[c].pc = "hand" /\ watch'[c].mailbox = watch[c].mailbox /\ watch'[c].after = order[m]
          /\ watch'[c].batch = stored
      BY <1>6 DEF Left
    <2>2. m \in Messages /\ order[m] > watch[c].after /\ watch[c].after \in Nat /\ Got(c) \subseteq Messages
          /\ \A n \in Messages : order[n] \in Nat
      BY <1>0, NewestIs DEF ClientIs
    <2>3. \A b \in stored : b \in Messages /\ order[b] # 0 /\ order[b] > watch[c].after /\ order[b] <= order[m]
      BY <2>2 DEF Newest, StoredAfter, StoredMessages
    <2>4. \A n \in Got(c) : order[n] # 0 /\ order[n] <= watch[c].after
      BY <1>0, <1>1 DEF PlaceStands
    <2>5. PlaceStands(c)'
      <3>1. \A n \in Got(c) : order[n] <= order[m] /\ \A b \in stored : order[n] < order[b]
        BY <2>2, <2>3, <2>4
      <3> HIDE DEF stored
      <3> QED BY <1>1, <1>2, <2>1, <2>2, <2>3, <2>4, <3>1 DEF PlaceStands
    <2>6. Due(c)' = Due(c)
      BY <1>1, <2>1 DEF Due
    <2>7. NoneMissed(c)'
      BY <1>0, <1>1, <1>2, <1>4, <2>1, <2>6 DEF NoneMissed
    <2> QED BY <1>3, <2>5, <2>7
  <1> QED BY <1>0, <1>5, <1>6, WatchMoves

LEMMA HearsOn ==
  ASSUME WatchIInv, NEW c \in Clients, HearReceived(c)
  PROVE  Sorted(c)' /\ PlaceStands(c)' /\ NoneMissed(c)'
  <1>0. Sorted(c) /\ PlaceStands(c) /\ NoneMissed(c) /\ ClientIs(c) /\ WatchTypeOK
        /\ (watch[c].pc = "hand" <=> watch[c].batch # {})
    BY ClientReads DEF WatchIInv, WatchTypeOK
  <1>1. UNCHANGED <<got, owed, order, deleted>> /\ removed' = removed /\ watch[c].pc = "wait" /\ Reads(c)
    BY DEF HearReceived, Storing, removed, Reads
  <1>2. Left(c, "read", watch[c].mailbox, watch[c].after, watch[c].batch)
    BY <1>0, WatchMoves
  <1>3. watch'[c].pc = "read" /\ watch'[c].mailbox = watch[c].mailbox /\ watch'[c].after = watch[c].after
        /\ watch'[c].batch = watch[c].batch
    BY <1>2 DEF Left
  <1>4. Got(c)' = Got(c) /\ (got[c] # <<>> => LastGot(c)' = LastGot(c))
    BY <1>1 DEF Got, LastGot
  <1>5. Sorted(c)'
    BY <1>0, <1>1 DEF Sorted
  <1>6. PlaceStands(c)'
    BY <1>0, <1>1, <1>3, <1>4 DEF PlaceStands
  <1>7. Due(c)' = Due(c)
    BY <1>1, <1>3 DEF Due
  <1>8. NoneMissed(c)'
    BY <1>0, <1>1, <1>3, <1>4, <1>7 DEF NoneMissed
  <1> QED BY <1>5, <1>6, <1>8

\* The lowest of the batch comes after all the client got, and before the rest.
LEMMA HandsOn ==
  ASSUME WatchIInv, NEW c \in Clients, Hand(c)
  PROVE  Sorted(c)' /\ PlaceStands(c)' /\ NoneMissed(c)'
  <1>0. /\ Sorted(c) /\ PlaceStands(c) /\ NoneMissed(c) /\ ClientIs(c) /\ WatchTypeOK
        /\ got \in [Clients -> Seq(Messages)] /\ got[c] \in Seq(Messages)
        /\ watch[c].batch \subseteq Messages /\ Got(c) \subseteq Messages /\ watch[c].after \in Nat
        /\ \A m \in Messages : order[m] \in Nat
        /\ \A m, n \in Messages : order[m] = order[n] /\ order[m] # 0 => m = n
    BY ClientReads DEF WatchIInv, WatchTypeOK, ClientIs
  <1>1. UNCHANGED <<owed, order, deleted, heard>> /\ removed' = removed /\ Reads(c)
    BY DEF Hand, Storing, removed, Reads
  <1>2. PICK m \in Oldest(watch[c].batch) :
          /\ Left(c, IF watch[c].batch = {m} THEN "read" ELSE "hand",
                  watch[c].mailbox, watch[c].after, watch[c].batch \ {m})
          /\ got' = [got EXCEPT ![c] = IF m \in removed THEN got[c] ELSE Append(got[c], m)]
    BY <1>0, WatchMoves
  <1>3. /\ watch'[c].pc \in {"read", "hand"} /\ watch'[c].mailbox = watch[c].mailbox
        /\ watch'[c].after = watch[c].after /\ watch'[c].batch = watch[c].batch \ {m}
    BY <1>2 DEF Left
  <1>4. m \in watch[c].batch /\ m \in Messages /\ \A b \in watch[c].batch \ {m} : order[m] < order[b]
    <2>1. ASSUME NEW b \in watch[c].batch \ {m} PROVE order[m] < order[b]
      <3>1. m \in Messages /\ b \in Messages /\ order[m] <= order[b] /\ order[b] # 0
        BY <1>0, <1>2 DEF Oldest, PlaceStands
      <3>2. order[m] # order[b]
        BY <1>0, <3>1
      <3> QED BY <1>0, <3>1, <3>2
    <2> QED BY <1>0, <1>2, <2>1 DEF Oldest
  <1>5. order[m] # 0 /\ order[m] <= watch[c].after /\ \A n \in Got(c) : order[n] < order[m]
    BY <1>0, <1>4 DEF PlaceStands
  <1>6. Due(c)' = Due(c) /\ Due(c) \subseteq Messages
    BY <1>0, <1>1, <1>3 DEF Due, ClientIs
  <1>7. CASE m \in removed
    <2>1. got'[c] = got[c]
      BY <1>0, <1>2, <1>7
    <2>2. Got(c)' = Got(c) /\ (got[c] # <<>> => LastGot(c)' = LastGot(c))
      BY <2>1 DEF Got, LastGot
    <2>3. Sorted(c)'
      BY <1>0, <1>1, <2>1 DEF Sorted
    <2>4. PlaceStands(c)'
      BY <1>0, <1>1, <1>3, <2>2 DEF PlaceStands, Reads
    <2>5. m \notin Due(c)
      BY <1>7 DEF Due
    <2>6. NoneMissed(c)'
      BY <1>0, <1>1, <1>3, <1>6, <2>1, <2>2, <2>5 DEF NoneMissed, Reads
    <2> QED BY <2>3, <2>4, <2>6
  <1>8. CASE m \notin removed
    <2>1. got'[c] = Append(got[c], m)
      BY <1>0, <1>2, <1>8
    <2>2. /\ Len(got'[c]) = Len(got[c]) + 1 /\ Len(got[c]) \in Nat /\ got'[c][Len(got'[c])] = m
          /\ \A i \in 1 .. Len(got[c]) : got'[c][i] = got[c][i]
      BY <1>0, <1>4, <2>1
    <2>3. Got(c)' = Got(c) \cup {m}
      <3>1. \A i \in 1 .. Len(got'[c]) : i \in 1 .. Len(got[c]) \/ i = Len(got'[c])
        BY <2>2
      <3>2. \A i \in 1 .. Len(got[c]) : i \in 1 .. Len(got'[c])
        BY <2>2
      <3>3. Len(got'[c]) \in 1 .. Len(got'[c])
        BY <2>2
      <3> QED BY <2>2, <3>1, <3>2, <3>3 DEF Got
    <2>4. LastGot(c)' = m
      BY <2>2 DEF LastGot
    <2>5. Sorted(c)'
      <3>1. ASSUME NEW i \in 1 .. Len(got'[c]), NEW j \in 1 .. Len(got'[c]), i < j
            PROVE  order[got'[c][i]] < order[got'[c][j]]
        <4>1. i \in 1 .. Len(got[c]) /\ got'[c][i] = got[c][i] /\ got[c][i] \in Got(c)
          BY <2>2, <3>1 DEF Got
        <4>2. CASE j \in 1 .. Len(got[c])
          BY <1>0, <2>2, <3>1, <4>1, <4>2 DEF Sorted
        <4>3. CASE j = Len(got'[c])
          BY <1>5, <2>2, <4>1, <4>3
        <4> QED BY <2>2, <3>1, <4>2, <4>3
      <3> QED BY <1>1, <3>1 DEF Sorted
    <2>6. PlaceStands(c)'
      <3>1. watch'[c].after = 0 \/ \E n \in Messages : order'[n] = watch'[c].after
        BY <1>0, <1>1, <1>3 DEF PlaceStands
      <3>2. ASSUME NEW n \in Got(c) \cup {m}
            PROVE  order[n] # 0 /\ order[n] <= watch[c].after /\ \A b \in watch[c].batch \ {m} : order[n] < order[b]
        BY <1>0, <1>1, <1>4, <1>5, <3>2 DEF PlaceStands
      <3>3. \A b \in watch[c].batch \ {m} : order[b] # 0 /\ order[b] <= watch[c].after
        BY <1>0 DEF PlaceStands
      <3> QED BY <1>1, <1>3, <2>3, <3>1, <3>2, <3>3 DEF PlaceStands
    <2>7. \A n \in Due(c) : n \in Got(c) \cup {m} \/ n \in watch[c].batch \ {m} \/ order[n] > watch[c].after
      BY <1>0, <1>1 DEF NoneMissed
    <2>8. \A n \in Due(c) : n \in Got(c) \cup {m} \/ order[n] > order[m]
      BY <1>0, <1>4, <1>5, <1>6, <2>7
    <2>9. NoneMissed(c)'
      BY <1>0, <1>1, <1>3, <1>6, <2>3, <2>4, <2>7, <2>8 DEF NoneMissed
    <2> QED BY <2>5, <2>6, <2>9
  <1> QED BY <1>7, <1>8

-----------------------------------------------------------------------------
LEMMA StepWatchIInv == WatchIInv /\ [WatchNext]_watchVars => WatchIInv'
  <1> SUFFICES ASSUME WatchIInv, [WatchNext]_watchVars PROVE WatchIInv'
    OBVIOUS
  <1>1. WatchTypeOK /\ OrderStands /\ \A c \in Clients : Sorted(c) /\ PlaceStands(c) /\ NoneMissed(c)
    BY DEF WatchIInv
  <1>2. CASE \/ \E i \in Imports : ImportStep(i)
             \/ \E b \in Inboxes : DeleteMailbox(b)
    <2>1. /\ WatchTypeOK' /\ OrderStands'
          /\ UNCHANGED <<watch, got>>
          /\ removed \subseteq removed'
          /\ \A m \in Messages : order[m] # 0 => order'[m] = order[m]
          /\ \A m, n \in Messages : order[m] = 0 /\ order'[m] # 0 => order[n] < order'[m]
          /\ \A c \in Clients :
               /\ owed[c] \subseteq owed'[c]
               /\ \A m \in owed'[c] \ owed[c] : order[m] = 0 /\ order'[m] # 0
               /\ heard[c] => heard'[c]
               /\ watch[c].pc # "off" /\ ~heard'[c] => UNCHANGED order
      BY <1>1, <1>2, StoringSteps
    <2>2. ASSUME NEW c \in Clients PROVE Sorted(c)' /\ PlaceStands(c)' /\ NoneMissed(c)'
      BY <1>1, <2>1, <2>2, ClientStandsStill
    <2> QED BY <2>1, <2>2 DEF WatchIInv
  <1>3. ASSUME NEW c \in Clients, WatchStep(c) PROVE WatchIInv'
    <2>1. /\ WatchTypeOK' /\ OrderStands' /\ Stays /\ removed' = removed
          /\ \A d \in Clients : d # c =>
               watch'[d] = watch[d] /\ got'[d] = got[d] /\ heard'[d] = heard[d] /\ owed'[d] = owed[d]
      BY <1>3, WatchTypes
    <2>2. order' = order
      BY <2>1 DEF Stays
    <2>3. Sorted(c)' /\ PlaceStands(c)' /\ NoneMissed(c)'
      BY <1>3, OffThePlace, StartsInPlace, ReadsOn, HearsOn, HandsOn DEF WatchStep
    <2>4. ASSUME NEW d \in Clients, d # c PROVE Sorted(d)' /\ PlaceStands(d)' /\ NoneMissed(d)'
      BY <1>1, <2>1, <2>2, <2>4, ClientStandsStill
    <2> QED BY <2>1, <2>3, <2>4 DEF WatchIInv
  <1>4. CASE UNCHANGED watchVars
    <2>1. WatchTypeOK' /\ OrderStands' /\ removed' = removed
      BY <1>1, <1>4 DEF watchVars, WatchTypeOK, OrderStands, Rows, removed
    <2>2. ASSUME NEW c \in Clients PROVE Sorted(c)' /\ PlaceStands(c)' /\ NoneMissed(c)'
      BY <1>1, <1>4, <2>1, <2>2, ClientStandsStill DEF watchVars
    <2> QED BY <2>1, <2>2 DEF WatchIInv
  <1> QED BY <1>2, <1>3, <1>4 DEF WatchNext

\* Every number given is one message's, and a watch has a place that exists: what
\* the transactions of skrzynka_order_stored and watch_messages keep.
THEOREM WatchTypeCorrect == WatchSpec => []WatchTypeOK
  <1>1. WatchIInv => WatchTypeOK
    BY DEF WatchIInv
  <1> QED BY <1>1, InitWatchIInv, StepWatchIInv, PTL DEF WatchSpec

\* docs/inbound/watch.md, for any number of imports, messages and clients: a client
\* that waits with nothing to hear got all that was stored for it since its watch
\* began and is stored still, once each and in the order it was stored, however
\* often it was cut off and resumed.
THEOREM NothingIsMissed == WatchSpec => []MissesAndRepeatsNothing
  <1>1. ASSUME WatchIInv PROVE MissesAndRepeatsNothing
    <2>1. ASSUME NEW c \in Clients, watch[c].pc = "wait", ~heard[c],
                 NEW m \in owed[c] \ removed, watch[c].mailbox \in {All, MailboxOf[m]}
          PROVE  m \in Got(c)
      <3>1. watch[c].batch = {} /\ m \in Messages /\ m \in Due(c) /\ NoneMissed(c)
        BY <1>1, <2>1 DEF WatchIInv, WatchTypeOK, Due
      <3>2. order[m] # 0 /\ ~(order[m] > watch[c].after)
        BY <2>1, <3>1 DEF NoneMissed, StoredAfter, StoredMessages
      <3> QED BY <2>1, <3>1, <3>2 DEF NoneMissed, Reads
    <2>2. ASSUME NEW c \in Clients PROVE Sorted(c)
      BY <1>1 DEF WatchIInv
    <2> QED BY <2>1, <2>2 DEF MissesAndRepeatsNothing, Sorted
  <1> QED BY <1>1, InitWatchIInv, StepWatchIInv, PTL DEF WatchSpec
=============================================================================
