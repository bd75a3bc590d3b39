------------------------ MODULE MessageActionsProofs ------------------------
(***************************************************************************)
(* An action changes its own message only, and its record is true, for any *)
(* number of messages and of workers.  What has to be added is what a      *)
(* worker knows at each place: which record it made, what it may report,   *)
(* and that the UID it works on holds its message or nobody's once the     *)
(* message was proved to be there.                                         *)
(***************************************************************************)
EXTENDS MessageActions, TLAPS

Working == InSession \cup {"source", "open", "record"}
AtProvider == {"store", "move", "expunge", "confirm"}

\* The worker's message has its record, which is still to be finished.
OnRecord(w) ==
  pc[w] \in Working => msg[w] \in Messages /\ row[Action(w)] = "pending"

\* What is to be recorded is what happened.
Reported(w) ==
  /\ pc[w] \in Working \ {"record"} => Action(w) \notin lost
  /\ pc[w] = "record" /\ verdict[w] = "done" => Action(w) \in shown
  /\ pc[w] = "record" /\ Action(w) \in lost => verdict[w] = "uncertain"

\* A proven UID is not given to another message while the session lasts.
StillProven(w) == pc[w] \in AtProvider => at[msg[w]] \in {msg[w], Nobody}

\* A message still to be taken has no record of this worker's.
Untaken(w) ==
  /\ ask[w] = NoAsk => pc[w] = "idle" /\ \A m \in Messages : row[<<w, m>>] = "none"
  /\ \A m \in todo[w] : row[<<w, m>>] = "none"

Storable(w) == pc[w] = "store" => ask[w] \in Marks \cup {Delete}

Standing(w) == OnRecord(w) /\ Reported(w) /\ StillProven(w) /\ Untaken(w) /\ Storable(w)

\* The types alone; what TypeOK says besides follows from OnRecord and Untaken.
Types ==
  /\ at \in [Messages -> Messages \cup {Nobody}]
  /\ flags \in [Messages -> SUBSET (Flags \cup {"Deleted"})]
  /\ ask \in [Workers -> Marks \cup Moves \cup {Delete, NoAsk}]
  /\ todo \in [Workers -> SUBSET Messages]
  /\ pc \in [Workers -> Places]
  /\ msg \in [Workers -> Messages \cup {Nobody}]
  /\ verdict \in [Workers -> Statuses]
  /\ heard \in [Workers -> BOOLEAN]
  /\ row \in [Actions -> Statuses \cup {"none"}]
  /\ touched \in [Actions -> SUBSET Messages]
  /\ refused \subseteq Actions /\ lost \subseteq Actions /\ shown \subseteq Actions

IInv == Types /\ (\A w \in Workers : Standing(w)) /\ TouchesOnlyItsMessage /\ RecordIsTrue

\* What a step of one worker leaves as it is: every other worker, and under each
\* UID the same message or nobody's.
Aside(w) ==
  /\ \A u \in Messages : at'[u] \in {at[u], Nobody}
  /\ \A v \in Workers \ {w} :
       /\ pc'[v] = pc[v] /\ msg'[v] = msg[v] /\ ask'[v] = ask[v]
       /\ todo'[v] = todo[v] /\ verdict'[v] = verdict[v]
       /\ \A m \in Messages :
            /\ row'[<<v, m>>] = row[<<v, m>>] /\ touched'[<<v, m>>] = touched[<<v, m>>]
            /\ <<v, m>> \in lost' => <<v, m>> \in lost
            /\ <<v, m>> \in shown => <<v, m>> \in shown'

\* What holds of one worker's actions.
Safe(w) ==
  \A m \in Messages :
    /\ touched[<<w, m>>] \subseteq {m}
    /\ row[<<w, m>>] = "done" => <<w, m>> \in shown
    /\ touched[<<w, m>>] # {} => row[<<w, m>>] # "none"
    /\ <<w, m>> \in lost => row[<<w, m>>] \in {"pending", "uncertain"}

LEMMA SafeForAll ==
  (\A w \in Workers : Safe(w)) <=> TouchesOnlyItsMessage /\ RecordIsTrue
  BY DEF Safe, TouchesOnlyItsMessage, RecordIsTrue, Actions

LEMMA InitIInv == Init => IInv
  BY ActionsAssumption DEF Init, IInv, Types, Actions, Standing, OnRecord, Reported, StillProven,
     Untaken, Storable, Working, AtProvider, InSession, Places, Statuses,
     TouchesOnlyItsMessage, RecordIsTrue, NoAsk

LEMMA Typed ==
  ASSUME Types, \A w \in Workers : OnRecord(w) /\ Untaken(w)
  PROVE  TypeOK
  BY DEF Types, TypeOK, OnRecord, Untaken, Working, InSession, Action

LEMMA AsideStands ==
  ASSUME Types, NEW w \in Workers, Aside(w), NEW v \in Workers \ {w}, Standing(v), Safe(v)
  PROVE  Standing(v)' /\ Safe(v)'
  <1> USE DEF Aside, Action
  <1>1. pc[v] \in Working => msg[v] \in Messages
    BY DEF Standing, OnRecord
  <1>2. OnRecord(v)'
    BY <1>1 DEF Standing, OnRecord
  <1>3. Reported(v)'
    BY <1>1 DEF Standing, Reported, Working
  <1>4. StillProven(v)'
    BY <1>1 DEF Standing, StillProven, AtProvider, Working, InSession
  <1>5. Untaken(v)' /\ Storable(v)'
    BY DEF Standing, Untaken, Storable, Types
  <1>6. Safe(v)'
    BY DEF Safe
  <1> QED BY <1>2, <1>3, <1>4, <1>5, <1>6 DEF Standing

-----------------------------------------------------------------------------
(* Types. *)

LEMMA WorkerTypes ==
  ASSUME Types, NEW w \in Workers, OnRecord(w), Storable(w), WorkerStep(w)
  PROVE  Types'
  <1>0. /\ pc[w] \in Working => msg[w] \in Messages /\ Action(w) \in Actions
        /\ pc[w] = "store" => Stored(w).flag \in Flags \cup {"Deleted"}
    BY DEF OnRecord, Storable, Actions, Action, Stored, Marks, Delete
  <1> USE <1>0 DEF Types, Goto, provider, history, request, Working, InSession, Places, Statuses
  <1>1. ASSUME NEW a \in Marks \cup Moves \cup {Delete}, NEW D \in SUBSET Messages, Ask(w, a, D)
        PROVE  Types'
    BY <1>1 DEF Ask, NoAsk
  <1>2. CASE Folder(w)
    BY <1>2 DEF Folder
  <1>3. CASE Claim(w)
    <2>1. CASE \E m \in todo[w] : todo' = [todo EXCEPT ![w] = @ \ {m}] /\ UNCHANGED <<msg, row, pc>>
      BY <1>3, <2>1 DEF Claim
    <2>2. CASE \E m \in todo[w] : /\ todo' = [todo EXCEPT ![w] = @ \ {m}]
                                  /\ msg' = [msg EXCEPT ![w] = m]
                                  /\ row' = Claimed(<<w, m>>)
                                  /\ Goto(w, "source")
      <3>1. PICK m \in todo[w] : /\ todo' = [todo EXCEPT ![w] = @ \ {m}]
                                 /\ msg' = [msg EXCEPT ![w] = m]
                                 /\ row' = Claimed(<<w, m>>)
                                 /\ Goto(w, "source")
        BY <2>2
      <3>2. row' \in [Actions -> Statuses \cup {"none"}]
        BY <3>1 DEF Claimed
      <3> QED BY <1>3, <3>1, <3>2 DEF Claim
    <2>3. CASE todo[w] = {} /\ Goto(w, "idle") /\ UNCHANGED <<todo, msg, row>>
      BY <1>3, <2>3 DEF Claim
    <2> QED BY <1>3, <2>1, <2>2, <2>3 DEF Claim
  <1>4. CASE Source(w)
    BY <1>4 DEF Source, End
  <1>5. CASE Open(w)
    BY <1>5 DEF Open, End
  <1>6. CASE Check(w)
    BY <1>6 DEF Check, Proven, CommandFails, End, Lost
  <1>7. CASE Store(w)
    BY <1>7 DEF Store, Touch, Sent, CommandFails, End, Lost
  <1>8. CASE Move(w)
    BY <1>8 DEF Move, Touch, Sent, CommandFails, End, Lost
  <1>9. CASE Expunge(w)
    BY <1>9 DEF Expunge, Expunged, Sent, CommandFails, End, Lost
  <1>10. CASE Confirm(w)
    BY <1>10 DEF Confirm, Effect, Unconfirmed, CommandFails, End, Lost
  <1>11. CASE Record(w)
    BY <1>11 DEF Record
  <1>12. CASE TaskStops(w)
    BY <1>12 DEF TaskStops, End
  <1>13. CASE Disconnect(w)
    BY <1>13 DEF Disconnect
  <1>14. CASE Stop(w)
    BY <1>14 DEF Stop
  <1> QED BY <1>1, <1>2, <1>3, <1>4, <1>5, <1>6, <1>7, <1>8, <1>9, <1>10, <1>11, <1>12, <1>13, <1>14 DEF WorkerStep

LEMMA StepTypes ==
  ASSUME Types, \A w \in Workers : OnRecord(w) /\ Storable(w), [Next]_vars
  PROVE  Types'
  <1>1. ASSUME NEW w \in Workers, WorkerStep(w) PROVE Types'
    BY <1>1, WorkerTypes
  <1> USE DEF Types, history, request
  <1>2. ASSUME NEW m \in Messages, NEW flag \in Flags \cup {"Deleted"}, OtherStore(m, flag) PROVE Types'
    BY <1>2 DEF OtherStore
  <1>3. ASSUME NEW u \in Messages, OtherRemove(u) PROVE Types'
    BY <1>3 DEF OtherRemove
  <1>4. ASSUME NEW u \in Messages, NEW v \in Messages, Renumber(u, v) PROVE Types'
    BY <1>4 DEF Renumber
  <1>5. CASE UNCHANGED vars
    BY <1>5 DEF vars
  <1> QED BY <1>1, <1>2, <1>3, <1>4, <1>5 DEF Next

-----------------------------------------------------------------------------
(* One worker's steps. *)

LEMMA FolderStands ==
  ASSUME Types, Types', NEW w \in Workers, Standing(w), Safe(w), Folder(w)
  PROVE  Aside(w) /\ Standing(w)' /\ Safe(w)'
  <1> USE DEF Types, Folder, Goto, request, provider, history, Action,
              Standing, OnRecord, Working, InSession
  <1>1. Aside(w)
    BY DEF Aside, Actions
  <1>2. OnRecord(w)'
    BY DEF Actions
  <1>3. Reported(w)'
    BY DEF Reported, Actions, Untaken
  <1>4. StillProven(w)'
    BY DEF StillProven, AtProvider
  <1>5. Untaken(w)'
    BY DEF Untaken, Actions
  <1>6. Storable(w)'
    BY DEF Storable
  <1>7. Safe(w)'
    BY DEF Safe, Reported, StillProven, AtProvider, Actions, Statuses
  <1> QED BY <1>1, <1>2, <1>3, <1>4, <1>5, <1>6, <1>7

LEMMA ClaimStands ==
  ASSUME Types, Types', NEW w \in Workers, Standing(w), Safe(w), Claim(w)
  PROVE  Aside(w) /\ Standing(w)' /\ Safe(w)'
  <1> USE DEF Types, Claim, Claimed, Goto, request, provider, history, Action,
              Standing, OnRecord, Working, InSession
  <1>1. CASE \E m \in todo[w] : /\ todo' = [todo EXCEPT ![w] = @ \ {m}]
                                /\ msg' = [msg EXCEPT ![w] = m]
                                /\ row' = Claimed(<<w, m>>)
                                /\ Goto(w, "source")
    <2>1. PICK m \in todo[w] : /\ todo' = [todo EXCEPT ![w] = @ \ {m}]
                               /\ msg' = [msg EXCEPT ![w] = m]
                               /\ row' = [row EXCEPT ![<<w, m>>] = "pending"]
                               /\ pc' = [pc EXCEPT ![w] = "source"]
      BY <1>1
    <2>2. /\ m \in Messages /\ <<w, m>> \in Actions /\ row[<<w, m>>] = "none"
          /\ <<w, m>> \notin lost
          /\ \A x \in Messages : row'[<<w, x>>] = IF x = m THEN "pending" ELSE row[<<w, x>>]
          /\ UNCHANGED <<ask, verdict, heard, at, touched, lost, shown>>
      BY <2>1 DEF Actions, Untaken, Safe
    <2>3. Aside(w)
      BY <2>1, <2>2 DEF Aside, Actions
    <2>4. OnRecord(w)' /\ Reported(w)'
      BY <2>1, <2>2 DEF Reported
    <2>5. StillProven(w)' /\ Storable(w)'
      BY <2>1, <2>2 DEF StillProven, AtProvider, Storable
    <2>6. Untaken(w)'
      BY <2>1, <2>2 DEF Untaken
    <2>7. Safe(w)'
      BY <2>2 DEF Safe
    <2> QED BY <2>3, <2>4, <2>5, <2>6, <2>7
  <1>2. CASE /\ UNCHANGED <<msg, row, verdict, at, ask, touched, lost, shown>>
             /\ \A v \in Workers \ {w} : pc'[v] = pc[v] /\ todo'[v] = todo[v]
             /\ pc'[w] \in {"next", "idle"} /\ todo'[w] \subseteq todo[w]
    <2>1. Aside(w)
      BY <1>2 DEF Aside
    <2>2. OnRecord(w)' /\ Reported(w)' /\ StillProven(w)' /\ Storable(w)'
      BY <1>2 DEF Reported, StillProven, AtProvider, Storable
    <2>3. Untaken(w)' /\ Safe(w)'
      BY <1>2 DEF Untaken, Safe
    <2> QED BY <2>1, <2>2, <2>3
  <1>3. CASE \E m \in todo[w] : todo' = [todo EXCEPT ![w] = @ \ {m}] /\ UNCHANGED <<msg, row, pc>>
    BY <1>2, <1>3
  <1>4. CASE todo[w] = {} /\ Goto(w, "idle") /\ UNCHANGED <<todo, msg, row>>
    BY <1>2, <1>4
  <1> QED BY <1>1, <1>3, <1>4

LEMMA SourceStands ==
  ASSUME Types, Types', NEW w \in Workers, Standing(w), Safe(w), Source(w)
  PROVE  Aside(w) /\ Standing(w)' /\ Safe(w)'
  <1> USE DEF Types, Source, End, Goto, request, provider, history, Action,
              Standing, OnRecord, Working, InSession
  <1>1. Aside(w)
    BY DEF Aside, Actions
  <1>2. OnRecord(w)'
    BY DEF Actions
  <1>3. Reported(w)'
    BY DEF Reported, Actions, Untaken
  <1>4. StillProven(w)'
    BY DEF StillProven, AtProvider
  <1>5. Untaken(w)'
    BY DEF Untaken, Actions
  <1>6. Storable(w)'
    BY DEF Storable
  <1>7. Safe(w)'
    BY DEF Safe, Reported, StillProven, AtProvider, Actions, Statuses
  <1> QED BY <1>1, <1>2, <1>3, <1>4, <1>5, <1>6, <1>7

LEMMA OpenStands ==
  ASSUME Types, Types', NEW w \in Workers, Standing(w), Safe(w), Open(w)
  PROVE  Aside(w) /\ Standing(w)' /\ Safe(w)'
  <1> USE DEF Types, Open, End, Goto, request, provider, history, Action,
              Standing, OnRecord, Working, InSession
  <1>1. Aside(w)
    BY DEF Aside, Actions
  <1>2. OnRecord(w)'
    BY DEF Actions
  <1>3. Reported(w)'
    BY DEF Reported, Actions, Untaken
  <1>4. StillProven(w)'
    BY DEF StillProven, AtProvider
  <1>5. Untaken(w)'
    BY DEF Untaken, Actions
  <1>6. Storable(w)'
    BY DEF Storable
  <1>7. Safe(w)'
    BY DEF Safe, Reported, StillProven, AtProvider, Actions, Statuses
  <1> QED BY <1>1, <1>2, <1>3, <1>4, <1>5, <1>6, <1>7

\* What a step inside a session has to leave as it is for its worker's actions
\* to stay safe: no record changes, and of the actions only the current one.
LEMMA SessionSafe ==
  ASSUME Types, NEW w \in Workers, Standing(w), Safe(w), pc[w] \in InSession,
         row' = row, shown \subseteq shown', lost' \subseteq lost \cup {Action(w)},
         \A m \in Messages \ {msg[w]} : touched'[<<w, m>>] = touched[<<w, m>>],
         touched'[Action(w)] \subseteq {msg[w]}
  PROVE  Safe(w)'
  <1>1. msg[w] \in Messages /\ row[<<w, msg[w]>>] = "pending"
    BY DEF Standing, OnRecord, Working, Action
  <1>2. ASSUME NEW m \in Messages
        PROVE  /\ touched'[<<w, m>>] \subseteq {m}
               /\ row'[<<w, m>>] = "done" => <<w, m>> \in shown'
               /\ touched'[<<w, m>>] # {} => row'[<<w, m>>] # "none"
               /\ <<w, m>> \in lost' => row'[<<w, m>>] \in {"pending", "uncertain"}
    <2>1. CASE m = msg[w]
      BY <1>1, <2>1 DEF Safe, Action
    <2>2. CASE m # msg[w]
      BY <1>1, <2>2 DEF Safe, Action
    <2> QED BY <2>1, <2>2
  <1> QED BY <1>2 DEF Safe

LEMMA CheckStands ==
  ASSUME Types, Types', NEW w \in Workers, Standing(w), Safe(w), Check(w)
  PROVE  Aside(w) /\ Standing(w)' /\ Safe(w)'
  <1> USE DEF Types, Check, Proven, CommandFails, End, Lost, Goto, request, provider, history, Action,
              Standing, OnRecord, Working, InSession
  <1>1. Aside(w)
    BY DEF Aside, Actions
  <1>2. OnRecord(w)'
    BY DEF Actions
  <1>3. Reported(w)'
    BY DEF Reported, Actions, Untaken
  <1>4. StillProven(w)'
    BY DEF StillProven, AtProvider
  <1>5. Untaken(w)'
    BY DEF Untaken, Actions
  <1>6. Storable(w)'
    BY DEF Storable, Untaken, Marks, Moves, Delete, NoAsk
  <1>7. Safe(w)'
    <2>1. /\ pc[w] \in InSession /\ row' = row
          /\ shown \subseteq shown' /\ lost' \subseteq lost \cup {Action(w)}
      OBVIOUS
    <2>2. \A m \in Messages \ {msg[w]} : touched'[<<w, m>>] = touched[<<w, m>>]
      BY DEF Actions
    <2>3. touched'[Action(w)] \subseteq {msg[w]}
      <3>1. touched[Action(w)] \subseteq {msg[w]} /\ msg[w] \in Messages /\ Action(w) \in Actions
        BY DEF Safe, Actions
      <3> QED BY <3>1 DEF StillProven, AtProvider
    <2> QED BY <2>1, <2>2, <2>3, SessionSafe
  <1> QED BY <1>1, <1>2, <1>3, <1>4, <1>5, <1>6, <1>7

LEMMA StoreStands ==
  ASSUME Types, Types', NEW w \in Workers, Standing(w), Safe(w), Store(w)
  PROVE  Aside(w) /\ Standing(w)' /\ Safe(w)'
  <1> USE DEF Types, Store, Touch, Sent, CommandFails, End, Lost, Goto, request, provider, history, Action,
              Standing, OnRecord, Working, InSession
  <1>1. Aside(w)
    BY DEF Aside, Actions
  <1>2. OnRecord(w)'
    BY DEF Actions
  <1>3. Reported(w)'
    BY DEF Reported, Actions, Untaken
  <1>4. StillProven(w)'
    BY DEF StillProven, AtProvider
  <1>5. Untaken(w)'
    BY DEF Untaken, Actions
  <1>6. Storable(w)'
    BY DEF Storable
  <1>7. Safe(w)'
    <2>1. /\ pc[w] \in InSession /\ row' = row
          /\ shown \subseteq shown' /\ lost' \subseteq lost \cup {Action(w)}
      OBVIOUS
    <2>2. \A m \in Messages \ {msg[w]} : touched'[<<w, m>>] = touched[<<w, m>>]
      BY DEF Actions
    <2>3. touched'[Action(w)] \subseteq {msg[w]}
      <3>1. touched[Action(w)] \subseteq {msg[w]} /\ msg[w] \in Messages /\ Action(w) \in Actions
        BY DEF Safe, Actions
      <3> QED BY <3>1 DEF StillProven, AtProvider
    <2> QED BY <2>1, <2>2, <2>3, SessionSafe
  <1> QED BY <1>1, <1>2, <1>3, <1>4, <1>5, <1>6, <1>7

LEMMA MoveStands ==
  ASSUME Types, Types', NEW w \in Workers, Standing(w), Safe(w), Move(w)
  PROVE  Aside(w) /\ Standing(w)' /\ Safe(w)'
  <1> USE DEF Types, Move, Touch, Sent, CommandFails, End, Lost, Goto, request, provider, history, Action,
              Standing, OnRecord, Working, InSession
  <1>1. Aside(w)
    BY DEF Aside, Actions
  <1>2. OnRecord(w)'
    BY DEF Actions
  <1>3. Reported(w)'
    BY DEF Reported, Actions, Untaken
  <1>4. StillProven(w)'
    BY DEF StillProven, AtProvider
  <1>5. Untaken(w)'
    BY DEF Untaken, Actions
  <1>6. Storable(w)'
    BY DEF Storable
  <1>7. Safe(w)'
    <2>1. /\ pc[w] \in InSession /\ row' = row
          /\ shown \subseteq shown' /\ lost' \subseteq lost \cup {Action(w)}
      OBVIOUS
    <2>2. \A m \in Messages \ {msg[w]} : touched'[<<w, m>>] = touched[<<w, m>>]
      BY DEF Actions
    <2>3. touched'[Action(w)] \subseteq {msg[w]}
      <3>1. touched[Action(w)] \subseteq {msg[w]} /\ msg[w] \in Messages /\ Action(w) \in Actions
        BY DEF Safe, Actions
      <3> QED BY <3>1 DEF StillProven, AtProvider
    <2> QED BY <2>1, <2>2, <2>3, SessionSafe
  <1> QED BY <1>1, <1>2, <1>3, <1>4, <1>5, <1>6, <1>7

LEMMA ExpungeStands ==
  ASSUME Types, Types', NEW w \in Workers, Standing(w), Safe(w), Expunge(w)
  PROVE  Aside(w) /\ Standing(w)' /\ Safe(w)'
  <1> USE DEF Types, Expunge, Expunged, Sent, CommandFails, End, Lost, Goto, request, provider, history, Action,
              Standing, OnRecord, Working, InSession
  <1>1. Aside(w)
    BY DEF Aside, Actions
  <1>2. OnRecord(w)'
    BY DEF Actions
  <1>3. Reported(w)'
    BY DEF Reported, Actions, Untaken
  <1>4. StillProven(w)'
    BY DEF StillProven, AtProvider
  <1>5. Untaken(w)'
    BY DEF Untaken, Actions
  <1>6. Storable(w)'
    BY DEF Storable
  <1>7. Safe(w)'
    <2>1. /\ pc[w] \in InSession /\ row' = row
          /\ shown \subseteq shown' /\ lost' \subseteq lost \cup {Action(w)}
      OBVIOUS
    <2>2. \A m \in Messages \ {msg[w]} : touched'[<<w, m>>] = touched[<<w, m>>]
      BY DEF Actions
    <2>3. touched'[Action(w)] \subseteq {msg[w]}
      <3>1. touched[Action(w)] \subseteq {msg[w]} /\ msg[w] \in Messages /\ Action(w) \in Actions
        BY DEF Safe, Actions
      <3> QED BY <3>1 DEF StillProven, AtProvider
    <2> QED BY <2>1, <2>2, <2>3, SessionSafe
  <1> QED BY <1>1, <1>2, <1>3, <1>4, <1>5, <1>6, <1>7

LEMMA ConfirmStands ==
  ASSUME Types, Types', NEW w \in Workers, Standing(w), Safe(w), Confirm(w)
  PROVE  Aside(w) /\ Standing(w)' /\ Safe(w)'
  <1> USE DEF Types, Confirm, Effect, Unconfirmed, CommandFails, End, Lost, Goto, request, provider, history, Action,
              Standing, OnRecord, Working, InSession
  <1>1. Aside(w)
    BY DEF Aside, Actions
  <1>2. OnRecord(w)'
    BY DEF Actions
  <1>3. Reported(w)'
    BY DEF Reported, Actions, Untaken
  <1>4. StillProven(w)'
    BY DEF StillProven, AtProvider
  <1>5. Untaken(w)'
    BY DEF Untaken, Actions
  <1>6. Storable(w)'
    BY DEF Storable
  <1>7. Safe(w)'
    <2>1. /\ pc[w] \in InSession /\ row' = row
          /\ shown \subseteq shown' /\ lost' \subseteq lost \cup {Action(w)}
      OBVIOUS
    <2>2. \A m \in Messages \ {msg[w]} : touched'[<<w, m>>] = touched[<<w, m>>]
      BY DEF Actions
    <2>3. touched'[Action(w)] \subseteq {msg[w]}
      <3>1. touched[Action(w)] \subseteq {msg[w]} /\ msg[w] \in Messages /\ Action(w) \in Actions
        BY DEF Safe, Actions
      <3> QED BY <3>1 DEF StillProven, AtProvider
    <2> QED BY <2>1, <2>2, <2>3, SessionSafe
  <1> QED BY <1>1, <1>2, <1>3, <1>4, <1>5, <1>6, <1>7

LEMMA RecordStands ==
  ASSUME Types, Types', NEW w \in Workers, Standing(w), Safe(w), Record(w)
  PROVE  Aside(w) /\ Standing(w)' /\ Safe(w)'
  <1> USE DEF Types, Record, Goto, request, provider, history, Action,
              Standing, OnRecord, Working, InSession
  <1>1. Aside(w)
    BY DEF Aside, Actions
  <1>2. OnRecord(w)'
    BY DEF Actions
  <1>3. Reported(w)'
    BY DEF Reported, Actions, Untaken
  <1>4. StillProven(w)'
    BY DEF StillProven, AtProvider
  <1>5. Untaken(w)'
    BY DEF Untaken, Actions
  <1>6. Storable(w)'
    BY DEF Storable
  <1>7. Safe(w)'
    <2> SUFFICES ASSUME NEW m \in Messages
                 PROVE  /\ touched'[<<w, m>>] \subseteq {m}
                        /\ row'[<<w, m>>] = "done" => <<w, m>> \in shown'
                        /\ touched'[<<w, m>>] # {} => row'[<<w, m>>] # "none"
                        /\ <<w, m>> \in lost' => row'[<<w, m>>] \in {"pending", "uncertain"}
      BY DEF Safe
    <2>0. /\ <<w, m>> \in Actions /\ <<w, msg[w]>> \in Actions /\ msg[w] \in Messages
          /\ m # msg[w] => <<w, m>> # <<w, msg[w]>>
          /\ verdict[w] # "none"
      BY DEF Actions, Statuses
    <2> USE <2>0 DEF Safe, Reported, StillProven, AtProvider, Statuses
    <2>1. touched'[<<w, m>>] \subseteq {m}
      OBVIOUS
    <2>2. row'[<<w, m>>] = "done" => <<w, m>> \in shown'
      <3>1. CASE m = msg[w]
        BY <3>1
      <3>2. CASE m # msg[w]
        BY <3>2
      <3> QED BY <3>1, <3>2
    <2>3. touched'[<<w, m>>] # {} => row'[<<w, m>>] # "none"
      <3>1. CASE m = msg[w]
        BY <3>1
      <3>2. CASE m # msg[w]
        BY <3>2
      <3> QED BY <3>1, <3>2
    <2>4. <<w, m>> \in lost' => row'[<<w, m>>] \in {"pending", "uncertain"}
      <3>1. CASE m = msg[w]
        BY <3>1
      <3>2. CASE m # msg[w]
        BY <3>2
      <3> QED BY <3>1, <3>2
    <2> QED BY <2>1, <2>2, <2>3, <2>4
  <1> QED BY <1>1, <1>2, <1>3, <1>4, <1>5, <1>6, <1>7

LEMMA TaskStopsStands ==
  ASSUME Types, Types', NEW w \in Workers, Standing(w), Safe(w), TaskStops(w)
  PROVE  Aside(w) /\ Standing(w)' /\ Safe(w)'
  <1> USE DEF Types, TaskStops, End, Goto, request, provider, history, Action,
              Standing, OnRecord, Working, InSession
  <1>1. Aside(w)
    BY DEF Aside, Actions
  <1>2. OnRecord(w)'
    BY DEF Actions
  <1>3. Reported(w)'
    BY DEF Reported, Actions, Untaken
  <1>4. StillProven(w)'
    BY DEF StillProven, AtProvider
  <1>5. Untaken(w)'
    BY DEF Untaken, Actions
  <1>6. Storable(w)'
    BY DEF Storable
  <1>7. Safe(w)'
    BY DEF Safe, Reported, StillProven, AtProvider, Actions, Statuses
  <1> QED BY <1>1, <1>2, <1>3, <1>4, <1>5, <1>6, <1>7

LEMMA DisconnectStands ==
  ASSUME Types, Types', NEW w \in Workers, Standing(w), Safe(w), Disconnect(w)
  PROVE  Aside(w) /\ Standing(w)' /\ Safe(w)'
  <1> USE DEF Types, Disconnect, Goto, request, provider, history, Action,
              Standing, OnRecord, Working, InSession
  <1>1. Aside(w)
    BY DEF Aside, Actions
  <1>2. OnRecord(w)'
    BY DEF Actions
  <1>3. Reported(w)'
    BY DEF Reported, Actions, Untaken
  <1>4. StillProven(w)'
    BY DEF StillProven, AtProvider
  <1>5. Untaken(w)'
    BY DEF Untaken, Actions
  <1>6. Storable(w)'
    BY DEF Storable
  <1>7. Safe(w)'
    BY DEF Safe, Reported, StillProven, AtProvider, Actions, Statuses
  <1> QED BY <1>1, <1>2, <1>3, <1>4, <1>5, <1>6, <1>7

LEMMA StopStands ==
  ASSUME Types, Types', NEW w \in Workers, Standing(w), Safe(w), Stop(w)
  PROVE  Aside(w) /\ Standing(w)' /\ Safe(w)'
  <1> USE DEF Types, Stop, Goto, request, provider, history, Action,
              Standing, OnRecord, Working, InSession
  <1>1. Aside(w)
    BY DEF Aside, Actions
  <1>2. OnRecord(w)'
    BY DEF Actions
  <1>3. Reported(w)'
    BY DEF Reported, Actions, Untaken
  <1>4. StillProven(w)'
    BY DEF StillProven, AtProvider
  <1>5. Untaken(w)'
    BY DEF Untaken, Actions
  <1>6. Storable(w)'
    BY DEF Storable
  <1>7. Safe(w)'
    BY DEF Safe, Reported, StillProven, AtProvider, Actions, Statuses
  <1> QED BY <1>1, <1>2, <1>3, <1>4, <1>5, <1>6, <1>7

LEMMA AskStands ==
  ASSUME Types, Types', NEW w \in Workers, Standing(w), Safe(w),
         NEW a \in Marks \cup Moves \cup {Delete}, NEW D \in SUBSET Messages, Ask(w, a, D)
  PROVE  Aside(w) /\ Standing(w)' /\ Safe(w)'
  <1> USE DEF Types, Ask, Goto, provider, history, Action, Standing, OnRecord, Working, InSession
  <1>1. Aside(w)
    BY DEF Aside
  <1>2. OnRecord(w)' /\ Reported(w)' /\ StillProven(w)' /\ Storable(w)'
    BY DEF Reported, StillProven, AtProvider, Storable
  <1>3. a # NoAsk
    BY DEF Marks, Moves, Delete, NoAsk
  <1>4. Untaken(w)' /\ Safe(w)'
    BY <1>3 DEF Untaken, Safe
  <1> QED BY <1>1, <1>2, <1>4

LEMMA WorkerStands ==
  ASSUME Types, Types', NEW w \in Workers, Standing(w), Safe(w), WorkerStep(w)
  PROVE  Aside(w) /\ Standing(w)' /\ Safe(w)'
  BY AskStands, FolderStands, ClaimStands, SourceStands, OpenStands, CheckStands, StoreStands,
     MoveStands, ExpungeStands, ConfirmStands, RecordStands, TaskStopsStands, DisconnectStands,
     StopStands DEF WorkerStep

\* What other clients and the provider do: UIDs lose their message at any time,
\* and get another only while no session has INBOX selected.
LEMMA ProviderStands ==
  ASSUME Types, NEW v \in Workers, Standing(v), Safe(v), UNCHANGED <<request, pc, verdict, row, history>>,
         (\A u \in Messages : at'[u] \in {at[u], Nobody}) \/ (\A w \in Workers : pc[w] \notin InSession)
  PROVE  Standing(v)' /\ Safe(v)'
  <1> USE DEF request, history, Standing, Action, Types
  <1>1. OnRecord(v)' /\ Reported(v)' /\ Untaken(v)' /\ Storable(v)'
    BY DEF OnRecord, Reported, Untaken, Storable
  <1>2. StillProven(v)'
    BY DEF StillProven, AtProvider, InSession, OnRecord, Working
  <1>3. Safe(v)'
    BY DEF Safe
  <1> QED BY <1>1, <1>2, <1>3

-----------------------------------------------------------------------------
(* The theorems. *)

LEMMA StepIInv == IInv /\ [Next]_vars => IInv'
  <1> SUFFICES ASSUME IInv, [Next]_vars PROVE IInv'
    OBVIOUS
  <1>1. Types /\ \A w \in Workers : Standing(w) /\ Safe(w)
    BY SafeForAll DEF IInv
  <1>2. Types'
    BY <1>1, StepTypes DEF Standing
  <1>3. ASSUME NEW w \in Workers, WorkerStep(w)
        PROVE  \A v \in Workers : Standing(v)' /\ Safe(v)'
    BY <1>1, <1>2, <1>3, WorkerStands, AsideStands
  <1>4. ASSUME NEW m \in Messages, NEW flag \in Flags \cup {"Deleted"}, OtherStore(m, flag)
        PROVE  \A v \in Workers : Standing(v)' /\ Safe(v)'
    BY <1>1, <1>4, ProviderStands DEF OtherStore
  <1>5. ASSUME NEW u \in Messages, OtherRemove(u)
        PROVE  \A v \in Workers : Standing(v)' /\ Safe(v)'
    <2>1. \A x \in Messages : at'[x] \in {at[x], Nobody}
      BY <1>1, <1>5 DEF OtherRemove, Types
    <2> QED BY <1>1, <1>5, <2>1, ProviderStands DEF OtherRemove
  <1>6. ASSUME NEW u \in Messages, NEW v \in Messages, Renumber(u, v)
        PROVE  \A w \in Workers : Standing(w)' /\ Safe(w)'
    BY <1>1, <1>6, ProviderStands DEF Renumber
  <1>7. ASSUME UNCHANGED vars PROVE \A v \in Workers : Standing(v)' /\ Safe(v)'
    <2>1. /\ \A x \in Messages : at'[x] \in {at[x], Nobody}
          /\ UNCHANGED <<request, pc, verdict, row, history>>
      BY <1>7 DEF vars, request, history
    <2>2. ASSUME NEW v \in Workers PROVE Standing(v)' /\ Safe(v)'
      BY <1>1, <2>1, ProviderStands
    <2> QED BY <2>2
  <1>8. \A v \in Workers : Standing(v)' /\ Safe(v)'
    BY <1>3, <1>4, <1>5, <1>6, <1>7 DEF Next
  <1>9. TouchesOnlyItsMessage' /\ RecordIsTrue'
    BY <1>8 DEF Safe, TouchesOnlyItsMessage, RecordIsTrue, Actions
  <1> QED BY <1>2, <1>8, <1>9 DEF IInv

LEMMA AlwaysIInv == Spec => []IInv
  BY InitIInv, StepIInv, PTL DEF Spec

\* Every request, place and record keeps its type, and a worker that has INBOX
\* selected has made its record.
THEOREM TypeCorrect == Spec => []TypeOK
  <1>1. IInv => TypeOK
    BY Typed DEF IInv, Standing
  <1> QED BY <1>1, AlwaysIInv, PTL

\* An action changes no other message than its own, whoever else works on the
\* mailbox and however often INBOX is renumbered between sessions.
THEOREM OnlyItsMessage == Spec => []TouchesOnlyItsMessage
  <1>1. IInv => TouchesOnlyItsMessage
    BY DEF IInv
  <1> QED BY <1>1, AlwaysIInv, PTL

\* The record of an action is true: done was read back, a change is on record,
\* and a lost answer is not a refusal.
THEOREM RecordsStandTrue == Spec => []RecordIsTrue
  <1>1. IInv => RecordIsTrue
    BY DEF IInv
  <1> QED BY <1>1, AlwaysIInv, PTL
=============================================================================
