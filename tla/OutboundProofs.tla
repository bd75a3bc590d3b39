--------------------------- MODULE OutboundProofs ---------------------------
(***************************************************************************)
(* Proofs about Outbound for any sets of calls, processes, mailboxes, keys *)
(* and addresses: its type invariant, that no key hands out two copies,    *)
(* that a row's status is evidence, that a verdict is final, that every    *)
(* step is one of SendOnce or none, and that nothing is claimed for a      *)
(* suppressed recipient.                                                   *)
(***************************************************************************)
EXTENDS Outbound, TLAPS

\* A row is owned by a call past its claim, under the key it asked for, of a
\* mailbox that is stored.
RowsAreOwned ==
  \A k \in Keys :
    /\ rows[k].id = Nobody <=> rows[k].status = "none"
    /\ rows[k].id # Nobody => /\ Key(rows[k].id) = k
                              /\ req[rows[k].id].mailbox \in mailboxes
                              /\ pc[rows[k].id] \notin Unclaimed

\* A claimant whose mailbox is stored still owns the row of its key.
ClaimsAreHeld ==
  \A c \in Claimants :
    /\ pc[c] \notin Unclaimed
    /\ req[c].mailbox \in mailboxes => Mine(c)

\* Two claimants under one key are of different mailboxes.
SlotsAreApart ==
  \A c, d \in Claimants :
    c # d /\ Key(c) = Key(d) => req[c].mailbox # req[d].mailbox

\* What a call's place says of its mail, and what a status says of its call.
PlacesAreEvidence ==
  \A c \in Calls :
    /\ pc[c] \in {"claimed", "load", "credentials", "refused", "submitting", "detached"}
         => c \notin accepted
    /\ pc[c] = "refused" => verdict[c] = "failed"
    /\ pc[c] = "answered" => /\ verdict[c] # "none"
                             /\ verdict[c] = "sent" => c \in accepted
                             /\ verdict[c] = "failed" => c \notin accepted

StatusesAreEvidence ==
  \A k \in Keys :
    LET c == rows[k].id
    IN  /\ rows[k].status = "sent" => c \in accepted /\ pc[c] = "over"
        /\ rows[k].status = "failed" => c \notin accepted /\ pc[c] = "over"
        /\ rows[k].status = "pending" => c \notin accepted /\ pc[c] \in {"claimed", "over"}

IInv == /\ TypeOK
        /\ RowsAreOwned
        /\ ClaimsAreHeld
        /\ SlotsAreApart
        /\ PlacesAreEvidence
        /\ StatusesAreEvidence

\* The types, which every other proof rests on.
LEMMA InitTypeOK == Init => TypeOK
  BY OutboundAssumption DEF Init, TypeOK, Requests, NoRow, Statuses, Verdicts, Places,
     Unclaimed

\* The row under a call's key.
LEMMA RowOfCall ==
  ASSUME TypeOK, NEW c \in Calls
  PROVE  /\ Key(c) \in Keys
         /\ req[c].mailbox \in Mailboxes
         /\ rows[Key(c)] = [id |-> rows[Key(c)].id, status |-> rows[Key(c)].status]
         /\ rows[Key(c)].id \in Calls \cup {Nobody}
         /\ rows[Key(c)].status \in Statuses
  BY DEF TypeOK, Key, Requests

LEMMA TypeOKStep == TypeOK /\ [Next]_vars => TypeOK'
  <1> SUFFICES ASSUME TypeOK, [Next]_vars PROVE TypeOK'
    OBVIOUS
  <1> USE OutboundAssumption DEF TypeOK, Places, Unclaimed, Claiming, Submitting, Goto,
          Statuses, Verdicts, asked
  <1>1. ASSUME NEW c \in Calls, Submit(c) PROVE TypeOK'
    BY <1>1 DEF Submit
  <1>2. ASSUME NEW c \in Calls, Lookup(c) PROVE TypeOK'
    BY <1>2 DEF Lookup
  <1>3. ASSUME NEW c \in Calls, Screen(c) PROVE TypeOK'
    BY <1>3 DEF Screen
  <1>4. ASSUME NEW c \in Calls, Refuse(c) PROVE TypeOK'
    BY <1>4 DEF Refuse
  <1>5. ASSUME NEW c \in Calls, Begin(c) PROVE TypeOK'
    BY <1>5, RowOfCall DEF Begin
  <1>6. ASSUME NEW c \in Calls, Claim(c) PROVE TypeOK'
    <2>1. rows' \in [Keys -> [id : Calls \cup {Nobody}, status : Statuses]]
      BY <1>6, RowOfCall DEF Claim
    <2>2. pc' \in [Calls -> Places]
      BY <1>6 DEF Claim
    <2> QED
      BY <1>6, <2>1, <2>2 DEF Claim
  <1>7. ASSUME NEW c \in Calls, ClaimTaken(c) PROVE TypeOK'
    BY <1>7 DEF ClaimTaken
  <1>8. ASSUME NEW c \in Calls, Reread(c) PROVE TypeOK'
    BY <1>8, RowOfCall DEF Reread
  <1>9. ASSUME NEW c \in Calls, MarkSending(c) PROVE TypeOK'
    BY <1>9, RowOfCall DEF MarkSending, SetStatus
  <1>10. ASSUME NEW c \in Calls, LoadMailbox(c) PROVE TypeOK'
    BY <1>10 DEF LoadMailbox, Prepare
  <1>11. ASSUME NEW c \in Calls, ResolveCredentials(c) PROVE TypeOK'
    BY <1>11 DEF ResolveCredentials, Prepare
  <1>12. ASSUME NEW c \in Calls, SmtpEnds(c) PROVE TypeOK'
    BY <1>12 DEF SmtpEnds
  <1>13. ASSUME NEW c \in Calls, Record(c) PROVE TypeOK'
    BY <1>13, RowOfCall DEF Record, SetStatus
  <1>14. ASSUME NEW c \in Calls, Disconnect(c) PROVE TypeOK'
    BY <1>14 DEF Disconnect
  <1>15. ASSUME NEW p \in Processes, Open(p) PROVE TypeOK'
    BY <1>15 DEF Open, RecoveredAs, Interrupted
  <1>16. ASSUME NEW p \in Processes, Stop(p) PROVE TypeOK'
    BY <1>16 DEF Stop
  <1>17. ASSUME NEW m \in Mailboxes, DeleteMailbox(m) PROVE TypeOK'
    BY <1>17 DEF DeleteMailbox, NoRow
  <1>18. ASSUME NEW o \in Orgs, NEW a \in Addresses, Suppress(o, a) PROVE TypeOK'
    BY <1>18 DEF Suppress
  <1>19. ASSUME NEW o \in Orgs, NEW a \in Addresses, Unsuppress(o, a) PROVE TypeOK'
    BY <1>19 DEF Unsuppress
  <1>20. CASE UNCHANGED vars
    BY <1>20 DEF vars
  <1> QED
    BY <1>1, <1>2, <1>3, <1>4, <1>5, <1>6, <1>7, <1>8, <1>9, <1>10, <1>11, <1>12, <1>13, <1>14, <1>15, <1>16, <1>17, <1>18, <1>19, <1>20 DEF Next, CallStep

THEOREM TypeCorrect == Spec => []TypeOK
  BY InitTypeOK, TypeOKStep, PTL DEF Spec

\* The inductive invariant holds at the start and is kept by every step.
LEMMA InitIInv == Init => IInv
  <1> SUFFICES ASSUME Init PROVE IInv
    OBVIOUS
  <1>1. TypeOK
    BY InitTypeOK
  <1> QED
    BY <1>1, OutboundAssumption
    DEF IInv, Init, RowsAreOwned, ClaimsAreHeld, SlotsAreApart, PlacesAreEvidence,
        StatusesAreEvidence, Claimants, Claiming, Submitting, Unclaimed, NoRow

LEMMA IInvStep == IInv /\ [Next]_vars => IInv'
  <1> SUFFICES ASSUME IInv, [Next]_vars PROVE IInv'
    OBVIOUS
  <1> USE OutboundAssumption DEF IInv, RowsAreOwned, ClaimsAreHeld, SlotsAreApart,
          PlacesAreEvidence, StatusesAreEvidence, Claimants, Claiming, Submitting,
          Unclaimed, Mine, Goto, asked
  <1>0. TypeOK /\ TypeOK'
    BY TypeOKStep
  <1>1. ASSUME NEW c \in Calls, Submit(c) PROVE IInv'
    BY <1>0, <1>1, RowOfCall DEF Submit, TypeOK, Key
  <1>2. ASSUME NEW c \in Calls, Lookup(c) PROVE IInv'
    BY <1>0, <1>2, RowOfCall DEF Lookup, TypeOK, Key
  <1>3. ASSUME NEW c \in Calls, Screen(c) PROVE IInv'
    BY <1>0, <1>3, RowOfCall DEF Screen, TypeOK, Key
  <1>4. ASSUME NEW c \in Calls, Refuse(c) PROVE IInv'
    BY <1>0, <1>4, RowOfCall DEF Refuse, TypeOK, Key
  <1>5. ASSUME NEW c \in Calls, Begin(c) PROVE IInv'
    BY <1>0, <1>5, RowOfCall DEF Begin, TypeOK, Key
  <1>6. ASSUME NEW c \in Calls, Claim(c) PROVE IInv'
    <2>1. /\ Key(c) \in Keys /\ rows[Key(c)].id = Nobody
          /\ pc[c] = "claim" /\ req[c].mailbox \in mailboxes
          /\ UNCHANGED <<req, mailboxes, verdict, accepted>>
      BY <1>0, <1>6, RowOfCall DEF Claim, KeyFree
    <2>2. \A k \in Keys :
            rows'[k] = IF k = Key(c) THEN [id |-> c, status |-> "pending"] ELSE rows[k]
      BY <1>0, <1>6 DEF Claim, TypeOK
    <2>3. /\ pc'[c] \in {"claimed", "over"}
          /\ \A d \in Calls : d # c => pc'[d] = pc[d]
      BY <1>0, <1>6 DEF Claim, TypeOK
    <2>4. RowsAreOwned'
      BY <1>0, <2>1, <2>2, <2>3 DEF TypeOK, Key
    <2>5. ClaimsAreHeld'
      <3> SUFFICES ASSUME NEW d \in Claimants'
                   PROVE  /\ pc'[d] \notin Unclaimed
                          /\ req[d].mailbox \in mailboxes' => rows'[Key(d)].id = d
        BY <2>1 DEF Key
      <3>1. d \in Calls /\ Key(d) \in Keys
        BY <1>0, RowOfCall DEF TypeOK
      <3> QED
        BY <3>1, <1>0, <2>1, <2>2, <2>3 DEF TypeOK
    <2>6. SlotsAreApart'
      BY <1>0, <2>1, <2>2, <2>3 DEF TypeOK, Key
    <2>7. PlacesAreEvidence'
      BY <1>0, <2>1, <2>2, <2>3 DEF TypeOK, Key
    <2>8. StatusesAreEvidence'
      BY <1>0, <2>1, <2>2, <2>3 DEF TypeOK, Key
    <2> QED
      BY <1>0, <2>4, <2>5, <2>6, <2>7, <2>8
  <1>7. ASSUME NEW c \in Calls, ClaimTaken(c) PROVE IInv'
    BY <1>0, <1>7, RowOfCall DEF ClaimTaken, TypeOK, Key
  <1>8. ASSUME NEW c \in Calls, Reread(c) PROVE IInv'
    BY <1>0, <1>8, RowOfCall DEF Reread, TypeOK, Key
  <1>9. ASSUME NEW c \in Calls, MarkSending(c) PROVE IInv'
    <2>1. /\ Key(c) \in Keys /\ pc[c] = "claimed" /\ c \notin accepted
          /\ UNCHANGED <<req, mailboxes, verdict, accepted>>
      BY <1>0, <1>9, RowOfCall DEF MarkSending
    <2>2. \A k \in Keys :
            \/ rows'[k] = rows[k] /\ (rows[k].id = c => pc'[c] = "over")
            \/ /\ rows[k].id = c /\ k = Key(c)
               /\ rows'[k].id = c /\ rows'[k].status = "sending"
      BY <1>0, <1>9 DEF MarkSending, SetStatus, TypeOK
    <2>3. /\ pc'[c] \in {"load", "over"}
          /\ \A d \in Calls : d # c => pc'[d] = pc[d]
      BY <1>0, <1>9 DEF MarkSending, TypeOK
    <2>4. RowsAreOwned'
      BY <1>0, <2>1, <2>2, <2>3 DEF TypeOK, Key
    <2>5. ClaimsAreHeld'
      <3> SUFFICES ASSUME NEW d \in Claimants'
                   PROVE  /\ pc'[d] \notin Unclaimed
                          /\ req[d].mailbox \in mailboxes' => rows'[Key(d)].id = d
        BY <2>1 DEF Key
      <3>1. d \in Calls /\ Key(d) \in Keys
        BY <1>0, RowOfCall DEF TypeOK
      <3> QED
        BY <3>1, <1>0, <2>1, <2>2, <2>3 DEF TypeOK
    <2>6. SlotsAreApart'
      BY <1>0, <2>1, <2>2, <2>3 DEF TypeOK, Key
    <2>7. PlacesAreEvidence'
      BY <1>0, <2>1, <2>2, <2>3 DEF TypeOK, Key
    <2>8. StatusesAreEvidence'
      BY <1>0, <2>1, <2>2, <2>3 DEF TypeOK, Key
    <2> QED
      BY <1>0, <2>4, <2>5, <2>6, <2>7, <2>8
  <1>10. ASSUME NEW c \in Calls, LoadMailbox(c) PROVE IInv'
    BY <1>0, <1>10, RowOfCall DEF LoadMailbox, Prepare, TypeOK, Key
  <1>11. ASSUME NEW c \in Calls, ResolveCredentials(c) PROVE IInv'
    BY <1>0, <1>11, RowOfCall DEF ResolveCredentials, Prepare, TypeOK, Key
  <1>12. ASSUME NEW c \in Calls, SmtpEnds(c) PROVE IInv'
    BY <1>0, <1>12, RowOfCall DEF SmtpEnds, Reads, Verdicts, TypeOK, Key
  <1>13. ASSUME NEW c \in Calls, Record(c) PROVE IInv'
    <2>1. /\ Key(c) \in Keys /\ pc[c] \in {"refused", "answered"}
          /\ UNCHANGED <<req, mailboxes, verdict, accepted>>
      BY <1>0, <1>13, RowOfCall DEF Record
    <2>2. /\ verdict[c] \in {"sent", "failed", "uncertain"}
          /\ verdict[c] = "sent" => c \in accepted
          /\ verdict[c] = "failed" => c \notin accepted
      BY <1>0, <2>1 DEF TypeOK, Verdicts
    <2>3. \A k \in Keys :
            \/ rows'[k] = rows[k]
            \/ /\ rows[k].id = c /\ k = Key(c)
               /\ rows'[k].id = c /\ rows'[k].status = verdict[c]
      BY <1>0, <1>13 DEF Record, SetStatus, TypeOK
    <2>4. /\ pc'[c] = "over"
          /\ \A d \in Calls : d # c => pc'[d] = pc[d]
      BY <1>0, <1>13 DEF Record, TypeOK
    <2>5. RowsAreOwned'
      BY <1>0, <2>1, <2>2, <2>3, <2>4 DEF TypeOK, Key
    <2>6. ClaimsAreHeld'
      <3> SUFFICES ASSUME NEW d \in Claimants'
                   PROVE  /\ pc'[d] \notin Unclaimed
                          /\ req[d].mailbox \in mailboxes' => rows'[Key(d)].id = d
        BY <2>1 DEF Key
      <3>1. d \in Calls /\ Key(d) \in Keys
        BY <1>0, RowOfCall DEF TypeOK
      <3> QED
        BY <3>1, <1>0, <2>1, <2>2, <2>3, <2>4 DEF TypeOK
    <2>7. SlotsAreApart'
      BY <1>0, <2>1, <2>2, <2>3, <2>4 DEF TypeOK, Key
    <2>8. PlacesAreEvidence'
      BY <1>0, <2>1, <2>2, <2>3, <2>4 DEF TypeOK, Key
    <2>9. StatusesAreEvidence'
      BY <1>0, <2>1, <2>2, <2>3, <2>4 DEF TypeOK, Key
    <2> QED
      BY <1>0, <2>5, <2>6, <2>7, <2>8, <2>9
  <1>14. ASSUME NEW c \in Calls, Disconnect(c) PROVE IInv'
    BY <1>0, <1>14, RowOfCall DEF Disconnect, TypeOK, Key
  <1>15. ASSUME NEW p \in Processes, Open(p) PROVE IInv'
    <2>1. UNCHANGED <<req, mailboxes, pc, verdict, accepted>>
      BY <1>15 DEF Open
    <2>2. \A k \in Keys :
            \/ rows'[k] = rows[k]
            \/ /\ rows[k].status = "sending"
               /\ rows'[k].id = rows[k].id /\ rows'[k].status = "uncertain"
      BY <1>0, <1>15 DEF Open, RecoveredAs, Interrupted, TypeOK
    <2>3. RowsAreOwned'
      BY <1>0, <2>1, <2>2 DEF TypeOK, Key
    <2>4. ClaimsAreHeld'
      <3> SUFFICES ASSUME NEW d \in Claimants'
                   PROVE  /\ pc'[d] \notin Unclaimed
                          /\ req[d].mailbox \in mailboxes' => rows'[Key(d)].id = d
        BY <2>1 DEF Key
      <3>1. d \in Calls /\ Key(d) \in Keys
        BY <1>0, RowOfCall DEF TypeOK
      <3> QED
        BY <3>1, <1>0, <2>1, <2>2 DEF TypeOK
    <2>5. SlotsAreApart'
      BY <1>0, <2>1, <2>2 DEF TypeOK, Key
    <2>6. PlacesAreEvidence'
      BY <1>0, <2>1, <2>2 DEF TypeOK, Key
    <2>7. StatusesAreEvidence'
      BY <1>0, <2>1, <2>2 DEF TypeOK, Key
    <2> QED
      BY <1>0, <2>3, <2>4, <2>5, <2>6, <2>7
  <1>16. ASSUME NEW p \in Processes, Stop(p) PROVE IInv'
    BY <1>0, <1>16 DEF Stop, TypeOK, Key
  <1>17. ASSUME NEW m \in Mailboxes, DeleteMailbox(m) PROVE IInv'
    <2>1. /\ UNCHANGED <<req, pc, verdict, accepted>>
          /\ mailboxes' = mailboxes \ {m}
      BY <1>17 DEF DeleteMailbox
    <2>2. \A k \in Keys :
            \/ rows[k].id # Nobody /\ req[rows[k].id].mailbox = m
               /\ rows'[k].id = Nobody /\ rows'[k].status = "none"
            \/ /\ rows[k].id = Nobody \/ req[rows[k].id].mailbox # m
               /\ rows'[k] = rows[k]
      BY <1>0, <1>17 DEF DeleteMailbox, NoRow, TypeOK
    <2>3. RowsAreOwned'
      BY <1>0, <2>1, <2>2 DEF TypeOK, Key
    <2>4. ClaimsAreHeld'
      <3> SUFFICES ASSUME NEW d \in Claimants'
                   PROVE  /\ pc'[d] \notin Unclaimed
                          /\ req[d].mailbox \in mailboxes' => rows'[Key(d)].id = d
        BY <2>1 DEF Key
      <3>1. d \in Calls /\ Key(d) \in Keys
        BY <1>0, RowOfCall DEF TypeOK
      <3> QED
        BY <3>1, <1>0, <2>1, <2>2 DEF TypeOK
    <2>5. SlotsAreApart'
      BY <1>0, <2>1, <2>2 DEF TypeOK, Key
    <2>6. PlacesAreEvidence'
      BY <1>0, <2>1, <2>2 DEF TypeOK, Key
    <2>7. StatusesAreEvidence'
      BY <1>0, <2>1, <2>2 DEF TypeOK, Key
    <2> QED
      BY <1>0, <2>3, <2>4, <2>5, <2>6, <2>7
  <1>18. ASSUME NEW o \in Orgs, NEW a \in Addresses, Suppress(o, a) PROVE IInv'
    BY <1>0, <1>18 DEF Suppress, Key
  <1>19. ASSUME NEW o \in Orgs, NEW a \in Addresses, Unsuppress(o, a) PROVE IInv'
    BY <1>0, <1>19 DEF Unsuppress, Key
  <1>20. CASE UNCHANGED vars
    BY <1>0, <1>20 DEF vars, Key
  <1> QED
    BY <1>1, <1>2, <1>3, <1>4, <1>5, <1>6, <1>7, <1>8, <1>9, <1>10, <1>11, <1>12, <1>13, <1>14, <1>15, <1>16, <1>17, <1>18, <1>19, <1>20 DEF Next, CallStep

THEOREM Invariant == Spec => []IInv
  BY InitIInv, IInvStep, PTL DEF Spec

-----------------------------------------------------------------------------
(* What the invariant says of the provider and of the rows. *)

\* No two calls ever hand over mail of one mailbox and key, and two mailboxes
\* share a key only after one is deleted.
THEOREM OneCopyPerKey == Spec => []AtMostOneCopy
  <1>1. IInv => AtMostOneCopy
    BY OutboundAssumption
    DEF IInv, ClaimsAreHeld, SlotsAreApart, AtMostOneCopy, Claimants, Mine, TypeOK, Requests
  <1> QED
    BY <1>1, Invariant, PTL

\* A row's status is evidence of what the provider did with its mail.
THEOREM StatusTells == Spec => []StatusIsEvidence
  <1>1. IInv => StatusIsEvidence
    BY DEF IInv, StatusIsEvidence, StatusesAreEvidence, Submitting
  <1> QED
    BY <1>1, Invariant, PTL

\* `sent` and `failed` are final while the row exists.
THEOREM VerdictStands == Spec => VerdictIsFinal
  <1> DEFINE Stands == \A k \in Keys : rows[k].status \in {"sent", "failed"} =>
                         rows'[k] \in {rows[k], NoRow}
  <1>1. IInv /\ [Next]_vars => [Stands]_vars
    <2> SUFFICES ASSUME IInv, Next, NEW k \in Keys, rows[k].status \in {"sent", "failed"}
                 PROVE rows'[k] \in {rows[k], NoRow}
      BY DEF vars
    <2> USE OutboundAssumption
    <2>1. pc[rows[k].id] = "over" /\ rows[k].id # Nobody /\ TypeOK
      BY DEF IInv, StatusesAreEvidence, RowsAreOwned
    <2>2. ASSUME NEW c \in Calls, CallStep(c) PROVE rows'[k] = rows[k]
      <3>1. CASE UNCHANGED rows
        BY <3>1
      <3>2. CASE Claim(c)
        BY <2>1, <3>2 DEF Claim, KeyFree, TypeOK
      <3>3. CASE MarkSending(c)
        BY <2>1, <3>3 DEF MarkSending, SetStatus, Mine, TypeOK
      <3>4. CASE Record(c)
        BY <2>1, <3>4 DEF Record, SetStatus, Mine, TypeOK
      <3> QED
        BY <2>2, <3>1, <3>2, <3>3, <3>4
        DEF CallStep, Submit, Lookup, Screen, Refuse, Begin, ClaimTaken, Reread, LoadMailbox,
            ResolveCredentials, Prepare, SmtpEnds, Disconnect
    <2>3. ASSUME NEW p \in Processes, Open(p) \/ Stop(p) PROVE rows'[k] = rows[k]
      BY <2>1, <2>3 DEF Open, Stop, Interrupted, TypeOK
    <2>4. ASSUME NEW m \in Mailboxes, DeleteMailbox(m) PROVE rows'[k] \in {rows[k], NoRow}
      BY <2>1, <2>4 DEF DeleteMailbox, TypeOK
    <2>5. ASSUME NEW o \in Orgs, NEW a \in Addresses, Suppress(o, a) \/ Unsuppress(o, a)
          PROVE rows'[k] = rows[k]
      BY <2>5 DEF Suppress, Unsuppress
    <2> QED
      BY <2>2, <2>3, <2>4, <2>5 DEF Next
  <1> QED
    BY <1>1, Invariant, PTL DEF Spec, VerdictIsFinal
-----------------------------------------------------------------------------
(* Outbound implements SendOnce.  The simulation needs one more fact of a   *)
(* claimed row: until its owner marks it, it is `pending`.                  *)

\* A claimed row not yet marked.
ClaimedIsPending ==
  \A c \in Calls : pc[c] = "claimed" /\ Mine(c) => rows[Key(c)].status = "pending"

LEMMA ClaimedIsPendingStep ==
  IInv /\ ClaimedIsPending /\ [Next]_vars => ClaimedIsPending'
  <1> SUFFICES ASSUME IInv, ClaimedIsPending, [Next]_vars, NEW c \in Calls,
                      pc'[c] = "claimed", rows'[Key(c)'].id = c
               PROVE  rows'[Key(c)'].status = "pending"
    BY DEF ClaimedIsPending, Mine
  <1>1. TypeOK /\ RowsAreOwned /\ TypeOK' /\ Key(c) \in Keys
    BY TypeOKStep, RowOfCall DEF IInv
  <1>2. UNCHANGED req /\ Key(c)' = Key(c)
    BY DEF Next, CallStep, Submit, Lookup, Screen, Refuse, Begin, Claim, ClaimTaken, Reread,
       MarkSending, LoadMailbox, ResolveCredentials, Prepare, SmtpEnds, Record, Disconnect,
       Open, Stop, DeleteMailbox, Suppress, Unsuppress, asked, vars, Key
  <1> USE OutboundAssumption DEF Goto, ClaimedIsPending, Mine
  <1>3. ASSUME NEW d \in Calls, Claim(d) PROVE rows'[Key(c)].status = "pending"
    <2>1. CASE d = c
      BY <1>1, <1>3, <2>1 DEF Claim, TypeOK
    <2>2. CASE d # c
      <3>1. pc[c] = "claimed" /\ Key(c) # Key(d) /\ rows'[Key(c)] = rows[Key(c)]
        BY <1>1, <1>2, <1>3, <2>2, RowOfCall DEF Claim, TypeOK
      <3> QED BY <3>1, <1>2
    <2> QED BY <2>1, <2>2
  <1>4. ASSUME NEW d \in Calls, MarkSending(d) \/ Record(d) PROVE rows'[Key(c)].status = "pending"
    <2>1. d # c
      BY <1>1, <1>4 DEF MarkSending, Record, TypeOK
    <2>2. pc[c] = "claimed"
      BY <1>1, <1>4, <2>1 DEF MarkSending, Record, TypeOK
    <2>3. rows'[Key(c)] = rows[Key(c)]
      BY <1>1, <1>2, <1>4, <2>1, RowOfCall DEF MarkSending, Record, SetStatus, TypeOK
    <2> QED BY <2>2, <2>3, <1>2
  <1>5. ASSUME NEW p \in Processes, Open(p) PROVE rows'[Key(c)].status = "pending"
    BY <1>1, <1>2, <1>5 DEF Open, Interrupted, TypeOK
  <1>6. ASSUME NEW m \in Mailboxes, DeleteMailbox(m) PROVE rows'[Key(c)].status = "pending"
    BY <1>1, <1>2, <1>6 DEF DeleteMailbox, NoRow, TypeOK
  <1>7. CASE UNCHANGED rows /\ (pc'[c] = "claimed" => pc[c] = "claimed")
    BY <1>2, <1>7
  <1>8. ASSUME NEW d \in Calls,
               Submit(d) \/ Lookup(d) \/ Screen(d) \/ Refuse(d) \/ Begin(d) \/ ClaimTaken(d) \/ Reread(d)
        PROVE  UNCHANGED rows /\ (pc'[c] = "claimed" => pc[c] = "claimed")
    BY <1>1, <1>8 DEF Submit, Lookup, Screen, Refuse, Begin, ClaimTaken, Reread, TypeOK
  <1>9. ASSUME NEW d \in Calls,
               LoadMailbox(d) \/ ResolveCredentials(d) \/ SmtpEnds(d) \/ Disconnect(d)
        PROVE  UNCHANGED rows /\ (pc'[c] = "claimed" => pc[c] = "claimed")
    BY <1>1, <1>9 DEF LoadMailbox, ResolveCredentials, Prepare, SmtpEnds, Disconnect, TypeOK
  <1>10. ASSUME NEW p \in Processes, Stop(p)
         PROVE  UNCHANGED rows /\ (pc'[c] = "claimed" => pc[c] = "claimed")
    BY <1>1, <1>10 DEF Stop, TypeOK
  <1>11. ASSUME NEW o \in Orgs, NEW a \in Addresses, Suppress(o, a) \/ Unsuppress(o, a)
         PROVE  UNCHANGED rows /\ (pc'[c] = "claimed" => pc[c] = "claimed")
    BY <1>11 DEF Suppress, Unsuppress
  <1>12. CASE UNCHANGED vars
    BY <1>7, <1>12 DEF vars
  <1> QED
    BY <1>2, <1>3, <1>4, <1>5, <1>6, <1>7, <1>8, <1>9, <1>10, <1>11, <1>12 DEF Next, CallStep

\* What a row that is there tells of its slot.
Told(status) == IF status \in {"pending", "sending"} THEN "open"
                ELSE IF status = "uncertain" THEN "unknown" ELSE status

Holds(s) == rows[s[2]].id # Nobody /\ req[rows[s[2]].id].mailbox = s[1]

\* Each slot's state, without the choice that defines it.
Views ==
  /\ SlotState = [s \in Slots |-> SlotState[s]]
  /\ \A s \in Slots :
       SlotState[s] = IF s[1] \notin mailboxes THEN "erased"
                      ELSE IF Holds(s) THEN Told(rows[s[2]].status) ELSE "free"

LEMMA Viewed == TypeOK => Views
  <1> SUFFICES ASSUME TypeOK, NEW s \in Slots
               PROVE  SlotState[s] = IF s[1] \notin mailboxes THEN "erased"
                                     ELSE IF Holds(s) THEN Told(rows[s[2]].status) ELSE "free"
    BY DEF Views, SlotState
  <1>1. CASE s[1] \notin mailboxes
    BY <1>1 DEF SlotState
  <1>2. CASE s[1] \in mailboxes /\ ~Holds(s)
    BY <1>2 DEF SlotState, Holds
  <1>3. CASE s[1] \in mailboxes /\ Holds(s)
    <2>1. CASE rows[s[2]].status \in {"pending", "sending"}
      BY <1>3, <2>1 DEF SlotState, Holds, Told
    <2>2. CASE rows[s[2]].status = "uncertain"
      BY <1>3, <2>2 DEF SlotState, Holds, Told
    <2>3. CASE rows[s[2]].status \notin {"pending", "sending", "uncertain"}
      BY <1>3, <2>3 DEF SlotState, Holds, Told
    <2> QED BY <2>1, <2>2, <2>3
  <1> QED BY <1>1, <1>2, <1>3

LEMMA ViewedNext == TypeOK' => Views'
  BY Viewed, PTL

\* Nothing SendOnce sees moves.
LEMMA Stutters ==
  ASSUME UNCHANGED <<req, mailboxes, rows, accepted>>
  PROVE  UNCHANGED Promise!vars
  BY DEF Promise!vars, SlotState, SlotCopies, Slots, Key

\* Writing a status into the row a call owns moves its slot and no other.
LEMMA RowRecorded ==
  ASSUME IInv, TypeOK', NEW c \in Calls, Mine(c), NEW status \in Statuses \ {"none"},
         rows' = [rows EXCEPT ![Key(c)].status = status], UNCHANGED <<req, mailboxes>>
  PROVE  /\ <<req[c].mailbox, Key(c)>> \in Slots
         /\ SlotState[<<req[c].mailbox, Key(c)>>] = Told(rows[Key(c)].status)
         /\ SlotState' = [SlotState EXCEPT ![<<req[c].mailbox, Key(c)>>] = Told(status)]
  <1> DEFINE slot == <<req[c].mailbox, Key(c)>>
  <1>1. /\ Views /\ Views' /\ slot \in Slots /\ c # Nobody /\ req[c].mailbox \in mailboxes
        /\ Key(c) \in Keys /\ slot[1] = req[c].mailbox /\ slot[2] = Key(c)
        /\ rows \in [Keys -> [id : Calls \cup {Nobody}, status : Statuses]]
    BY Viewed, ViewedNext, RowOfCall, OutboundAssumption
    DEF IInv, TypeOK, RowsAreOwned, Mine, Slots
  <1>2. Holds(slot) /\ rows'[Key(c)].id = c /\ rows'[Key(c)].status = status
    BY <1>1 DEF Holds, Mine
  <1>3. ASSUME NEW s \in Slots, s # slot PROVE SlotState'[s] = SlotState[s]
    <2>1. s[2] \in Keys /\ s = <<s[1], s[2]>>
      BY DEF Slots
    <2>2. CASE s[2] # Key(c)
      <3>1. rows'[s[2]] = rows[s[2]] /\ Holds(s)' = Holds(s)
        BY <1>1, <2>1, <2>2 DEF Holds
      <3> QED BY <1>1, <3>1 DEF Views
    <2>3. CASE s[2] = Key(c)
      <3>1. ~Holds(s) /\ ~Holds(s)'
        BY <1>1, <1>3, <2>1, <2>3 DEF Holds, Mine
      <3> QED BY <1>1, <3>1 DEF Views
    <2> QED BY <2>2, <2>3
  <1>4. SlotState[slot] = Told(rows[Key(c)].status)
    BY <1>1, <1>2 DEF Views
  <1>5. ASSUME NEW s \in Slots, s = slot PROVE SlotState'[s] = Told(status)
    <2>1. Holds(s)' /\ s[1] \in mailboxes' /\ rows'[s[2]].status = status
      BY <1>1, <1>2, <1>5 DEF Holds
    <2> QED BY <1>1, <2>1 DEF Views, Told
  <1> QED BY <1>1, <1>3, <1>4, <1>5 DEF Views

\* Mail the provider takes of calls that are at it is a delivery: each had its
\* slot claimed, and no other call of the slot ever had.
LEMMA Delivers ==
  ASSUME IInv, NEW took \in SUBSET {c \in Calls : pc[c] \in Submitting},
         accepted' = accepted \cup took, UNCHANGED <<req, mailboxes, rows>>
  PROVE  Promise!Deliver
  <1>1. TypeOK /\ Views /\ took \subseteq Claimants \ accepted /\ accepted \subseteq Claimants
    BY Viewed DEF IInv, PlacesAreEvidence, Claimants, Claiming, Submitting, TypeOK
  <1>2. UNCHANGED SlotState
    BY DEF SlotState
  <1>3. SlotCopies' \in [Slots -> SUBSET Calls]
    BY <1>1 DEF SlotCopies, TypeOK
  <1>4. ASSUME NEW s \in Slots, SlotCopies'[s] # SlotCopies[s]
        PROVE  /\ SlotState[s] \in {"open", "unknown", "erased"}
               /\ SlotCopies[s] = {} /\ \E c \in Calls : SlotCopies'[s] = {c}
    <2>1. /\ SlotCopies[s] = {c \in accepted : req[c].mailbox = s[1] /\ Key(c) = s[2]}
          /\ SlotCopies'[s] = {c \in accepted \cup took : req[c].mailbox = s[1] /\ Key(c) = s[2]}
      BY DEF SlotCopies, Key
    <2>2. PICK c \in took : c \notin accepted /\ req[c].mailbox = s[1] /\ Key(c) = s[2]
      BY <1>4, <2>1
    <2>3. \A d \in Claimants : req[d].mailbox = s[1] /\ Key(d) = s[2] => d = c
      BY <1>1, <2>2 DEF IInv, SlotsAreApart
    <2>4. SlotCopies[s] = {} /\ SlotCopies'[s] = {c}
      BY <1>1, <2>1, <2>2, <2>3
    <2>5. SlotState[s] \in {"open", "unknown", "erased"}
      <3>1. CASE s[1] \notin mailboxes
        BY <1>1, <3>1 DEF Views
      <3>2. CASE s[1] \in mailboxes
        <4>1. c \in Calls /\ s[2] \in Keys /\ rows[s[2]].id = c /\ pc[c] \in Submitting
          BY <1>1, <2>2, <3>2 DEF IInv, ClaimsAreHeld, Mine, Slots
        <4>2. rows[s[2]].status \in {"sending", "uncertain"} /\ Holds(s)
          BY <1>1, <2>2, <4>1, OutboundAssumption
          DEF IInv, StatusesAreEvidence, RowsAreOwned, TypeOK, Statuses, Submitting, Holds
        <4> QED BY <1>1, <3>2, <4>2 DEF Views, Told
      <3> QED BY <3>1, <3>2
    <2> QED BY <2>4, <2>5, <1>1, <2>2
  <1> QED BY <1>2, <1>3, <1>4 DEF Promise!Deliver

LEMMA RecordSettles ==
  ASSUME IInv, TypeOK', NEW c \in Calls, Record(c)
  PROVE  Promise!Next \/ UNCHANGED Promise!vars
  <1> DEFINE slot == <<req[c].mailbox, Key(c)>>
  <1>1. /\ UNCHANGED <<req, mailboxes, accepted>> /\ pc[c] \in {"refused", "answered"}
        /\ TypeOK /\ c \in Claimants /\ Key(c) \in Keys
    BY RowOfCall DEF IInv, Record, asked, Claimants, Claiming
  <1>2. CASE UNCHANGED rows
    BY <1>1, <1>2, Stutters
  <1>3. CASE Mine(c) /\ rows' = [rows EXCEPT ![Key(c)].status = verdict[c]]
    <2>1. /\ verdict[c] \in {"sent", "failed", "uncertain"}
          /\ verdict[c] = "sent" => c \in accepted
          /\ verdict[c] = "failed" => c \notin accepted
      BY <1>1 DEF IInv, PlacesAreEvidence, TypeOK, Verdicts
    <2>2. rows[Key(c)].status \in {"sending", "uncertain"}
      BY <1>1, <1>3, OutboundAssumption
      DEF IInv, RowsAreOwned, StatusesAreEvidence, TypeOK, Statuses, Mine
    <2>3. /\ slot \in Slots /\ SlotState[slot] \in {"open", "unknown"}
          /\ SlotState' = [SlotState EXCEPT ![slot] = Told(verdict[c])]
      BY <1>1, <1>3, <2>1, <2>2, RowRecorded DEF Told, Statuses
    <2>4. UNCHANGED SlotCopies
      BY <1>1 DEF SlotCopies, Key
    <2>5. SlotCopies[slot] = {d \in accepted : req[d].mailbox = req[c].mailbox /\ Key(d) = Key(c)}
      BY <2>3 DEF SlotCopies
    <2>6. CASE verdict[c] = "sent"
      <3>1. SlotCopies[slot] # {} /\ Told(verdict[c]) = "sent"
        BY <2>1, <2>5, <2>6 DEF Told
      <3> QED BY <2>3, <2>4, <3>1 DEF Promise!Next, Promise!Settle
    <2>7. CASE verdict[c] = "failed"
      <3>1. \A d \in accepted : ~(req[d].mailbox = req[c].mailbox /\ Key(d) = Key(c))
        BY <1>1, <2>1, <2>7 DEF IInv, SlotsAreApart, Claimants
      <3>2. SlotCopies[slot] = {} /\ Told(verdict[c]) = "failed"
        BY <2>5, <2>7, <3>1 DEF Told
      <3> QED BY <2>3, <2>4, <3>2 DEF Promise!Next, Promise!Settle
    <2>8. CASE verdict[c] = "uncertain"
      <3> DEFINE lost == {slot} \cap {s \in Slots : SlotState[s] = "open"}
      <3>1. Views /\ Told(verdict[c]) = "unknown"
        BY <1>1, <2>8, Viewed DEF Told
      <3>2. SlotState' = [s \in Slots |-> IF s \in lost THEN "unknown" ELSE SlotState[s]]
        BY <2>3, <3>1 DEF Views
      <3>3. lost \in SUBSET {s \in Slots : SlotState[s] = "open"}
        OBVIOUS
      <3> HIDE DEF lost
      <3> QED BY <2>4, <3>2, <3>3 DEF Promise!Next, Promise!Interrupt
    <2> QED BY <2>1, <2>6, <2>7, <2>8
  <1> QED BY <1>2, <1>3 DEF Record, SetStatus

LEMMA ClaimTakesSlot ==
  ASSUME IInv, TypeOK', NEW c \in Calls, Claim(c)
  PROVE  Promise!Next
  <1> DEFINE slot == <<req[c].mailbox, Key(c)>>
  <1>1. /\ UNCHANGED <<req, mailboxes, accepted>> /\ TypeOK /\ Key(c) \in Keys /\ slot \in Slots
        /\ req[c].mailbox \in mailboxes /\ rows[Key(c)].id = Nobody
        /\ rows' = [rows EXCEPT ![Key(c)] = [id |-> c, status |-> "pending"]]
        /\ slot[1] = req[c].mailbox /\ slot[2] = Key(c) /\ c # Nobody
    BY RowOfCall, OutboundAssumption DEF IInv, Claim, KeyFree, asked, Slots
  <1>2. /\ Views /\ Views' /\ rows \in [Keys -> [id : Calls \cup {Nobody}, status : Statuses]]
    BY <1>1, Viewed, ViewedNext DEF TypeOK
  <1>3. SlotState[slot] = "free"
    BY <1>1, <1>2 DEF Views, Holds
  <1>4. ASSUME NEW s \in Slots, s = slot PROVE SlotState'[s] = "open"
    <2>1. Holds(s)' /\ s[1] \in mailboxes' /\ rows'[s[2]].status = "pending"
      BY <1>1, <1>2, <1>4 DEF Holds
    <2> QED BY <1>2, <2>1 DEF Views, Told
  <1>5. ASSUME NEW s \in Slots, s # slot PROVE SlotState'[s] = SlotState[s]
    <2>1. s[2] \in Keys /\ s = <<s[1], s[2]>>
      BY DEF Slots
    <2>2. CASE s[2] # Key(c)
      <3>1. rows'[s[2]] = rows[s[2]] /\ Holds(s)' = Holds(s)
        BY <1>1, <1>2, <2>1, <2>2 DEF Holds
      <3> QED BY <1>1, <1>2, <3>1 DEF Views
    <2>3. CASE s[2] = Key(c)
      <3>1. ~Holds(s) /\ ~Holds(s)'
        BY <1>1, <1>2, <1>5, <2>1, <2>3 DEF Holds
      <3> QED BY <1>1, <1>2, <3>1 DEF Views
    <2> QED BY <2>2, <2>3
  <1>6. SlotState' = [SlotState EXCEPT ![slot] = "open"]
    BY <1>1, <1>2, <1>4, <1>5 DEF Views
  <1>7. UNCHANGED SlotCopies
    BY <1>1 DEF SlotCopies, Key
  <1> QED BY <1>1, <1>3, <1>6, <1>7 DEF Promise!Next, Promise!Claim

LEMMA OpenInterrupts ==
  ASSUME IInv, TypeOK', NEW p \in Processes, Open(p)
  PROVE  Promise!Next
  <1> DEFINE lost == {s \in Slots : Holds(s) /\ s[1] \in mailboxes /\ rows[s[2]].status = "sending"}
  <1>1. /\ UNCHANGED <<req, mailboxes, accepted>> /\ Views /\ Views'
        /\ rows \in [Keys -> [id : Calls \cup {Nobody}, status : Statuses]]
    BY Viewed, ViewedNext DEF IInv, Open, asked, TypeOK
  <1>2. \A k \in Keys :
          /\ rows'[k].id = rows[k].id
          /\ rows[k].status = "sending" => rows'[k].status = "uncertain"
          /\ rows[k].status # "sending" => rows'[k] = rows[k]
    BY <1>1 DEF Open, Interrupted, RecoveredAs
  <1>3. ASSUME NEW s \in Slots
        PROVE  SlotState'[s] = IF s \in lost THEN "unknown" ELSE SlotState[s]
    <2>1. s[2] \in Keys
      BY DEF Slots
    <2>2. rows'[s[2]].id = rows[s[2]].id /\ Holds(s)' = Holds(s)
      BY <1>1, <1>2, <2>1 DEF Holds
    <2>3. CASE s \in lost
      <3>1. rows'[s[2]].status = "uncertain"
        BY <1>2, <2>1, <2>3
      <3> QED BY <1>1, <2>2, <2>3, <3>1 DEF Views, Told
    <2>4. CASE s \notin lost /\ Holds(s) /\ s[1] \in mailboxes
      <3>1. rows'[s[2]] = rows[s[2]]
        BY <1>2, <2>1, <2>4
      <3> QED BY <1>1, <2>2, <2>4, <3>1 DEF Views
    <2>5. CASE ~Holds(s) \/ s[1] \notin mailboxes
      BY <1>1, <2>2, <2>5 DEF Views
    <2> QED BY <2>3, <2>4, <2>5
  <1>4. SlotState' = [s \in Slots |-> IF s \in lost THEN "unknown" ELSE SlotState[s]]
    <2> HIDE DEF lost
    <2> QED BY <1>1, <1>3 DEF Views
  <1>5. lost \in SUBSET {s \in Slots : SlotState[s] = "open"}
    BY <1>1 DEF Views, Told
  <1>6. UNCHANGED SlotCopies
    BY <1>1 DEF SlotCopies, Key
  <1> HIDE DEF lost
  <1> QED BY <1>4, <1>5, <1>6 DEF Promise!Next, Promise!Interrupt

LEMMA DeletionErases ==
  ASSUME IInv, TypeOK', NEW m \in Mailboxes, DeleteMailbox(m)
  PROVE  Promise!Next
  <1> DEFINE erased == {s \in Slots : s[1] = m}
  <1>1. /\ UNCHANGED <<req, accepted>> /\ mailboxes' = mailboxes \ {m} /\ Views /\ Views'
        /\ rows \in [Keys -> [id : Calls \cup {Nobody}, status : Statuses]]
    BY Viewed, ViewedNext DEF IInv, DeleteMailbox, asked, TypeOK
  <1>2. ASSUME NEW s \in Slots
        PROVE  SlotState'[s] = IF s \in erased THEN "erased" ELSE SlotState[s]
    <2>1. s[2] \in Keys
      BY DEF Slots
    <2>2. CASE s[1] = m
      BY <1>1, <2>2 DEF Views
    <2>3. CASE s[1] # m
      <3>1. rows'[s[2]] = IF rows[s[2]].id # Nobody /\ req[rows[s[2]].id].mailbox = m
                            THEN NoRow ELSE rows[s[2]]
        BY <2>1 DEF DeleteMailbox
      <3>2. Holds(s)' = Holds(s) /\ (Holds(s) => rows'[s[2]] = rows[s[2]])
        BY <1>1, <2>3, <3>1 DEF Holds, NoRow
      <3> QED BY <1>1, <2>3, <3>2 DEF Views
    <2> QED BY <2>2, <2>3
  <1>3. SlotState' = [s \in Slots |-> IF s \in erased THEN "erased" ELSE SlotState[s]]
    <2> HIDE DEF erased
    <2> QED BY <1>1, <1>2 DEF Views
  <1>4. UNCHANGED SlotCopies
    BY <1>1 DEF SlotCopies, Key
  <1>5. erased \in SUBSET Slots
    OBVIOUS
  <1> HIDE DEF erased
  <1> QED BY <1>3, <1>4, <1>5 DEF Promise!Next, Promise!Erase

LEMMA MarkingStutters ==
  ASSUME IInv, ClaimedIsPending, TypeOK', NEW c \in Calls, MarkSending(c)
  PROVE  UNCHANGED Promise!vars
  <1>1. /\ UNCHANGED <<req, mailboxes, accepted>> /\ pc[c] = "claimed" /\ TypeOK
        /\ Mine(c) => rows[Key(c)].status = "pending"
    BY DEF IInv, MarkSending, asked, ClaimedIsPending
  <1>2. CASE UNCHANGED rows
    BY <1>1, <1>2, Stutters
  <1>3. CASE Mine(c) /\ rows' = [rows EXCEPT ![Key(c)].status = "sending"]
    <2> DEFINE slot == <<req[c].mailbox, Key(c)>>
    <2>1. /\ slot \in Slots /\ SlotState[slot] = "open"
          /\ SlotState' = [SlotState EXCEPT ![slot] = "open"]
      BY <1>1, <1>3, RowRecorded DEF Told, Statuses
    <2>2. UNCHANGED SlotState
      BY <1>1, <2>1, Viewed DEF Views
    <2>3. UNCHANGED SlotCopies
      BY <1>1 DEF SlotCopies, Key
    <2> QED BY <2>2, <2>3 DEF Promise!vars
  <1> QED BY <1>2, <1>3 DEF MarkSending, SetStatus

LEMMA StepIsPromised ==
  IInv /\ ClaimedIsPending /\ [Next]_vars => [Promise!Next]_(Promise!vars)
  <1> SUFFICES ASSUME IInv, ClaimedIsPending, [Next]_vars
               PROVE  Promise!Next \/ UNCHANGED Promise!vars
    OBVIOUS
  <1>1. TypeOK /\ TypeOK'
    BY TypeOKStep DEF IInv
  <1>2. ASSUME NEW c \in Calls,
               \/ Submit(c) \/ Lookup(c) \/ Screen(c) \/ Refuse(c) \/ Begin(c) \/ ClaimTaken(c)
               \/ Reread(c) \/ LoadMailbox(c) \/ ResolveCredentials(c) \/ Disconnect(c)
        PROVE  UNCHANGED Promise!vars
    BY <1>2, Stutters DEF Submit, Lookup, Screen, Refuse, Begin, ClaimTaken, Reread, LoadMailbox,
       ResolveCredentials, Prepare, Disconnect, asked
  <1>3. ASSUME NEW c \in Calls, Claim(c) PROVE Promise!Next
    BY <1>1, <1>3, ClaimTakesSlot
  <1>4. ASSUME NEW c \in Calls, MarkSending(c) PROVE UNCHANGED Promise!vars
    BY <1>1, <1>4, MarkingStutters
  <1>5. ASSUME NEW c \in Calls, SmtpEnds(c) PROVE Promise!Next
    <2>1. pc[c] \in Submitting /\ UNCHANGED <<req, mailboxes, rows>>
      BY <1>5 DEF SmtpEnds, asked
    <2>2. accepted' = accepted \cup {c} \/ accepted' = accepted \cup {}
      BY <1>5 DEF SmtpEnds
    <2>3. {{c}, {}} \subseteq SUBSET {d \in Calls : pc[d] \in Submitting}
      BY <2>1
    <2> QED BY <2>1, <2>2, <2>3, Delivers DEF Promise!Next
  <1>6. ASSUME NEW c \in Calls, Record(c) PROVE Promise!Next \/ UNCHANGED Promise!vars
    BY <1>1, <1>6, RecordSettles
  <1>7. ASSUME NEW p \in Processes, Open(p) PROVE Promise!Next
    BY <1>1, <1>7, OpenInterrupts
  <1>8. ASSUME NEW p \in Processes, Stop(p) PROVE Promise!Next
    <2>1. PICK took \in SUBSET {c \in Calls : host[c] = p /\ pc[c] \in Submitting} :
            accepted' = accepted \cup took
      BY <1>8 DEF Stop
    <2>2. took \in SUBSET {c \in Calls : pc[c] \in Submitting}
      OBVIOUS
    <2> QED BY <1>8, <2>1, <2>2, Delivers DEF Stop, asked, Promise!Next
  <1>9. ASSUME NEW m \in Mailboxes, DeleteMailbox(m) PROVE Promise!Next
    BY <1>1, <1>9, DeletionErases
  <1>10. ASSUME NEW o \in Orgs, NEW a \in Addresses, Suppress(o, a) \/ Unsuppress(o, a)
         PROVE  UNCHANGED Promise!vars
    BY <1>10, Stutters DEF Suppress, Unsuppress, asked
  <1>11. CASE UNCHANGED vars
    BY <1>11, Stutters DEF vars
  <1> QED
    BY <1>2, <1>3, <1>4, <1>5, <1>6, <1>7, <1>8, <1>9, <1>10, <1>11 DEF Next, CallStep

LEMMA InitIsPromised == Init => Promise!Init /\ ClaimedIsPending
  <1> SUFFICES ASSUME Init PROVE Promise!Init /\ ClaimedIsPending
    OBVIOUS
  <1>1. TypeOK /\ Views
    BY InitTypeOK, Viewed
  <1>2. ASSUME NEW s \in Slots PROVE SlotState[s] = "free"
    BY <1>1 DEF Init, Views, Holds, Slots, NoRow
  <1>3. SlotState = [s \in Slots |-> "free"]
    BY <1>1, <1>2 DEF Views
  <1>4. SlotCopies = [s \in Slots |-> {}]
    BY DEF Init, SlotCopies
  <1> QED BY <1>3, <1>4 DEF Init, Promise!Init, ClaimedIsPending

\* The steps of every call, process and operator are steps of SendOnce or none:
\* however sends are repeated, interrupted and recovered, one copy of a slot's
\* mail is taken at most, and `sent` or `failed` is said on evidence, for good.
THEOREM OutboundKeepsPromise == Spec => KeepsPromise
  BY InitIInv, IInvStep, InitIsPromised, ClaimedIsPendingStep, StepIsPromised, PTL
  DEF Spec, KeepsPromise, Promise!Spec

-----------------------------------------------------------------------------
(* The suppression list. *)

\* A call suppressed all along stays outside: before the insert its key is
\* claimed by another, which no deletion undoes.
StaysOut(c) ==
  /\ req[c].to \in suppressed[Org(c)]
  /\ mailboxes = Mailboxes =>
       /\ pc[c] \notin Claiming /\ c \notin accepted
       /\ pc[c] \in {"begin", "claim"} => rows[Key(c)].id # Nobody

Outside == IInv /\ \A c \in listed : StaysOut(c)

\* Without a deletion a claimed key stays claimed.
LEMMA KeysStayClaimed ==
  TypeOK /\ [Next]_vars =>
    /\ UNCHANGED req /\ mailboxes' \subseteq mailboxes
    /\ mailboxes' = Mailboxes => mailboxes = Mailboxes
    /\ mailboxes' = Mailboxes => \A k \in Keys : rows[k].id # Nobody => rows'[k].id # Nobody
  <1> SUFFICES ASSUME TypeOK, [Next]_vars
               PROVE  /\ UNCHANGED req /\ mailboxes' \subseteq mailboxes
                      /\ mailboxes' = Mailboxes =>
                           \A k \in Keys : rows[k].id # Nobody => rows'[k].id # Nobody
    BY DEF TypeOK
  <1> USE OutboundAssumption DEF TypeOK, asked
  <1>1. ASSUME NEW c \in Calls, CallStep(c) PROVE UNCHANGED <<req, mailboxes>>
    BY <1>1 DEF CallStep, Submit, Lookup, Screen, Refuse, Begin, Claim, ClaimTaken, Reread,
       MarkSending, LoadMailbox, ResolveCredentials, Prepare, SmtpEnds, Record, Disconnect
  <1>2. ASSUME NEW c \in Calls, CallStep(c), NEW k \in Keys, rows[k].id # Nobody
        PROVE  rows'[k].id # Nobody
    <2>1. CASE Claim(c)
      BY <1>2, <2>1, RowOfCall DEF Claim
    <2>2. CASE MarkSending(c) \/ Record(c)
      BY <1>2, <2>2, RowOfCall DEF MarkSending, Record, SetStatus
    <2>3. CASE UNCHANGED rows
      BY <1>2, <2>3
    <2> QED
      BY <1>2, <2>1, <2>2, <2>3
      DEF CallStep, Submit, Lookup, Screen, Refuse, Begin, ClaimTaken, Reread, LoadMailbox,
          ResolveCredentials, Prepare, SmtpEnds, Disconnect
  <1>3. ASSUME NEW p \in Processes, Open(p) \/ Stop(p), NEW k \in Keys
        PROVE  UNCHANGED <<req, mailboxes>> /\ rows'[k].id = rows[k].id
    BY <1>3 DEF Open, Stop, RecoveredAs
  <1>4. ASSUME NEW m \in Mailboxes, DeleteMailbox(m)
        PROVE  UNCHANGED req /\ mailboxes' \subseteq mailboxes /\ mailboxes' # Mailboxes
    BY <1>4 DEF DeleteMailbox
  <1>5. ASSUME NEW o \in Orgs, NEW a \in Addresses, Suppress(o, a) \/ Unsuppress(o, a)
        PROVE  UNCHANGED <<req, mailboxes, rows>>
    BY <1>5 DEF Suppress, Unsuppress
  <1>6. CASE UNCHANGED vars
    BY <1>6 DEF vars
  <1>7. ASSUME NEW p \in Processes, Open(p) \/ Stop(p) PROVE UNCHANGED <<req, mailboxes>>
    BY <1>7 DEF Open, Stop
  <1> QED
    BY <1>1, <1>2, <1>3, <1>4, <1>5, <1>6, <1>7 DEF Next

LEMMA OutsideStep == Outside /\ [Next]_vars => Outside'
  <1> SUFFICES ASSUME Outside, [Next]_vars, NEW c \in listed' PROVE StaysOut(c)'
    BY IInvStep DEF Outside
  <1>1. /\ TypeOK /\ TypeOK' /\ c \in Calls /\ UNCHANGED req /\ Key(c) \in Keys
        /\ Key(c)' = Key(c) /\ Org(c)' = Org(c) /\ Org(c) \in Orgs
    BY TypeOKStep, KeysStayClaimed, RowOfCall, OutboundAssumption
    DEF Outside, IInv, TypeOK, Key, Org, Requests
  <1>2. /\ mailboxes' = Mailboxes => mailboxes = Mailboxes
        /\ mailboxes' = Mailboxes => (rows[Key(c)].id # Nobody => rows'[Key(c)].id # Nobody)
    BY <1>1, KeysStayClaimed
  <1>3. pc[c] = "idle" => c \notin accepted
    BY <1>1 DEF Outside, IInv, ClaimsAreHeld, Claimants, Unclaimed
  \* What is left to show of a step that leaves the list alone.
  <1>4. ASSUME c \in listed, UNCHANGED suppressed,
               mailboxes' = Mailboxes /\ mailboxes = Mailboxes =>
                 /\ pc'[c] \notin Claiming /\ c \notin accepted'
                 /\ pc'[c] \in {"begin", "claim"} => rows'[Key(c)].id # Nobody
        PROVE  StaysOut(c)'
    BY <1>1, <1>2, <1>4 DEF Outside, StaysOut
  <1>5. ASSUME c \in listed, UNCHANGED suppressed, pc'[c] = pc[c],
               mailboxes' = Mailboxes /\ mailboxes = Mailboxes /\ c \in accepted' => c \in accepted
        PROVE  StaysOut(c)'
    BY <1>2, <1>4, <1>5 DEF Outside, StaysOut
  <1>6. ASSUME NEW d \in Calls, d # c, CallStep(d) PROVE StaysOut(c)'
    <2>1. UNCHANGED suppressed /\ c \in listed /\ pc'[c] = pc[c]
      BY <1>1, <1>6 DEF CallStep, Submit, Lookup, Screen, Refuse, Begin, Claim, ClaimTaken, Reread,
         MarkSending, LoadMailbox, ResolveCredentials, Prepare, SmtpEnds, Record, Disconnect,
         Goto, TypeOK
    <2>2. c \in accepted' => c \in accepted
      BY <1>6 DEF CallStep, Submit, Lookup, Screen, Refuse, Begin, Claim, ClaimTaken, Reread,
         MarkSending, LoadMailbox, ResolveCredentials, Prepare, SmtpEnds, Record, Disconnect
    <2> QED BY <1>5, <2>1, <2>2
  <1>7. CASE Submit(c)
    <2>1. UNCHANGED <<suppressed, accepted>> /\ pc[c] = "idle" /\ pc'[c] = "lookup"
      BY <1>1, <1>7 DEF Submit, Goto, TypeOK
    <2>2. req[c].to \in suppressed[Org(c)]
      BY <1>7 DEF Submit, Outside, StaysOut
    <2> QED BY <1>1, <1>3, <2>1, <2>2 DEF StaysOut, Claiming, Submitting
  <1>8. CASE Lookup(c)
    <2>1. /\ UNCHANGED <<suppressed, accepted, listed, rows>> /\ pc[c] = "lookup"
          /\ pc'[c] = IF Found(c) THEN "begin" ELSE "screen"
      BY <1>1, <1>8 DEF Lookup, Goto, TypeOK
    <2> QED BY <1>4, <2>1 DEF Outside, StaysOut, Found, Claiming, Submitting
  <1>9. CASE Screen(c)
    BY <1>9 DEF Screen, Screened, Outside, StaysOut
  <1>10. CASE Begin(c)
    <2>1. /\ UNCHANGED <<suppressed, accepted, listed, rows>> /\ pc[c] = "begin"
          /\ pc'[c] \in {"claim", "over"}
      BY <1>1, <1>10 DEF Begin, Goto, TypeOK
    <2> QED BY <1>4, <2>1 DEF Outside, StaysOut, Claiming, Submitting
  <1>11. CASE Claim(c)
    <2>1. UNCHANGED <<suppressed, listed>> /\ pc[c] = "claim" /\ rows[Key(c)].id = Nobody
      BY <1>11 DEF Claim, KeyFree
    <2>2. mailboxes # Mailboxes
      BY <2>1 DEF Outside, StaysOut
    <2> QED BY <1>4, <2>1, <2>2
  <1>12. CASE Refuse(c) \/ ClaimTaken(c) \/ Reread(c)
    <2>1. UNCHANGED <<suppressed, accepted, listed>> /\ pc'[c] \in {"over", "reread"}
      BY <1>1, <1>12 DEF Refuse, ClaimTaken, Reread, Goto, TypeOK
    <2> QED BY <1>4, <2>1 DEF Outside, StaysOut, Claiming, Submitting
  <1>13. CASE \/ MarkSending(c) \/ LoadMailbox(c) \/ ResolveCredentials(c) \/ SmtpEnds(c)
              \/ Record(c) \/ Disconnect(c)
    <2>1. UNCHANGED <<suppressed, listed>> /\ pc[c] \in Claiming
      BY <1>13 DEF MarkSending, LoadMailbox, ResolveCredentials, Prepare, SmtpEnds, Record,
         Disconnect, Claiming, Submitting
    <2>2. mailboxes # Mailboxes
      BY <2>1 DEF Outside, StaysOut
    <2> QED BY <1>4, <2>1, <2>2
  <1>14. ASSUME NEW p \in Processes, Open(p) PROVE StaysOut(c)'
    BY <1>5, <1>14 DEF Open
  <1>15. ASSUME NEW p \in Processes, Stop(p) PROVE StaysOut(c)'
    <2>1. UNCHANGED <<suppressed, listed, rows>> /\ pc'[c] \in {"over", pc[c]}
      BY <1>1, <1>15 DEF Stop, TypeOK
    <2>2. mailboxes = Mailboxes /\ c \in accepted' => c \in accepted
      BY <1>1, <1>15, <2>1 DEF Stop, Outside, StaysOut, Claiming
    <2> QED BY <1>4, <2>1, <2>2 DEF Outside, StaysOut, Claiming, Submitting
  <1>16. ASSUME NEW m \in Mailboxes, DeleteMailbox(m) PROVE StaysOut(c)'
    <2>1. UNCHANGED <<suppressed, listed>> /\ mailboxes' # Mailboxes
      BY <1>16 DEF DeleteMailbox
    <2> QED BY <1>4, <2>1
  <1>17. ASSUME NEW o \in Orgs, NEW a \in Addresses, Suppress(o, a) \/ Unsuppress(o, a)
         PROVE  StaysOut(c)'
    <2>1. c \in listed /\ UNCHANGED <<mailboxes, pc, accepted, rows>>
      BY <1>17 DEF Suppress, Unsuppress
    <2>2. req[c].to \in suppressed'[Org(c)]
      BY <1>1, <1>17, <2>1 DEF Suppress, Unsuppress, TypeOK, Outside, StaysOut
    <2> QED BY <1>1, <2>1, <2>2 DEF Outside, StaysOut
  <1>18. CASE UNCHANGED vars
    BY <1>5, <1>18 DEF vars
  <1> QED
    BY <1>1, <1>6, <1>7, <1>8, <1>9, <1>10, <1>11, <1>12, <1>13, <1>14, <1>15, <1>16, <1>17, <1>18
    DEF Next, CallStep

\* Nothing is claimed, and nothing handed over, for a recipient suppressed from
\* before the call was made until now, unless a mailbox was deleted meanwhile.
THEOREM SuppressedStaysOut == Spec => []SuppressedNeverClaimed
  <1>1. Init => Outside
    BY InitIInv DEF Init, Outside
  <1>2. Outside => SuppressedNeverClaimed
    BY DEF Outside, StaysOut, SuppressedNeverClaimed, Claimants
  <1> QED BY <1>1, <1>2, OutsideStep, PTL DEF Spec
=============================================================================
