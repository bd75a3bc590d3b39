------------------------------ MODULE Watching ------------------------------
(***************************************************************************)
(* How a running service keeps a watcher on every enabled mailbox: the     *)
(* database's mailbox announcements, the rounds they wake, and each        *)
(* mailbox's watcher, which syncs, holds an IMAP IDLE until the provider   *)
(* reports new mail, and ends on a failure.  A sync is one step here;      *)
(* MailboxImport has its inside.                                           *)
(***************************************************************************)
EXTENDS Naturals

CONSTANTS
  Mailboxes,
  DatabaseFails   \* whether reads and writes of the service's database may fail

ASSUME WatchingAssumption == DatabaseFails \in BOOLEAN

VARIABLES
  status,         \* each mailbox's row: "absent", "enabled", "disabled" or "deleted"
  failing,        \* whether it records a failure (last_error_code)
  subscription,   \* of the service to announcements: "held", "ended", "given up"
  announced,      \* an announcement the subscription has yet to hand over
  permit,         \* the permit of the Notify that wakes a round
  round,          \* "waiting", "reconciling" or "starting"
  listed,         \* the enabled mailboxes the round has read
  unlisted,       \* history: a round could not list the mailboxes
  watcher,        \* where each mailbox's watcher is
  told,           \* EXISTS reached the IDLE the watcher holds
  unread          \* the provider holds mail no sync has read

service == <<subscription, announced, permit, round, listed, unlisted>>
vars == <<status, failing, service, watcher, told, unread>>

\* A watcher that recorded its failure, or found its mailbox disabled, still
\* has to return before its task is finished.
Active == {"sync", "check", "credentials", "idle", "recording"}
Watchers == Active \cup {"none", "failed", "left", "finished"}

Stored(m) == status[m] \in {"enabled", "disabled"}

TypeOK ==
  /\ status \in [Mailboxes -> {"absent", "enabled", "disabled", "deleted"}]
  /\ failing \in [Mailboxes -> BOOLEAN]
  /\ \A m \in Mailboxes : failing[m] => Stored(m)
  /\ subscription \in {"held", "ended", "given up"}
  /\ announced \in BOOLEAN
  /\ permit \in BOOLEAN
  /\ round \in {"waiting", "reconciling", "starting"}
  /\ listed \subseteq Mailboxes
  /\ unlisted \in BOOLEAN
  /\ watcher \in [Mailboxes -> Watchers]
  /\ told \in [Mailboxes -> BOOLEAN]
  /\ unread \in [Mailboxes -> BOOLEAN]

\* start_watching: it holds a subscription before its first round.
Init ==
  /\ status \in [Mailboxes -> {"absent", "enabled", "disabled"}]
  /\ failing \in [Mailboxes -> BOOLEAN]
  /\ \A m \in Mailboxes : failing[m] => Stored(m)
  /\ subscription = "held"
  /\ announced = FALSE
  /\ permit = TRUE
  /\ round = "waiting"
  /\ listed = {}
  /\ unlisted = FALSE
  /\ watcher = [m \in Mailboxes |-> "none"]
  /\ told = [m \in Mailboxes |-> FALSE]
  /\ unread \in [Mailboxes -> BOOLEAN]

\* pg_notify reaches the subscription held when the write commits.
Announce == announced' = (announced \/ subscription = "held")

-----------------------------------------------------------------------------
(* The rows, written by anyone: the service, the commands, other hosts. *)

\* A failure that a successful sync clears is announced, nothing else of it is.
ClearFailure(m) ==
  /\ failing' = [failing EXCEPT ![m] = FALSE]
  /\ IF failing[m] THEN Announce ELSE UNCHANGED announced

Create(m) ==
  /\ status[m] = "absent"
  /\ status' = [status EXCEPT ![m] = "enabled"]
  /\ Announce
  /\ UNCHANGED <<failing, subscription, permit, round, listed, unlisted, watcher, told, unread>>

\* Declared again, or no longer declared, which is recorded as a failure.
Enable(m) ==
  /\ status[m] = "disabled"
  /\ status' = [status EXCEPT ![m] = "enabled"]
  /\ Announce
  /\ UNCHANGED <<failing, subscription, permit, round, listed, unlisted, watcher, told, unread>>

Disable(m) ==
  /\ status[m] = "enabled"
  /\ status' = [status EXCEPT ![m] = "disabled"]
  /\ failing' = [failing EXCEPT ![m] = TRUE]
  /\ Announce
  /\ UNCHANGED <<subscription, permit, round, listed, unlisted, watcher, told, unread>>

\* A mailbox created anew has another id.
Delete(m) ==
  /\ status[m] = "disabled"
  /\ status' = [status EXCEPT ![m] = "deleted"]
  /\ failing' = [failing EXCEPT ![m] = FALSE]
  /\ Announce
  /\ UNCHANGED <<subscription, permit, round, listed, unlisted, watcher, told, unread>>

\* A sync asked for by a command, a request or another host.
OtherSync(m) ==
  /\ Stored(m)
  /\ \/ /\ ClearFailure(m)
        /\ unread' = [unread EXCEPT ![m] = FALSE]
     \/ /\ failing' = [failing EXCEPT ![m] = TRUE]
        /\ UNCHANGED <<announced, unread>>
  /\ UNCHANGED <<status, subscription, permit, round, listed, unlisted, watcher, told>>

-----------------------------------------------------------------------------
(* Announcements and rounds. *)

\* next_announcement hands one over; the Notify keeps one permit.
Hear ==
  /\ subscription = "held" /\ announced
  /\ announced' = FALSE
  /\ permit' = TRUE
  /\ UNCHANGED <<status, failing, subscription, round, listed, unlisted, watcher, told, unread>>

\* The connection ends, with whatever it had not handed over.
SubscriptionEnds ==
  /\ subscription = "held"
  /\ subscription' = "ended"
  /\ announced' = FALSE
  /\ UNCHANGED <<status, failing, permit, round, listed, unlisted, watcher, told, unread>>

\* A subscription taken again wakes a round for what it missed.
Permitted_IfAnnounced == permit   \* mutant: only an announcement wakes a round

Permitted == TRUE

Resubscribe ==
  /\ subscription = "ended"
  /\ \/ subscription' = "held" /\ permit' = Permitted
     \/ subscription' = "given up" /\ UNCHANGED permit
  /\ UNCHANGED <<status, failing, announced, round, listed, unlisted, watcher, told, unread>>

StartRound ==
  /\ round = "waiting" /\ permit
  /\ permit' = FALSE
  /\ round' = "reconciling"
  /\ UNCHANGED <<status, failing, subscription, announced, listed, unlisted, watcher, told, unread>>

\* The round's reconciliation may have created, enabled or disabled mailboxes,
\* or recorded a refusal: those are the writes above.
ListMailboxes ==
  /\ round = "reconciling"
  /\ \/ /\ listed' = {m \in Mailboxes : status[m] = "enabled"}
        /\ round' = "starting"
        /\ UNCHANGED unlisted
     \/ /\ DatabaseFails
        /\ round' = "waiting"
        /\ unlisted' = TRUE
        /\ UNCHANGED listed
  /\ UNCHANGED <<status, failing, subscription, announced, permit, watcher, told, unread>>

\* Watchers whose task is finished are forgotten; a listed mailbox without one
\* gets a new one.
StartWatchers ==
  /\ round = "starting"
  /\ watcher' = [m \in Mailboxes |->
                   IF watcher[m] \notin {"none", "finished"} THEN watcher[m]
                   ELSE IF m \in listed THEN "sync" ELSE "none"]
  /\ round' = "waiting"
  /\ listed' = {}
  /\ UNCHANGED <<status, failing, subscription, announced, permit, unlisted, told, unread>>

-----------------------------------------------------------------------------
(* One watcher. *)

Goto(m, place) == watcher' = [watcher EXCEPT ![m] = place]

Sync(m) ==
  /\ watcher[m] = "sync"
  /\ \/ /\ Stored(m)
        /\ ClearFailure(m)
        /\ unread' = [unread EXCEPT ![m] = FALSE]
        /\ Goto(m, "check")
     \/ /\ Goto(m, "recording")
        /\ UNCHANGED <<failing, announced, unread>>
  /\ UNCHANGED <<status, subscription, permit, round, listed, unlisted, told>>

\* The mailbox read again after the sync; a read that fails is not recorded.
Check(m) ==
  /\ watcher[m] = "check"
  /\ \/ Goto(m, IF status[m] = "enabled" THEN "credentials" ELSE "left")
     \/ DatabaseFails /\ Goto(m, "left")
  /\ UNCHANGED <<status, failing, service, told, unread>>

\* Credentials, a connection and SELECT, then IDLE; or a failure of any.
OpenIdle(m) ==
  /\ watcher[m] = "credentials"
  /\ \E place \in {"idle", "recording"} : Goto(m, place)
  /\ told' = [told EXCEPT ![m] = FALSE]
  /\ UNCHANGED <<status, failing, service, unread>>

\* Where the loop goes when the provider reports new mail.
Woken_Check == "check"   \* mutant: the loop syncs only once

Woken == "sync"

Wake(m) ==
  /\ watcher[m] = "idle" /\ told[m]
  /\ told' = [told EXCEPT ![m] = FALSE]
  /\ Goto(m, Woken)
  /\ UNCHANGED <<status, failing, service, unread>>

IdleEnds(m) ==
  /\ watcher[m] = "idle"
  /\ told' = [told EXCEPT ![m] = FALSE]
  /\ Goto(m, "recording")
  /\ UNCHANGED <<status, failing, service, unread>>

Recordable_Always(m) == TRUE   \* mutant: the failure is inserted, not updated

Recordable(m) == Stored(m)

\* record_sync_failure, which updates no row of a mailbox deleted meanwhile, or
\* a database that refuses it.
Record(m) ==
  /\ watcher[m] = "recording"
  /\ \/ Recordable(m) /\ failing' = [failing EXCEPT ![m] = TRUE]
     \/ (~Recordable(m) \/ DatabaseFails) /\ UNCHANGED failing
  /\ Goto(m, "failed")
  /\ UNCHANGED <<status, service, told, unread>>

Finish(m) ==
  /\ watcher[m] \in {"failed", "left"}
  /\ Goto(m, "finished")
  /\ UNCHANGED <<status, failing, service, told, unread>>

\* New mail is announced to a watcher that holds its IDLE, and to no other.
Arrive(m) ==
  /\ unread' = [unread EXCEPT ![m] = TRUE]
  /\ told' = [told EXCEPT ![m] = watcher[m] = "idle"]
  /\ UNCHANGED <<status, failing, service, watcher>>

WatcherStep(m) == Sync(m) \/ Check(m) \/ OpenIdle(m) \/ Wake(m) \/ Record(m) \/ Finish(m)

Next ==
  \/ Hear \/ SubscriptionEnds \/ Resubscribe
  \/ StartRound \/ ListMailboxes \/ StartWatchers
  \/ \E m \in Mailboxes : \/ WatcherStep(m) \/ IdleEnds(m) \/ Arrive(m)
                          \/ Create(m) \/ Enable(m) \/ Disable(m) \/ Delete(m)
                          \/ OtherSync(m)

\* The tasks of the service run, and what they wait for answers or fails; an
\* IDLE may last for ever.
Fairness ==
  /\ WF_vars(Hear) /\ WF_vars(Resubscribe)
  /\ WF_vars(StartRound) /\ WF_vars(ListMailboxes) /\ WF_vars(StartWatchers)
  /\ \A m \in Mailboxes : WF_vars(WatcherStep(m))

Spec == Init /\ [][Next]_vars /\ Fairness

-----------------------------------------------------------------------------
(* Properties. *)

\* A round is due, or the service has said why none will be.
RoundIsDue ==
  permit \/ round = "reconciling" \/ announced \/ subscription # "held" \/ unlisted

\* No announcement is lost between the database and a round: an enabled mailbox
\* never watched so far has one coming that will list it.
UnwatchedIsDue ==
  \A m \in Mailboxes :
    status[m] = "enabled" /\ watcher[m] = "none" =>
      RoundIsDue \/ (round = "starting" /\ m \in listed)

\* A mailbox declared anywhere is watched, through any number of subscriptions
\* that end, unless the service reports that it stopped or cannot list.
DeclaredIsWatched ==
  \A m \in Mailboxes :
    status[m] = "enabled" ~>
      watcher[m] # "none" \/ status[m] # "enabled" \/ subscription = "given up" \/ unlisted

\* Mail a provider announced to an IDLE is read, unless the watcher ends.
AnnouncedMailIsRead ==
  \A m \in Mailboxes : told[m] ~> ~unread[m] \/ watcher[m] \notin Active

-----------------------------------------------------------------------------
(* What the code does not keep. *)

\* "A watcher that stopped on a failure starts again once a sync of its mailbox
\* succeeds": one whose recorded failure is cleared while it ends is active
\* again in time.
RestartsOnceSynced ==
  \A m \in Mailboxes :
    watcher[m] = "failed" /\ ~failing[m] /\ status[m] = "enabled" ~>
      \/ watcher[m] \in Active
      \/ failing[m] \/ status[m] # "enabled" \/ subscription = "given up" \/ unlisted
=============================================================================
