# A specification of Skrzynka

Skrzynka keeps an organization's mailboxes in one fleet database: it reads mail
over IMAP, sends mail over SMTP, and records what happened to each message.
The service (`skrzynka serve`) and every command open the same database, on any
number of hosts, so most of what can go wrong goes wrong between processes.
These TLA+ modules say what the parts promise, model the code that is to keep
the promises step by step, check it with TLC on small instances, and prove the
most important statements with TLAPS for instances of every size.

`PROJECT.json` holds the tables: components, runs, mutants, the source lines
behind each definition, findings, hazards and theorems. Paths below are
relative to `src/src/`.

## The system

| Component | State it keeps | Operations | Interacts with |
|---|---|---|---|
| Originated mail (`service/outbound.rs`, `db/outbound.rs`, `mail.rs`) | `outbound_messages`, UNIQUE idempotency key, status pending / sending / sent / failed / uncertain | originate, recover at open | suppression list, bounces, send limit, mailboxes, SMTP |
| Replies (`service/messages.rs`, `db/replies.rs`) | `reply_attempts`, same states | reply, recover at open | as originated mail |
| Unsubscribes (`service/unsubscribe`) | `unsubscribe_attempts`, same states | one-click over HTTP, mailto over SMTP | send limit (mailto only) |
| Suppression list (`service/suppressions`) | entries per organization | suppress, unsuppress, refuse | every send |
| Send limit and warm-up (`service/limits`, `db/messages/limits`) | `mailbox_send_limits` | claim under the row's lock, set, clear | every claim of a send, the clock |
| Reception (`service/sync.rs`, `mail/incoming.rs`, `db/messages/mod.rs`) | `messages`, the cursor `last_uid` of `mailboxes` | one pass: search, fetch, commit message and cursor together | IMAP, declarations, watching |
| Declarations (`service/mailboxes.rs`, `db/mailboxes.rs`) | `mailboxes` rows, the tag in Skarbiec | declare, undeclare, reconcile, delete | Skarbiec, reception |
| Watching (`service/mod.rs`, `db/sql/announcements.rs`, triggers in `db/sql/schema.sql`) | subscription, Notify permit, map of watchers | hear, round, watch one mailbox | reception, declarations, IMAP IDLE |
| Stored order and watching for messages (`service/watch`, `db/messages/stream`) | order numbers of stored messages | number under the import's lock, next after a number | reception, automatic replies |
| Drafts, their schedule and follow-ups (`service/drafts`, `service/follow_ups`) | `drafts` with instant, send key and recorded failure; follow-ups beside sent rows | write, merge, edit, schedule, hold back, send, send when due, nudge | originated mail, the clock, announcements |
| Automatic replies (`service/auto_replies`) | a mailbox's reply, the decision on each message | pass: claim, look, reply, record | stored order, replies |
| Provider actions (`service/actions`, `mail/actions`) | `message_actions` | mark, move, delete, of one message or a view's | IMAP |
| Inbox: tags, rules, filters, views, snoozes, mutes, threads, notes, blocked senders | rows beside stored messages | single writes, one by one over a listing, listings | reception, replies |
| Gmail authorization (`gmail`, `service/gmail`) | flows and access tokens in memory | start, callback, wait, connect, disconnect, resolve | Skarbiec, Google |
| HTTP API and authentication (`api`, `auth.rs`) | none | a role asked of the authority for each request | the identity authority, everything below |
| Received domains (`service/inbound`, `db/inbound`) | a feed's cursor | sync, read | reception's order |
| Templates, contacts, attachments | single rows and queries | listings, single writes | stored messages |
| Skarbiec client, command line, onboarding, database layer, models | none of their own beside files and connections | call and convert | everything |

What is hard in it: two processes claim one key or one day's last place; a
process dies, or opens the database, while another is at the SMTP server; the
caller of a request disconnects and half of the work goes on without it; two
passes import one mailbox whose row is deleted and made again under them;
announcements are lost with their connection; a listing is read and then acted
on row by row; a provider's INBOX changes between a command and its effect. The
`hazards` in `PROJECT.json` list these with their lines, the properties that
cover them, and the ones nothing covers.

What makes each part correct: a send claimed once is handed over at most once,
and its recorded status is evidence (originated mail, replies, unsubscribes,
drafts, actions); no day has more sends than its limit (send limit); no readable
mail is ever behind the cursor unstored (reception, declarations); every enabled
mailbox gets a watcher (watching); a reader of the stored order misses and
repeats nothing (stored order, automatic replies); a due draft is settled
(drafts); what is muted, blocked or snoozed stays out of what is listed (inbox);
a cached token is of a credential its item held meanwhile, and what a disconnection
read is revoked before its item goes (Gmail); a request acts for the organization
whose role allowed it (API).

## The modules

| Module | What it is |
|---|---|
| `SendOnce` | What claiming a send by its key promises, abstractly: slots that are free, open, unknown, sent, failed or erased, and the copies the provider took |
| `Outbound` | Originated mail: every step of `originate` for several calls in several processes; implements `SendOnce` through the refinement mapping at its end |
| `SendLimit` | One mailbox's limit row, the claims under its lock, the operator and the clock; the warm-up's arithmetic as operators |
| `MailboxImport` | One Skarbiec item's mailbox: passes, declarations, reconciliations, removals, and an INBOX that changes |
| `Watching` | The service's subscription, rounds and watchers |
| `MessageWatch` | The order stored messages get, and watches that read after it and resume |
| `Drafts` | Drafts, their schedule, the scheduler of each service, merges, follow-ups and nudges |
| `AutoReply` | One mailbox's automatic reply, its responders, and the reply each message gets |
| `MessageActions` | Marks, moves and deletions at the provider, and their record |
| `Inbox` | What operators keep on stored messages, and every listing that reads it |
| `Gmail` | One account's connection: flows, items, grants, tokens, disconnection |
| `Access` | Every HTTP route as a record of what it needs, finds and does, between an authority and rows that move |
| `MC...` | Small instances and their symmetry for TLC |
| `SendLimitProofs`, `DraftsProofs`, `AutoReplyProofs`, `MessageActionsProofs` | Theorems about the module they are named for |
| `OutboundProofs` | The same for `Outbound`, with the proof that it implements `SendOnce` |
| `StoredMailProofs` | Theorems about `MailboxImport` and about `Inbox`: what is stored, and what is then read of it |
| `WatchingProofs` | Theorems about `Watching` and about `MessageWatch`: what is announced and what is read after it |
| `AuthorizationProofs` | Theorems about `Gmail` and about `Access`: whose a token is, and whose a request |

### Outbound

A call `c` is one invocation of `originate`; its name is also the id of the row
it inserts. `req[c]` is what it asks for: a mailbox, a key and one recipient
that stands for everything else the row stores. `rows[k]` is the row under key
`k`; the column is UNIQUE over all organizations, while the look-up is joined
with the caller's organization (`Found`). `pc[c]` is where the call is, one
place per database statement or await:

    idle -> lookup -> [screen] -> begin -> claim -> claimed -> load -> credentials
         -> submitting -> answered -> over

`begin_outbound` is three steps, because its reads and its insert are separate
statements: `Begin` reads, `Claim` or `ClaimTaken` inserts, `Reread` answers the
row the insert collided with. Each update may be done and acknowledged, done and
not acknowledged, or not done. A submission runs on a blocking thread, so a
caller that disconnects there leaves it "detached": it ends with nobody to
record it. `Reads` is how `deliver` reads the SMTP outcome: accepted, refused,
or no final answer, when the mail may have been taken or not. `Open` is
`Database::open` with `recover_interrupted_sends`; `Stop` is the end of a
process, graceful or not. `accepted` and `listed` are history: the mail the
provider took, and the calls whose recipient was suppressed all along.

### SendLimit

`Claims` are the sends of one mailbox (originated mail, replies, mailto
unsubscribes); `Clicks` are one-click unsubscribes, inserted without the limit
and not counted. A claim stamps `created_at`, waits for the row's lock, reads
the day, counts, inserts and commits: five steps between which other claims, the
operator and midnight step in. Days are numbers. `Times` and `Plus` saturate at
`U32Max` as the code's do. A limit without a warm-up has `grow_by = 0`,
`up_to = 0` and `since = NoDay`, for NULL.

### MailboxImport

A worker runs one operation at a time: a sync, a declaration, a reconciliation,
an undeclaration or a removal. Workers are not serialized: the operation lock is
one process's, and even there a dropped request frees it while its blocking pass
goes on. `current[w]` is the row as the worker last read it, `last[w]` the
cursor its pass has reached, `todo[w]` the UIDs its search found, `batch[w]` the
message in hand. A row deleted and adopted anew has another id. A commit fails
when the row is gone or its cursor is not the one the pass expects (`Adds`), or
when the item already has a row (`Adopts`); failing is `Fail`, which may happen
at any place. INBOX (`arrived`, `inbox`) gives out growing UIDs and may lose any
message at any time.

### Watching

Rows are `status` and `failing` per mailbox, written by anyone. `Announce` is
the trigger's `pg_notify` and reaches a subscription that is held; `announced`
is what it has yet to hand over, `permit` the Notify's one permit, `round` the
loop's place between reconciling, listing and starting watchers. A watcher syncs
(one step here), reads its mailbox again, resolves credentials and opens its
IDLE, is told of new mail or ends, records its failure, and only then returns.

### MessageWatch

A transaction of an import (`Imports`) takes a number for each row it inserts
(`taken`), under the advisory lock that `skrzynka_order_stored` takes and the
transaction's end frees; `order` is what others see after the commit. `sequence`
goes on over rollbacks. A watch subscribes, reads where to start, reads what is
stored after the last number, hands the messages on one at a time, and waits.
`CutOff` ends it anywhere; the client comes back with the last number it got.
`got` is the client's side and `owed` what was stored since it began. A batch is
the set of what was read, of which the lowest number is handed on next. The
module's names begin with `Watch` or name what `Watching` does not have, since
`WatchingProofs` speaks of both.

### Drafts

A party is a service or an operator; `job[p]` is its send of one draft, in the
steps `send_draft` has: the draft and the freshness of its key are read; the row
under the key is read, and one that asks for the same text answers the send
(`Replay`); without one the send goes on (`Admit`) to its insertion, which it
makes (`Claim`) or loses to a row inserted meanwhile, whatever that one's text
(`ClaimLost`); it is refused before either (`RefuseSend`); the submission ends,
the follow-up is stored, the draft removed. The rest of a send's inside is
`Outbound`'s; all parties send by the same steps (`SendStep`). A service's round
lists the due drafts, sends them one by one, records each failure, reads the
next instant and waits for it or for an announcement. An operator's operation
over several drafts (`op`) goes draft by draft, with what it has done so far to
undo. Starting a process recovers what is `sending`. History are `given`, the
keys a draft was given; `accepted`, what the provider took, of which text;
`copies`, how many submissions it took under each key, one by one, so that two
of one draft by one service started again are two; and a send's `lost`, that it
lost its insertion.

### AutoReply

A responder is a service, in passes for as long as it runs, or a command, for
one. A pass reads the reply, lists the candidates, and claims, checks, answers
and records each: `decision` is the row of `auto_reply_decisions`, `attempt` the
reply's row under the key `auto-reply:<message>`. `told` is what the pass will
record. `lost` and `broken` name the messages and services a failing statement
came to, which the properties except.

### MessageActions

`at` and `flags` are INBOX: which stored message each UID holds now, and what is
set on it. A worker takes its messages one after another: the record is made,
the session opened, the UID's message compared with the stored one, the commands
sent, their effect read again, the record finished. Every command is applied or
not, and either way answered, refused, or lost with its connection: an answer
that cannot be read counts as a refusal (`mail/actions/mod.rs:252`), also of a
command that was applied. Other clients
set flags and remove messages at any time; UIDs are given out anew only when no
session has INBOX selected, as IMAP has it.

### Inbox

Messages are numbers in the order they were received; senders, Message-IDs and
what entries cover are constants of the instance. Every request of an operator
is its own action; those over a view or a conversation read the listing in one
step (the side tables) and another (the messages), and then change one message
at a time; a message whose mailbox was deleted meanwhile is refused its mute, and
a view goes on with the next. The request under way is a record whose fields depend on its place
(`Jobs`). `ListMessages` is the code's own way, or two ways: `Quiet` decides
whether the database cuts the page. `Thread` is the loop of `message_thread` as
a recursive function; `ConversationOf` says what it should find. An import reads
the rules at its start and tags what it stores at its end. `silenced` is
history: what was muted and not unmuted since.

### Gmail

`flow` is the broker's map; `vault` and `tagged` are Skarbiec, `google` the
grants, `cache` the access token cached for each item, with the credential it was
minted of and the one its fingerprint names. A worker is one request in its
places; `woken` holds the waiters `notify_waiters` reached. A write to Skarbiec,
and a deletion, may fail and have been made, when the cached token stays.
`delete_item` names the item alone, so `Delete` trashes whatever it holds by then.
`seen` is history: what the item a request uses has held since the request read
it. `Drop` is a client that leaves, `Restart` a process that stops; `Withdraw` is
the owner at Google.

### Access

`Routes` has a record for each protected route of `api/mod.rs`: the handler, the
role it needs, whether it is given one row, lists rows or finds none, of what
kind, what it does with them and what it makes. `owner` and `under` are the
rows: whose each is, and which mailbox it belongs to. A request is asked of the
authority, handled (its role checked, its rows found among the organization's),
and acts row by row, each write conditional on the organization as in the
queries; deleting a mailbox deletes what is under it. A listing of mailboxes
first reconciles, for any role: it makes the mailboxes Skarbiec declares,
updates and disables others (`Adopt`, `Align`). A declaration writes the tag
first (`SetDeclared`), and so does the read of a flow once Google's callback
completed it, which asks for no role; a flow is a row here, made by
`start_gmail_oauth` and kept for as long as the instance runs. `Redirected` is
that callback, which has no session at all. A row that was never made is under
`None`, and an ID given to one row is never given to another, as the tables' IDs
are drawn. `held` is history: every standing the account had while the request
was under way; `begun` are the flows that an administrator began, and `declared`
says that a request wrote a tag.

## What is checked

| Run | Instance | Shows |
|---|---|---|
| `outbound` | 2 calls, 2 processes, 3 mailboxes in 2 organizations, 1 key, 1 address, any requests | `AtMostOneCopy`, `StatusIsEvidence`, `SuppressedNeverClaimed`, `VerdictIsFinal`, and that `Outbound` implements `SendOnce` (`KeepsPromise`) |
| `send_limit` | 2 sends and 1 click, 3 days, a plain limit and 2 warm-ups, counts up to 3 | `SameDayWithinLimit`, `WarmUpIsExact`, `CeilingDayIsFirst` |
| `mailbox_import` | 2 workers, 2 messages, 2 rows one after another | `NothingSkipped` |
| `watching` | 1 mailbox, failing database | `UnwatchedIsDue`, `DeclaredIsWatched`, `AnnouncedMailIsRead` |
| `message_watch` | 3 messages in 2 mailboxes, 2 imports, 1 client, 2 faults | `MissesAndRepeatsNothing` |
| `drafts` | 2 drafts of which one is kept at first, a service, an operator with 2 requests, 1 key of theirs, 2 instants, 1 fault | `OneCopyPerSchedule`, `RefusedLeavesNothing`, `SentLeadsOn`, `DueIsSettled` |
| `auto_replies` | 2 messages of one sender, a service and a command, 2 instants, 1 fault, 1 setting | `AnswerIsTold`, `NoneIsOverlooked` |
| `message_actions` | 2 messages, 1 worker, 1 flag, other clients | `TouchesOnlyItsMessage`, `RecordIsTrue` |
| `inbox` | 4 messages in 2 mailboxes of which one is to come, 2 operators with 2 requests, 8 listings, 2 tags, 2 rules | `ThreadIsTheConversation`, `ListingIsWhatIsAsked`, `MutedStaysOut`, `StandingRulesTag` |
| `gmail` | 2 requests at once, 1 flow, 2 grants | `OneExchange`, `NoWakeupIsLost`, `CurrentCredentialsGovern`, `RevokedBeforeDeleted` |
| `access` | an account that asks anything and an administrator that deletes a mailbox or begins a flow, 2 organizations, 13 rows | `ActsForItsOrganization`, `AuthorityAllowedIt`, `RefusalsAreTrue` |
| `racing_key` | as `outbound` | the one violation: see below |

Each module's `TypeOK` (`WatchTypeOK` in `MessageWatch`, `AccessTypeOK` in
`Access`, `InboxTypeOK` in `Inbox`) is an invariant of its run, except where it
is proved for every instance and left out (`Outbound`, `SendLimit`,
`MailboxImport`).

Why these bounds are enough to mean something. One key is where calls meet;
calls under different keys share only the suppression list. Two calls in two
processes have every race of claim, recovery and crash; three mailboxes make
calls differ in mailbox, in organization, and in whether their mailbox can be
deleted. Two sends against a limit of one overrun by one; one warm-up has a
partial last step and one passes the largest count a day after its ceiling.
Two messages have an order and two workers every pair of overlapping passes; two
rows have one deletion with a pass of the old row still running. All messages of
the `mailbox_import` instance can be read; the empty commit of one that cannot is
the same as that of one removed between search and fetch, which the instance
has, and the proof holds for any `Unreadable`. Mailboxes share only announcements
and rounds; one is watched by the same steps whatever the others do.

Three messages and two imports put numbers and commits in both orders with a
message of another mailbox between. A service and an operator are two senders of
one draft under one key, since sends do not tell who makes them; a second service
adds its own list of due drafts, which the first one's stop and start also does.
Two drafts have one refused after another was scheduled. Two messages of one
sender meet in the span. A worker's session and the other clients are two
writers of one INBOX; workers meet only there. Four messages tie a conversation
through one that is still to come, and another mailbox holds one that names the
same Message-ID; two operators with a request each have every overlap of two
requests. Two requests have every pair of callback, waiter, token and
disconnection; both grants are used when an account is connected again. In
`access` a handler stands for all that differ in its name alone, each account
makes one request, and the authority may give one role and end and begin one
session meanwhile; the row of a flow lets either account begin one and the first one read it.

The runs reach up to 1.2 million distinct states (`gmail`; `access` 850,000, `drafts`
660,000, `message_actions` 570,000), the searches being complete for their bounds.

The bounds are named where they are declared: `MaxUid`, `MaxRows`, `LastDay`,
`LastTime`, `MaxFaults`, `MaxAsked`, `MaxChanges`, `MaxChurn`, `Offered`,
`Sessions`, `MayAsk`; nothing else is cut off. Deadlock is not looked for where
the bounds, or operators who ask nothing more, let the system rest.

Fairness is stated where something must eventually happen. In `Watching` the
service's own tasks run (weak fairness of hearing, subscribing again, rounds and
each watcher's steps), and what they wait for, a database, a provider or
Skarbiec, answers or fails. The code sets no time limits of its own, so this is
an assumption about networks: a provider that neither answers nor closes its
connection keeps the operation lock of `sync_mailbox_internal`, and every other
sync of the process, waiting. An IDLE has no fairness: it may last for ever. In
`Drafts` a service's own steps are taken, its submission ends, and time passes;
nothing makes an operator ask, a stopped service start, or a lost subscription
come back, and `DueIsSettled` asks only for as long as some service attends to
the schedule.

### What the code does not keep

`racing_key` ends in a violation, of a sentence of the repository quoted in
`findings`: the loser of two racing inserts is answered with a row that may be of
a different request (`AnswersOwnRequest`).

The modules state more sentences of the repository that TLC refutes; each stands
in its module, marked as what the code does not keep, beside the property that
does hold. No run lists them; add one to the run's `.cfg` to see the schedule.

| Statement | What happens | What holds instead |
|---|---|---|
| `Outbound`, `UncertainMeansEvidenceLost` | opening the database calls `uncertain` the sends other processes have under way, not only those a stopped process left; the send then records its own end over it | `StatusIsEvidence` |
| `SendLimit`, `DayWithinLimit` | a claim stamped before midnight and admitted after it is of a day whose limit it was never held to | `SameDayWithinLimit`, of the sends stamped and counted on one day |
| `MailboxImport`, `CursorNeverMovesBack` | a pass that reads its row again after another's commit moves the cursor back; the mail is read again and found stored | `NothingSkipped` |
| `Watching`, `RestartsOnceSynced` | a failure cleared before the failed watcher's task has returned wakes a round that still finds the task, and nothing starts it again | `DeclaredIsWatched`, of mailboxes never watched |
| `Drafts`, `HeldBackIsKept` | a draft taken off its schedule after a service listed it as due is sent all the same | `OneCopyPerSchedule`: once, and under a key it was given |
| `AutoReply`, `AnsweredOncePerSpan` | two responders, each with another message of one sender, both find no answer within the span | `AnswerIsTold`: each message is answered once |
| `Drafts`, `OwnTextLeadsOn` ("A row the provider accepted removes the draft; any other outcome keeps it", `service/drafts/mod.rs:137`) | of two drafts sent at once under one key the loser of the insertion is answered with the other's row, and removed when that says `sent`, though its own text never went out | `SentLeadsOn`: the provider took the message of the row it was answered with, and the draft's own unless the insertion was lost |
| `MessageActions`, `RefusedChangedNothing` | a deletion's STORE is taken and its EXPUNGE refused, or an applied command's answer cannot be read: recorded failed, with the message marked for deletion or gone | `TouchesOnlyItsMessage`, `RecordIsTrue` |
| `Gmail`, `WaitedForIsInHand` | a callback dropped while it exchanges its code leaves the flow in progress and its waiters waiting | `NoWakeupIsLost` |
| `Gmail`, `NoneIsLeftLive` ("a deleted item leaves no live refresh token behind", `service/gmail/disconnect.rs:3`) | a callback saves a newly issued grant between the revocation and the deletion, which takes the item with it | `RevokedBeforeDeleted`: the token read is revoked, and a live one that goes was saved after the reading |
| `Access`, `OnlyAdministratorsDeclare` (the repository's `README.md:283`) | the read of a completed flow writes the mailbox tag for any role, also after an administrator took the declaration back | `AuthorityAllowedIt`: without an administrator's role only the mailbox of a flow is declared that an administrator of the organization began |
| `Inbox`, `RenameKeepsLabels` | a message tagged with the old name between a rename's two statements loses the tag and gets no new one | `StandingRulesTag` |

Two more are in `Inbox` as steps, with no statement of the repository to hold
them to: two notes appended at once to one message leave one of them, and a view
copied to a name that another operator saves meanwhile replaces theirs.

## What is proved

TLAPS proves the theorems listed in `PROJECT.json` for all values of the
constants, from these assumptions: every mailbox has an organization, and no
call is `Nobody` (`OutboundAssumption`); limits are positive counts, a warm-up's
ceiling is above its start, and there are finitely many claims
(`SendLimitAssumption`); bounds are numbers (`ImportAssumption`);
`WatchingAssumption` types a Boolean constant; `Nobody` is no message and
`\Deleted` is no flag an operator marks (`ActionsAssumption`); every message has
a sender, a setting lies within the instants, and a service is no command
(`AutoReplyAssumption`); `Nothing` is no flow and no credential
(`GmailAssumption`); there is an instant and a text, and no draft's first key is
one an operator chooses (`DraftsAssumption`); every message has a mailbox, and
`All` is none (`MessageWatchAssumption`); there are finitely many organizations,
and the rows there are at first lie with their mailbox's organization
(`AccessAssumption`); messages are finitely many numbers with a sender each,
what is asked for and what is saved at first have the fields the code gives
them, no view is saved that would be refused, a page holds a message, and
`Unset` is no tag (`InboxAssumption`). The bounds on faults, instants and changes are any numbers
in all of them.

- **`OneCopyPerKey`, `StatusTells`, `VerdictStands`** (`OutboundProofs`). None of
  the invariants is inductive alone: that a row says the truth depends on where
  its call is, and that no two calls may submit depends on whose the row is. The
  strengthening `IInv` ties the two together: a call that has claimed owns the
  row under its key or its mailbox is gone, the row's status agrees with the
  call's place and verdict, and only a call that went through its submission is
  in `accepted`. `VerdictStands` follows from the same invariant: a row that is
  `sent` or `failed` belongs to a call that is over, or whose only remaining
  write repeats the verdict.
- **`OutboundKeepsPromise`, `SuppressedStaysOut`** (`OutboundProofs`). The
  simulation adds one fact to that invariant: a row that its owner has yet to mark is
  still `pending` (`ClaimedIsPending`), or marking it could reopen a send whose
  evidence was given up. `Views` reads each slot's state off its row; then a
  claim, a submission's end, a record, a recovery and a deletion are each one
  step of `SendOnce`, and everything else is none. `StaysOut(c)` follows a
  suppressed call past the list: it gets there only with its key claimed, and
  without a deletion a claimed key stays claimed (`KeysStayClaimed`).
- **`WarmUpStandsExact`** (`SendLimitProofs`). The minimum with `up_to`, which is
  a count, hides every saturation of the sum and of the product below it; the
  lemmas are about natural numbers, and `TypeOK` supplies the ranges.
- **`CeilingDayStands`, `SameDayStands`** (`SendLimitProofs`). The first is
  arithmetic: the days to the ceiling are rounded up, so that many steps reach it
  and one fewer does not (`RoundedUp`). The second counts claims. Nobody counts but
  the holder of the row's lock (`HoldsLock`), by a limit in force on the day it
  counts; so a claim that is admitted still has a place below the day's highest
  limit, because a send that commits beside it can only be one that found no
  limit at all that day (`HasPlace`). `NotYet` keeps a day to come at zero. The
  argument about `Cardinality` is one lemma: who is not yet counted leaves a place.
- **`NothingIsSkipped`** (`StoredMailProofs`). The statement is about the row,
  but a commit is right because of what its pass did before. `Sound(w)` says of
  every worker whose row may still be there: all that can be read up to the
  cursor it starts from or has reached is stored or in its hands, and up to any
  UID it has yet to fetch it is stored, in hand or also to be fetched. For a
  worker that adopts, only what it has in hand counts, because the row it will
  make starts empty. `Bounded(w)` keeps cursors below `arrived` and row ids
  below `made`, so new mail and new rows meet no stale pass.
- **`ThreadFindsAll`** (`StoredMailProofs`, of `Inbox`). A pass of the loop only
  adds messages that are tied to one already found, so it never leaves a closed
  set it began in (`PassStays`), and a pass that adds nobody ends at a closed set
  (`SettledIsClosed`). One that does add somebody makes the set larger, and no
  set of the mailbox's messages is larger than the mailbox: after as many passes
  as there are messages nothing is left to add (`ThreadGrows`). Induction is over
  the passes' numbers, from well-foundedness: `CountedUp` for facts, `Recursion`
  for the values of the two recursive functions.
- **`ListingStands`** (`StoredMailProofs`, of `Inbox`). No invariant of the
  operators' work is needed: whatever is stored, `Quiet` holds only when the
  filters and the side tables keep every message of the mailbox, so the page the
  database cuts and the one the service cuts are cut from the same sequence
  (`ListIs`), which lists exactly what is shown (`ListedIsShown`), newest or
  oldest first (`TurnIs`). That the sequence exists is an induction over the
  number of messages (`SortedThere`).
- **`InboxTypeCorrect`, `MutedStays`, `RulesTag`** (`StoredMailProofs`, of
  `Inbox`). `InboxIInv` adds to the types what a request may rely on when others'
  steps come between (`JobFits`): what a mute is about to write covers the
  whole conversation, which is `ThreadFindsAll`; what a rename copied to is still
  stored, because a deletion waits for its rows; a view being copied was not
  refused. From it `silenced` is always among `muted`, and a mute makes `Quiet`
  false, so the listing that goes through the messages leaves the conversation
  out. An import's message stays uncommitted and its rules are those it read
  (`ImportFits`): what it tags at its end is what those rules say.
- **`NoAnnouncementIsLost`** (`WatchingProofs`). `UnwatchedIsDue` is inductive
  with the types and `ListIsCurrent`, which says that the list a round has read
  names every enabled mailbox unless another round is due: a step
  that uses up a permit or an announcement hands it on to the next place, until
  the mailbox is listed.
- **`NothingIsMissed`** (`WatchingProofs`, of `MessageWatch`). The import's lock
  does the work: `OrderStands` says that only its holder has numbers nobody sees
  yet, and that they are above every number that is seen. So the messages a
  client got come before those in its hands, and those before its place
  (`PlaceStands`), and what is committed later comes after it. `NoneMissed` says
  where a message owed to a client is: with it, in its hands, or ahead of its
  place; for one cut off, ahead of the last it got, where it resumes. A watch that
  waits and has heard nothing has nothing ahead of its place.
- **`OneCopy`, `SentLeadsOnStands`, `RefusalUndoesAll`** (`DraftsProofs`). A party
  that submits claimed its key alone, and nothing has gone out under it
  (`ClaimAlone`), which is what keeps the count at one: under a key of which
  nothing was taken it is zero (`NoneUntaken`), and a row that was interrupted is
  never free again. A row keeps the text it was claimed with (`RowsOfTaken`), so a
  row that says `sent` has its copy, and a send that follows up or removes its
  draft goes on from such a row, of its own text unless it lost the insertion
  (`SentStands`, `GoesOnAfter`). `JobStands` ties a send to
  its draft's keys: a draft taken off its schedule under a service that listed it
  is still sent under a key it was given. What a refused operation leaves is
  `OpStands`: what it no longer has to undo is undone. A draft off its schedule may
  be put back by another operator, so that half is stated for one operator; that a
  refused `send --at` leaves no draft is proved for any number
  (`RefusedSendLeavesNone`), since a draft removed never comes back.
- **`OnlyItsMessage`, `RecordsStandTrue`** (`MessageActionsProofs`). Both depend on
  what a worker knows at its place. `OnRecord`: from the claim to the record its
  message has a pending row. `Reported`: a verdict of `done` was shown by INBOX,
  and a lost answer left the session with `uncertain`. `StillProven`: past the
  comparison the UID holds the proven message or nobody, because renumbering
  waits for the session's end and every other step only removes. `Untaken`: a
  message still to be taken has no row of this worker's. A worker's step
  keeps these of itself (one lemma for each action) and cannot disturb another's
  (`AsideStands`), whose INBOX only loses messages.
- **`DecisionsStandTrue`, `NothingIsOverlooked`** (`AutoReplyProofs`). That one
  answer goes out depends on who holds the message: `Claims(r)` says that a
  responder at work on it is alone, that its row is `claimed` unless the mailbox
  is gone, that the provider took no answer before this responder's submission,
  and that a pass about to record `skipped` was refused. `Once(m)` carries it past the
  pass: what was answered is claimed or decided for good, so no pass lists it
  again. `Sees(s)` is about the other hazard: as long as a service has nothing
  to hear and has not failed, it goes by the reply that is set and everything to be decided
  is among what it has left, so when it waits, nothing is.
- **`CodeIsExchangedOnce`, `NobodyIsForgotten`, `CachedTokenIsCurrent`,
  `ReadTokenIsRevoked`** (`AuthorizationProofs`). A flow is `processing` or `failed`
  as long as a callback works on it (`Holds`) and no other does (`Alone`), so
  completing it is the end of its code. What is cached was minted
  of the credential its fingerprint names (`Honest`), whoever put it there and
  whatever the item held by then; a request that takes a token read that very
  credential itself, so its item held it meanwhile. `Knows(w)` says what a
  disconnection can rely on: at the deletion the token it read is revoked, and a
  grant once revoked is never issued again, and the item holds what was read,
  nothing, or what was written since.
- **`EachActsForItsOwn`, `NothingIsUnauthorized`, `RefusedForACause`**
  (`AuthorizationProofs`, of `Access`). They hold for every handler because of
  what the records of `Routes` have in common (`RoutesFit`): what makes a row says
  of which kind and finds what it is made from, and what `Administrative` lists
  asks for an administrator. Then a request's row is kept apart in five parts: what it names
  was made (`Names`), what the authority answered was so while it was under way
  (`Allowed`), what it found is its organization's or by now nobody's (`Owned`),
  a refusal had its cause (`RefusedTruly`), and what it declares an administrator
  asked for, or began the flow of (`Consents`, from `BegunStand`: only an
  administrator's request makes a flow). Between finding rows and writing to them
  the rows may be deleted, but a row that was made never changes hands
  (`RowsMove`), which is why acting on what was read earlier is safe.

Every invariant and action property that the passing runs check is proved, and
so is the refinement; `RefusedLeavesNothing` for one operator, as said above.
Model-checked and not proved are the liveness properties `DeclaredIsWatched`,
`AnnouncedMailIsRead` and `DueIsSettled`: fairness and ENABLED are out of the
prover's reach.

## What is left out

- What a message says: headers, body, files, signatures. A recipient stands for
  all of them in `Outbound`, a text in `Drafts`; a request with a different file
  is a different one. `Inbox` has what listings ask of a message, and `AutoReply`
  whether its headers let a person be answered.
- A message's own data under its UID, its change by the provider (the conflict
  that refuses a commit is one reason of `Fail`), and the UIDVALIDITY of a pass.
- A mailbox's profile: names, SMTP side and endpoints. The item's endpoint never
  changes, so `endpoint_conflict` is one of the refusals a reconciliation
  records. That each commit writes the profile back as its pass first read it
  (`db/messages/mod.rs:248`) is therefore not seen.
- The clock's hours: days turn in the limit, instants pass in drafts and replies.
- Bounce reports in `Outbound`: a refusal before the claim, like a file that
  cannot be sent. Limits inside `Outbound`: a used-up limit refuses; `SendLimit`
  has its inside. The send inside `Drafts` and `AutoReply` is folded likewise.
- What a handler of `Access` answers beyond its status, and the service under it,
  which the other modules have.
- The components listed as `not_modelled` or `partly` in `PROJECT.json`, with the
  reason: text and file formats (normalization, CSV, placeholders, tables),
  argument parsing, and single writes with nothing to race.

## Plan

Done, the most important behaviour first: `SendOnce`, `Outbound`, `SendLimit`,
`MailboxImport`, `Watching`, `Drafts`, `MessageWatch`, `AutoReply`,
`MessageActions`, `Gmail`, `Access` and `Inbox`, with their proofs.

Next:

1. That a send of `Drafts` and one of `AutoReply` is a send of `SendOnce`: their
   rows mapped to its slots, and each of their steps to one of its own or none.
2. The feed of a received domain (`service/inbound`): two syncs that read back to
   the first stored message and store the oldest first, against "no gap below a
   stored message".
3. `Replies` and `Unsubscribes` with their own columns, again against `SendOnce`.
4. Suppression entries of whole domains, and the bounce reports that refuse a send.

## Running it

    tlc -config MCOutbound.cfg MCOutbound
    tlapm OutboundProofs.tla

Every `.cfg` names its properties; the module that goes with it is in the `runs`
of `PROJECT.json`. Operators named `X_Reason` above a definition `X` are mutants:
the same definition with a plausible mistake, for which TLC finds the named
property violated.
