------------------------------- MODULE Inbox -------------------------------
(***************************************************************************)
(* Stored messages as operators read and sort them: listings and saved     *)
(* views, conversations, tags and the rules that give them, snoozes,       *)
(* mutes, notes and blocked senders.  None of it reaches the provider.     *)
(* Operators are commands and requests of one organization, in processes   *)
(* of their own; each statement or transaction of theirs is one step, and  *)
(* an import and other operators' steps come between.                      *)
(***************************************************************************)
EXTENDS Naturals, SequencesExt

CONSTANTS
  Messages,      \* numbers, in the order the messages were received
  Late,          \* those imported while the operators work
  Senders,       \* the addresses mail comes from
  MailboxOf, SenderOf, IdentitiesOf,   \* what each message's headers say
  Entries,       \* addresses and @domains that may be blocked
  Covers,        \* the senders each entry covers
  Tags,
  Retags,        \* changes of tags that are asked for: what is added, what removed
  RuleIds, RuleBodies, FirstRules,      \* and the rules and views there are
  ViewNames, Filters, FirstViews,       \* before
  Operators,
  PageSize,
  Unset,         \* a condition or a filter not given
  LastTime,
  MaxAsked,      \* bound: what the operators ask, all together
  MaxChurn       \* bound: deleted mailboxes and clock ticks

VARIABLES
  held,       \* each message: to come, stored, or deleted with its mailbox
  importing,  \* the import's open transaction
  tags, snoozed, note, answered,   \* what Skrzynka keeps on a message
  rules, views, blocked,
  muted,      \* the Message-IDs muted in each mailbox
  now,
  job,        \* each operator's request under way
  asked, churn,
  silenced    \* history: the Message-IDs of conversations muted and not unmuted since

inboxVars == <<held, importing, tags, snoozed, note, answered, rules, views, blocked,
               muted, now, job, asked, churn, silenced>>
mail == <<held, importing>>
marks == <<tags, snoozed, note, answered>>
settings == <<rules, views, blocked>>
mutes == <<muted, silenced>>

Mailboxes == {MailboxOf[m] : m \in Messages}
Identities == UNION {IdentitiesOf[m] : m \in Messages}
Stored == {m \in Messages : held[m] = "stored"}
\* A mailbox that was deleted is gone with all its mail, and with what was to come.
Gone(b) == b \in Mailboxes /\ \A m \in Messages : MailboxOf[m] = b => held[m] = "deleted"
NoJob == [at |-> "idle"]
NoImport == [open |-> FALSE]
NoRule == [held |-> FALSE]
Rule(b) == [held |-> TRUE, body |-> b, paused |-> FALSE]
NoView == [saved |-> FALSE]
View(f) == [saved |-> TRUE, filters |-> f]

\* MessageFilters::matcher refuses these together.
Refused_Never(f) == FALSE   \* mutant
Refused(f) == (f.tag # Unset /\ f.untagged) \/ (f.answered /\ f.unanswered)

BodyRecords == [tag : Tags, mailbox : Mailboxes \cup {Unset}, sender : Senders \cup {Unset}]
RuleRecords == [held : {TRUE}, body : BodyRecords, paused : BOOLEAN]
FilterRecords ==
  [mailbox : Mailboxes \cup {Unset}, tag : Tags \cup {Unset}, sender : Senders \cup {Unset},
   untagged : BOOLEAN, noted : BOOLEAN, include_blocked : BOOLEAN, include_snoozed : BOOLEAN,
   include_muted : BOOLEAN, snoozed : BOOLEAN, muted : BOOLEAN, answered : BOOLEAN,
   unanswered : BOOLEAN, oldest_first : BOOLEAN]
ViewRecords == [saved : {TRUE}, filters : FilterRecords]

ASSUME InboxAssumption ==
  /\ Messages \subseteq Nat /\ IsFiniteSet(Messages) /\ Late \subseteq Messages
  /\ SenderOf \in [Messages -> Senders]
  /\ Retags \subseteq [add : SUBSET Tags, remove : SUBSET Tags]
  /\ RuleBodies \subseteq BodyRecords /\ FirstRules \in [RuleIds -> {NoRule} \cup RuleRecords]
  /\ Filters \subseteq FilterRecords /\ FirstViews \in [ViewNames -> {NoView} \cup ViewRecords]
  /\ \A v \in ViewNames : FirstViews[v] # NoView => ~Refused(FirstViews[v].filters)
  /\ Unset \notin Tags
  /\ PageSize \in Nat \ {0} /\ LastTime \in Nat /\ MaxAsked \in Nat

\* What a request has under way.
Mutes == [Mailboxes -> SUBSET Identities]
Asides ==
  [blocked : SUBSET Entries, now : 0..LastTime, snoozing : BOOLEAN, answered : SUBSET Messages, muted : Mutes]
Changes ==
  [kind : {"tag"}, add : SUBSET Tags, remove : SUBSET Tags] \cup [kind : {"snooze"}, until : 0..LastTime]
  \cup [kind : {"wake", "mute", "unmute", "answer"}]
Walks ==
  [at : {"each"}, change : Changes, left : Seq(Messages), listed : {FALSE}]
  \cup [at : {"each", "conversation"}, change : Changes, left : Seq(Messages), listed : {TRUE},
        muted : Mutes, handled : SUBSET Messages]
Jobs ==
  {NoJob} \cup Walks
  \cup [at : {"list"}, change : Changes, filters : FilterRecords, aside : Asides, muted : Mutes]
  \cup [at : {"mute"}, next : Walks, mailbox : Mailboxes, identities : SUBSET Identities,
        conversation : SUBSET Identities]
  \cup [at : {"append"}, message : Messages, body : SUBSET (1..MaxAsked)]
  \cup [at : {"match"}, bodies : SUBSET BodyRecords] \cup [at : {"give"}, tagged : SUBSET (Messages \X Tags)]
  \cup [at : {"copy"}, from : Tags, to : Tags]
  \cup [at : {"rename"}, from : Tags, to : Tags, copied : SUBSET Messages] \cup [at : {"untag"}, tag : Tags]
  \cup [at : {"copyview"}, name : ViewNames, view : ViewRecords] \cup [at : {"block"}, left : SUBSET Entries]

InboxTypeOK ==
  /\ held \in [Messages -> {"coming", "stored", "deleted"}]
  /\ importing \in {NoImport} \cup [open : {TRUE}, message : Messages, rules : [RuleIds -> {NoRule} \cup RuleRecords],
                                    bodies : SUBSET BodyRecords]
  /\ tags \in [Messages -> SUBSET Tags]
  /\ snoozed \in [Messages -> 0..LastTime]
  /\ note \in [Messages -> SUBSET (1..MaxAsked)]
  /\ answered \subseteq Messages
  /\ rules \in [RuleIds -> {NoRule} \cup RuleRecords]
  /\ views \in [ViewNames -> {NoView} \cup ViewRecords]
  /\ \A v \in ViewNames : views[v] = NoView \/ ~views[v].filters.untagged \/ views[v].filters.tag = Unset
  /\ blocked \subseteq Entries
  /\ muted \in Mutes /\ silenced \in Mutes
  /\ now \in 0..LastTime /\ asked \in 0..MaxAsked
  /\ job \in [Operators -> Jobs]
  /\ \A b \in Mailboxes : Gone(b) => muted[b] = {} /\ \A r \in RuleIds : rules[r] # NoRule => rules[r].body.mailbox # b
  /\ \A m \in Messages \ Stored : tags[m] = {} /\ snoozed[m] = 0 /\ note[m] = {}

-----------------------------------------------------------------------------
(* Reading *)

\* The order of the database; the domain is spelt out for TLC, which tabulates
\* a function over a set it has enumerated.
Sorted ==
  [S \in {T : T \in SUBSET Messages} |->
     CHOOSE s \in [1..Cardinality(S) -> S] : \A i, j \in 1..Cardinality(S) : i < j => s[i] > s[j]]
NewestFirst(S) == Sorted[S]
OldestFirst(S) == Reverse(NewestFirst(S))
InTurn(f, S) == IF f.oldest_first THEN OldestFirst(S) ELSE NewestFirst(S)

\* message_thread: whoever carries or names a Message-ID already known joins,
\* over and over until nobody does; s is the stored messages in their order.
JoinOnce(members, s) ==
  LET joined[i \in 0..Len(s)] ==
        IF i = 0 THEN members
        ELSE IF \E k \in joined[i-1] : IdentitiesOf[k] \cap IdentitiesOf[s[i]] # {}
        THEN joined[i-1] \cup {s[i]} ELSE joined[i-1]
  IN joined[Len(s)]

Kin(m) == {x \in Stored : MailboxOf[x] = MailboxOf[m]}

Thread_OnePass(m) ==   \* mutant: the stored messages are gone through once
  JoinOnce({m}, NewestFirst(Kin(m)))
Thread(m) ==
  LET stored == NewestFirst(Kin(m))
      grown[n \in 0..Len(stored)] == IF n = 0 THEN {m} ELSE JoinOnce(grown[n-1], stored)
  IN grown[Len(stored)]

IsMuted(m, kept) == IdentitiesOf[m] \cap kept[MailboxOf[m]] # {}
IsBlocked(m, entries) == \E e \in entries : SenderOf[m] \in Covers[e]
IsSnoozed(m, at) == snoozed[m] > at

\* Whether MessageFilters::matcher has a condition.
Narrows(f) == f.tag # Unset \/ f.sender # Unset \/ f.untagged \/ f.noted

\* Matcher::keeps.
Keeps(f, m) ==
  /\ f.tag # Unset => f.tag \in tags[m]
  /\ f.sender # Unset => SenderOf[m] = f.sender
  /\ f.untagged => tags[m] = {}
  /\ f.noted => note[m] # {}

any_snoozed(at) == \E m \in Stored : IsSnoozed(m, at)
muted_identities == muted
blocked_senders == blocked
answered_messages == answered

\* What a listing reads besides the messages, before it reads them.
Aside(f) ==
  [blocked |-> IF f.include_blocked THEN {} ELSE blocked_senders,
   now |-> now,
   snoozing |-> ~f.include_snoozed /\ ~f.snoozed /\ any_snoozed(now),
   answered |-> IF f.unanswered \/ f.answered THEN answered_messages ELSE {},
   muted |-> IF f.include_muted /\ ~f.muted THEN [b \in Mailboxes |-> {}] ELSE muted_identities]

\* Whether the database may cut the page itself.
Quiet_ForgetsMutes(f, aside) ==   \* mutant
  /\ ~Narrows(f) /\ aside.blocked = {} /\ ~aside.snoozing
  /\ ~f.unanswered /\ ~f.answered /\ ~f.oldest_first /\ ~f.snoozed /\ ~f.muted
Quiet(f, aside) ==
  /\ ~Narrows(f) /\ aside.blocked = {} /\ ~aside.snoozing
  /\ \A b \in Mailboxes : aside.muted[b] = {}
  /\ ~f.unanswered /\ ~f.answered /\ ~f.oldest_first /\ ~f.snoozed /\ ~f.muted

\* Whether a listing that goes through the messages lists this one.
Lists(f, aside, m) ==
  /\ ~IsBlocked(m, aside.blocked)
  /\ ~(aside.snoozing /\ IsSnoozed(m, aside.now))
  /\ IsMuted(m, aside.muted) = f.muted
  /\ (f.answered \/ f.unanswered) => (m \in aside.answered) = f.answered
  /\ f.snoozed => IsSnoozed(m, aside.now)
  /\ Narrows(f) => Keeps(f, m)

\* A page: the offset skipped, then no more than the limit; 0 is no limit.
Cut(s, limit, offset) ==
  SubSeq(s, offset + 1, IF limit = 0 \/ offset + limit > Len(s) THEN Len(s) ELSE offset + limit)

\* Database::list_messages.
InMailbox(mailbox) == {m \in Stored : mailbox = Unset \/ MailboxOf[m] = mailbox}

ListMessages(f, aside, limit, offset) ==
  IF Quiet(f, aside)
  THEN Cut(NewestFirst(InMailbox(f.mailbox)), limit, offset)
  ELSE LET kept == {m \in InMailbox(f.mailbox) : Lists(f, aside, m)}
       IN Cut(InTurn(f, kept), limit, offset)

\* TagRule::matches.
Matches(b, m) ==
  /\ b.mailbox \in {Unset, MailboxOf[m]}
  /\ b.sender \in {Unset, SenderOf[m]}

-----------------------------------------------------------------------------
(* What operators ask *)

InboxInit ==
  /\ held = [m \in Messages |-> IF m \in Late THEN "coming" ELSE "stored"]
  /\ importing = NoImport
  /\ tags = [m \in Messages |-> {}]
  /\ snoozed = [m \in Messages |-> 0]
  /\ note = [m \in Messages |-> {}]
  /\ answered = {}
  /\ rules = FirstRules
  /\ views = FirstViews
  /\ blocked = {}
  /\ muted = [b \in Mailboxes |-> {}]
  /\ now = 0
  /\ job = [o \in Operators |-> NoJob]
  /\ asked = 0 /\ churn = 0
  /\ silenced = [b \in Mailboxes |-> {}]

Ask(o) == job[o] = NoJob /\ asked < MaxAsked /\ asked' = asked + 1
Continue(o, j) == job' = [job EXCEPT ![o] = j]
End(o) == Continue(o, NoJob)
Work(o, change, left) == [at |-> "each", change |-> change, left |-> left, listed |-> FALSE]

\* validated: a tag is not both added and removed, and some tag is.
ValidTags(r) == r.add \cup r.remove # {} /\ r.add \cap r.remove = {}

\* snooze_instant: an instant that has passed is refused.
Ahead(until) == until > now

Tag(r) == [kind |-> "tag", add |-> r.add, remove |-> r.remove]
SnoozeUntil(until) == [kind |-> "snooze", until |-> until]
Simple(kind) == [kind |-> kind]

OfMessage(o, change, m) ==
  /\ Ask(o)
  /\ m \in Stored
  /\ Continue(o, Work(o, change, <<m>>))
  /\ UNCHANGED <<mail, marks, settings, mutes, now, churn>>

RetagMessage(o, r, m) == ValidTags(r) /\ OfMessage(o, Tag(r), m)
SnoozeMessage(o, until, m) == Ahead(until) /\ OfMessage(o, SnoozeUntil(until), m)
WakeMessage(o, m) == OfMessage(o, Simple("wake"), m)
MuteConversation(o, m) == OfMessage(o, Simple("mute"), m)
UnmuteConversation(o, m) == OfMessage(o, Simple("unmute"), m)
Reply(o, m) == OfMessage(o, Simple("answer"), m)

\* The members of a conversation are read, and then changed one by one.
OfThread(o, change, m, members) ==
  /\ Ask(o)
  /\ m \in Stored
  /\ Continue(o, Work(o, change, OldestFirst(members)))
  /\ UNCHANGED <<mail, marks, settings, mutes, now, churn>>

RetagThread(o, r, m) == ValidTags(r) /\ OfThread(o, Tag(r), m, Thread(m))
SnoozeThread(o, until, m) == Ahead(until) /\ OfThread(o, SnoozeUntil(until), m, Thread(m))
WakeThread(o, m) ==
  OfThread(o, Simple("wake"), m, {x \in Thread(m) : IsSnoozed(x, now)})

\* list_view: the view is read, then what its listing leaves out, then the
\* messages.
OfView(o, change, v, f) ==
  /\ Ask(o)
  /\ views[v] # NoView
  /\ Continue(o, [at |-> "list", change |-> change, filters |-> f, aside |-> Aside(f),
                  muted |-> muted])
  /\ UNCHANGED <<mail, marks, settings, mutes, now, churn>>

RetagView(o, r, v) == ValidTags(r) /\ OfView(o, Tag(r), v, views[v].filters)
SnoozeView(o, until, v) == Ahead(until) /\ OfView(o, SnoozeUntil(until), v, views[v].filters)
ReplyView(o, v) == OfView(o, Simple("answer"), v, views[v].filters)

\* A wake reads the view with snoozed mail included, and a mute or an unmute
\* with muted mail.
WakeView(o, v) ==
  OfView(o, Simple("wake"), v, [views[v].filters EXCEPT !.include_snoozed = TRUE])
MuteView(o, kind, v) ==
  OfView(o, Simple(kind), v, [views[v].filters EXCEPT !.include_muted = TRUE])

\* The listing of the view; a wake takes those of it that are snoozed.
List(o) ==
  /\ job[o].at = "list"
  /\ LET j == job[o]
         listed == ListMessages(j.filters, j.aside, 0, 0)
         left == IF j.change.kind # "wake" THEN listed
                 ELSE InTurn(j.filters, {m \in ToSet(listed) : IsSnoozed(m, j.aside.now)})
     IN Continue(o, [at |-> "each", change |-> j.change, left |-> left, listed |-> TRUE,
                     muted |-> j.muted, handled |-> {}])
  /\ UNCHANGED <<mail, marks, settings, mutes, now, asked, churn>>

\* The next message's change; one deleted meanwhile ends the request there.
Change(o, kind) ==
  /\ job[o].at = "each"
  /\ job[o].left # <<>>
  /\ job[o].change.kind = kind
  /\ IF Head(job[o].left) \in Stored
     THEN Continue(o, [job[o] EXCEPT !.left = Tail(@)])
     ELSE End(o)
  /\ UNCHANGED <<mail, note, answered, settings, mutes, now, asked, churn>>

OnStored(f, m, value) == IF m \in Stored THEN [f EXCEPT ![m] = value] ELSE f

Retag(o) ==
  /\ Change(o, "tag")
  /\ LET m == Head(job[o].left)
     IN tags' = OnStored(tags, m, (tags[m] \cup job[o].change.add) \ job[o].change.remove)
  /\ UNCHANGED snoozed

Snooze(o) ==
  /\ Change(o, "snooze")
  /\ snoozed' = OnStored(snoozed, Head(job[o].left), job[o].change.until)
  /\ UNCHANGED tags

Wake(o) ==
  /\ Change(o, "wake")
  /\ snoozed' = OnStored(snoozed, Head(job[o].left), 0)
  /\ UNCHANGED tags

\* answer_listed: a reply that is refused leaves the others to be sent.
Answer(o) ==
  /\ job[o].at = "each"
  /\ job[o].left # <<>>
  /\ job[o].change.kind = "answer"
  /\ \/ Head(job[o].left) \in Stored /\ answered' = answered \cup {Head(job[o].left)}
     \/ UNCHANGED answered
  /\ Continue(o, [job[o] EXCEPT !.left = Tail(@)])
  /\ UNCHANGED <<mail, tags, snoozed, note, settings, mutes, now, asked, churn>>

Done(o) ==
  /\ job[o].at = "each"
  /\ job[o].left = <<>>
  /\ End(o)
  /\ UNCHANGED <<mail, marks, settings, mutes, now, asked, churn>>

\* mute_view, whose conversation is next: one handled, or muted as asked when
\* the view was read, is passed over.
NextConversation(o) ==
  /\ job[o].at = "each"
  /\ job[o].left # <<>>
  /\ job[o].change.kind \in {"mute", "unmute"}
  /\ job[o].listed
  /\ LET m == Head(job[o].left)
         asAsked == IsMuted(m, job[o].muted) = (job[o].change.kind = "mute")
     IN CASE m \in job[o].handled \/ asAsked -> Continue(o, [job[o] EXCEPT !.left = Tail(@)])
          [] m \in Stored -> Continue(o, [job[o] EXCEPT !.at = "conversation",
                                                        !.handled = @ \cup Thread(m)])
          [] OTHER -> End(o)
  /\ UNCHANGED <<mail, marks, settings, mutes, now, asked, churn>>

\* What ties messages together, said without a loop: the least set of a
\* mailbox's messages no Message-ID of which a message outside it shares.
Closed(m) ==
  {C \in SUBSET Kin(m) : /\ m \in C
     /\ \A x \in C, y \in Kin(m) \ C : IdentitiesOf[x] \cap IdentitiesOf[y] = {}}
ConversationOf(m) == LET closed == Closed(m) IN {x \in Kin(m) : \A C \in closed : x \in C}

Identified_Own(m) == IdentitiesOf[m]   \* mutant: only the message named is read
Identified(m) == UNION {IdentitiesOf[x] : x \in Thread(m)}

\* conversation_identities: of one message, or of the view's next.  A message
\* deleted meanwhile is refused, and a view goes on.
Conversation(o) ==
  /\ \/ job[o].at = "conversation"
     \/ job[o].at = "each" /\ job[o].left # <<>> /\ ~job[o].listed
  /\ job[o].change.kind \in {"mute", "unmute"}
  /\ LET m == Head(job[o].left)
         next == [job[o] EXCEPT !.at = "each", !.left = Tail(@)]
     IN IF m \in Stored /\ Identified(m) # {}
        THEN Continue(o, [at |-> "mute", next |-> next, mailbox |-> MailboxOf[m],
                          identities |-> Identified(m),
                          conversation |-> UNION {IdentitiesOf[x] : x \in ConversationOf(m)}])
        ELSE Continue(o, next)
  /\ UNCHANGED <<mail, marks, settings, mutes, now, asked, churn>>

Muting(o) ==
  /\ muted' = [muted EXCEPT ![job[o].mailbox] = @ \cup job[o].identities]
  /\ silenced' = [silenced EXCEPT ![job[o].mailbox] = @ \cup job[o].conversation]

\* mute_identities; that of a mailbox deleted meanwhile is refused, and a view
\* goes on with its next message.
Mute(o) ==
  /\ job[o].at = "mute"
  /\ job[o].next.change.kind = "mute"
  /\ IF Gone(job[o].mailbox) THEN UNCHANGED mutes ELSE Muting(o)
  /\ Continue(o, job[o].next)
  /\ UNCHANGED <<mail, marks, settings, now, asked, churn>>

\* unmute_identities; a conversation of which nothing is muted is refused.
Unmute(o) ==
  /\ job[o].at = "mute"
  /\ job[o].next.change.kind = "unmute"
  /\ muted' = [muted EXCEPT ![job[o].mailbox] = @ \ job[o].identities]
  /\ silenced' = [silenced EXCEPT ![job[o].mailbox] = @ \ job[o].identities]
  /\ Continue(o, job[o].next)
  /\ UNCHANGED <<mail, marks, settings, now, asked, churn>>

-----------------------------------------------------------------------------
(* Notes, tags and rules *)

\* set_message_note, and the read of append_message_note: each line of a note
\* is the number of the request that wrote it.
SetNote(o, m) ==
  /\ Ask(o)
  /\ m \in Stored
  /\ note' = [note EXCEPT ![m] = {asked'}]
  /\ UNCHANGED <<mail, tags, snoozed, answered, settings, mutes, now, job, churn>>

ClearNote(o, m) ==
  /\ Ask(o)
  /\ m \in Stored
  /\ note' = [note EXCEPT ![m] = {}]
  /\ UNCHANGED <<mail, tags, snoozed, answered, settings, mutes, now, job, churn>>

AppendNote(o, m) ==
  /\ Ask(o)
  /\ m \in Stored
  /\ Continue(o, [at |-> "append", message |-> m, body |-> note[m] \cup {asked'}])
  /\ UNCHANGED <<mail, marks, settings, mutes, now, churn>>

WriteNote(o) ==
  /\ job[o].at = "append"
  /\ note' = IF job[o].message \in Stored THEN [note EXCEPT ![job[o].message] = job[o].body] ELSE note
  /\ End(o)
  /\ UNCHANGED <<mail, tags, snoozed, answered, settings, mutes, now, asked, churn>>

AddRule(o, r, b) ==
  /\ Ask(o)
  /\ ~Gone(b.mailbox)
  /\ rules[r] = NoRule
  /\ rules' = [rules EXCEPT ![r] = Rule(b)]
  /\ UNCHANGED <<mail, marks, views, blocked, mutes, now, job, churn>>

\* copy_tag_rule: the conditions under another tag, kept to another mailbox or
\* to the rule's own.
CopyRule(o, r, b, copy) ==
  /\ rules[r] # NoRule
  /\ b.sender = rules[r].body.sender
  /\ AddRule(o, copy, b)

\* replace_tag_rule, pause_tag_rule and remove_tag_rule; the row is looked up
\* and written together.
ReplaceRule(o, r, b) ==
  /\ Ask(o)
  /\ ~Gone(b.mailbox)
  /\ rules[r] # NoRule
  /\ rules' = [rules EXCEPT ![r].body = b]
  /\ UNCHANGED <<mail, marks, views, blocked, mutes, now, job, churn>>

PauseRule(o, r, paused) ==
  /\ Ask(o)
  /\ rules[r] # NoRule
  /\ rules' = [rules EXCEPT ![r].paused = paused]
  /\ UNCHANGED <<mail, marks, views, blocked, mutes, now, job, churn>>

RemoveRule(o, r) ==
  /\ Ask(o)
  /\ rules[r] # NoRule
  /\ rules' = [rules EXCEPT ![r] = NoRule]
  /\ UNCHANGED <<mail, marks, views, blocked, mutes, now, job, churn>>

\* apply_tag_rules, by the rules that are not paused or by one, paused or not:
\* the rules are read, then the messages, then the tags are written together.
ApplyRules(o, only) ==
  /\ Ask(o)
  /\ LET R == {r \in RuleIds : rules[r] # NoRule /\ IF only = Unset THEN ~rules[r].paused ELSE r = only}
     IN /\ only # Unset => R # {}
        /\ Continue(o, [at |-> "match", bodies |-> {rules[r].body : r \in R}])
  /\ UNCHANGED <<mail, marks, settings, mutes, now, churn>>

MatchStored(o) ==
  /\ job[o].at = "match"
  /\ LET given == {p \in Stored \X job[o].bodies : Matches(p[2], p[1])}
     IN Continue(o, [at |-> "give", tagged |-> {<<p[1], p[2].tag>> : p \in given}])
  /\ UNCHANGED <<mail, marks, settings, mutes, now, asked, churn>>

\* tag_messages: a message deleted meanwhile undoes them all.
TagMessages(o) ==
  /\ job[o].at = "give"
  /\ LET tagged == job[o].tagged
     IN tags' = IF \A p \in tagged : p[1] \in Stored
                THEN [m \in Messages |-> tags[m] \cup {p[2] : p \in {q \in tagged : q[1] = m}}]
                ELSE tags
  /\ End(o)
  /\ UNCHANGED <<mail, snoozed, note, answered, settings, mutes, now, asked, churn>>

InUse(t) == \E m \in Stored : t \in tags[m]

\* rename_tag: a tag nothing uses is refused.
AskRename(o, from, to) ==
  /\ Ask(o)
  /\ from # to
  /\ \/ InUse(from)
     \/ \E r \in RuleIds : rules[r] # NoRule /\ rules[r].body.tag = from
     \/ \E v \in ViewNames : views[v] # NoView /\ views[v].filters.tag = from
  /\ Continue(o, [at |-> "copy", from |-> from, to |-> to])
  /\ UNCHANGED <<mail, marks, settings, mutes, now, churn>>

\* The transaction's first statement gives `to` to what carries `from`; nobody
\* sees it before the commit.
CopyTag(o) ==
  /\ job[o].at = "copy"
  /\ Continue(o, [at |-> "rename", from |-> job[o].from, to |-> job[o].to,
                  copied |-> {m \in Stored : job[o].from \in tags[m]}])
  /\ UNCHANGED <<mail, marks, settings, mutes, now, asked, churn>>

Renamed(t, from, to) == IF t = from THEN to ELSE t

\* The others take `from` off whatever carries it by then, and rename it in the
\* rules and the views.
RenameTag(o) ==
  /\ job[o].at = "rename"
  /\ LET from == job[o].from
         to == job[o].to
     IN /\ tags' = [m \in Messages |->
              (tags[m] \ {from}) \cup (IF m \in job[o].copied THEN {to} ELSE {})]
        /\ rules' = [r \in RuleIds |->
              IF rules[r] = NoRule THEN NoRule
              ELSE [rules[r] EXCEPT !.body.tag = Renamed(@, from, to)]]
        /\ views' = [v \in ViewNames |->
              IF views[v] = NoView THEN NoView
              ELSE [views[v] EXCEPT !.filters.tag = Renamed(@, from, to)]]
  /\ End(o)
  /\ UNCHANGED <<mail, snoozed, note, answered, blocked, mutes, now, asked, churn>>

\* remove_tag: looked for, and then taken off every message.
AskRemoveTag(o, t) ==
  /\ Ask(o)
  /\ InUse(t)
  /\ Continue(o, [at |-> "untag", tag |-> t])
  /\ UNCHANGED <<mail, marks, settings, mutes, now, churn>>

RemoveTag(o) ==
  /\ job[o].at = "untag"
  /\ tags' = [m \in Messages |-> tags[m] \ {job[o].tag}]
  /\ End(o)
  /\ UNCHANGED <<mail, snoozed, note, answered, settings, mutes, now, asked, churn>>

-----------------------------------------------------------------------------
(* Views and blocked senders *)

\* checked_view: filters that narrow nothing and order nothing keep every message.
KeepsAll(f) ==
  /\ ~Narrows(f) /\ f.mailbox = Unset
  /\ ~f.unanswered /\ ~f.answered /\ ~f.snoozed /\ ~f.muted
  /\ ~f.include_blocked /\ ~f.include_snoozed /\ ~f.include_muted /\ ~f.oldest_first

SaveView(o, v, f) ==
  /\ Ask(o)
  /\ ~Refused(f) /\ ~KeepsAll(f)
  /\ views' = [views EXCEPT ![v] = View(f)]
  /\ UNCHANGED <<mail, marks, rules, blocked, mutes, now, job, churn>>

Taken(w) == views[w] # NoView   \* refuse_taken_view, and the rename's own guard

RenameView(o, v, w) ==
  /\ Ask(o)
  /\ views[v] # NoView /\ ~Taken(w)
  /\ views' = [views EXCEPT ![v] = NoView, ![w] = views[v]]
  /\ UNCHANGED <<mail, marks, rules, blocked, mutes, now, job, churn>>

\* copy_view: the view is read, the name looked up, and the copy saved as any
\* view is.
CopyView(o, v, w) ==
  /\ Ask(o)
  /\ views[v] # NoView /\ ~Taken(w)
  /\ Continue(o, [at |-> "copyview", name |-> w, view |-> views[v]])
  /\ UNCHANGED <<mail, marks, settings, mutes, now, churn>>

WriteCopy(o) ==
  /\ job[o].at = "copyview"
  /\ views' = [views EXCEPT ![job[o].name] = job[o].view]
  /\ End(o)
  /\ UNCHANGED <<mail, marks, rules, blocked, mutes, now, asked, churn>>

DeleteView(o, v) ==
  /\ Ask(o)
  /\ views[v] # NoView
  /\ views' = [views EXCEPT ![v] = NoView]
  /\ UNCHANGED <<mail, marks, rules, blocked, mutes, now, job, churn>>

BlockSender(o, e) ==
  /\ Ask(o)
  /\ blocked' = blocked \cup {e}
  /\ UNCHANGED <<mail, marks, rules, views, mutes, now, job, churn>>

UnblockSender(o, e) ==
  /\ Ask(o)
  /\ e \in blocked
  /\ blocked' = blocked \ {e}
  /\ UNCHANGED <<mail, marks, rules, views, mutes, now, job, churn>>

\* import_blocked: every line is read first; the entries not blocked by then
\* are blocked one by one.
ImportBlocked(o, E) ==
  /\ Ask(o)
  /\ E # {}
  /\ Continue(o, [at |-> "block", left |-> E \ blocked])
  /\ UNCHANGED <<mail, marks, settings, mutes, now, churn>>

BlockNext(o) ==
  /\ job[o].at = "block"
  /\ \/ /\ job[o].left = {}
        /\ End(o) /\ UNCHANGED blocked
     \/ \E e \in job[o].left :
          /\ blocked' = blocked \cup {e}
          /\ Continue(o, [job[o] EXCEPT !.left = @ \ {e}])
  /\ UNCHANGED <<mail, marks, rules, views, mutes, now, asked, churn>>

-----------------------------------------------------------------------------
(* Around them *)

\* for_mailbox: the rules of every mailbox and of this one, in the import's
\* transaction.
ForMailbox_Kept(b) ==   \* mutant: rules of every mailbox are left out
  {r \in RuleIds : rules[r] # NoRule /\ ~rules[r].paused /\ rules[r].body.mailbox = b}
ForMailbox(b) ==
  {r \in RuleIds : rules[r] # NoRule /\ ~rules[r].paused /\ rules[r].body.mailbox \in {Unset, b}}

StartImport(m) ==
  /\ ~importing.open
  /\ held[m] = "coming"
  /\ importing' = [open |-> TRUE, message |-> m, rules |-> rules,
                   bodies |-> {rules[r].body : r \in ForMailbox(MailboxOf[m])}]
  /\ UNCHANGED <<held, marks, settings, mutes, now, job, asked, churn>>

\* tag_imported, and the commit that shows the message.
FinishImport ==
  /\ importing.open
  /\ LET m == importing.message
     IN /\ held' = [held EXCEPT ![m] = "stored"]
        /\ tags' = [tags EXCEPT ![m] = {b.tag : b \in {c \in importing.bodies : Matches(c, m)}}]
  /\ importing' = NoImport
  /\ UNCHANGED <<snoozed, note, answered, settings, mutes, now, job, asked, churn>>

\* delete_mailbox, with all kept on its messages, its mutes and its rules, once
\* no open transaction holds a row of it.
RemoveMailbox(b) ==
  /\ churn < MaxChurn /\ churn' = churn + 1
  /\ ~Gone(b)
  /\ importing.open => MailboxOf[importing.message] # b
  /\ \A o \in Operators : job[o].at = "rename" => \A m \in job[o].copied : MailboxOf[m] # b
  /\ LET Kept(m) == MailboxOf[m] # b
     IN /\ held' = [m \in Messages |-> IF Kept(m) THEN held[m] ELSE "deleted"]
        /\ tags' = [m \in Messages |-> IF Kept(m) THEN tags[m] ELSE {}]
        /\ snoozed' = [m \in Messages |-> IF Kept(m) THEN snoozed[m] ELSE 0]
        /\ note' = [m \in Messages |-> IF Kept(m) THEN note[m] ELSE {}]
        /\ answered' = {m \in answered : Kept(m)}
  /\ rules' = [r \in RuleIds |-> IF rules[r] # NoRule /\ rules[r].body.mailbox = b THEN NoRule ELSE rules[r]]
  /\ muted' = [muted EXCEPT ![b] = {}]
  /\ silenced' = [silenced EXCEPT ![b] = {}]
  /\ UNCHANGED <<importing, views, blocked, now, job, asked>>

Tick ==
  /\ churn < MaxChurn /\ churn' = churn + 1
  /\ now < LastTime
  /\ now' = now + 1
  /\ UNCHANGED <<mail, marks, settings, mutes, job, asked>>

OnMessage(o, m) ==
  \/ \E r \in Retags : RetagMessage(o, r, m) \/ RetagThread(o, r, m)
  \/ \E until \in 1..LastTime : SnoozeMessage(o, until, m) \/ SnoozeThread(o, until, m)
  \/ WakeMessage(o, m) \/ WakeThread(o, m)
  \/ MuteConversation(o, m) \/ UnmuteConversation(o, m) \/ Reply(o, m)
  \/ SetNote(o, m) \/ ClearNote(o, m) \/ AppendNote(o, m)

OnView(o, v) ==
  \/ \E r \in Retags : RetagView(o, r, v)
  \/ \E until \in 1..LastTime : SnoozeView(o, until, v)
  \/ \E kind \in {"mute", "unmute"} : MuteView(o, kind, v)
  \/ WakeView(o, v) \/ ReplyView(o, v)
  \/ \E f \in Filters : SaveView(o, v, f)
  \/ \E w \in ViewNames : RenameView(o, v, w) \/ CopyView(o, v, w)
  \/ DeleteView(o, v)

OnRule(o, r) ==
  \/ \E b \in RuleBodies : AddRule(o, r, b) \/ ReplaceRule(o, r, b)
  \/ \E b \in RuleBodies, copy \in RuleIds : CopyRule(o, r, b, copy)
  \/ \E paused \in BOOLEAN : PauseRule(o, r, paused)
  \/ RemoveRule(o, r) \/ ApplyRules(o, r)

Requests(o) ==
  \/ \E m \in Messages : OnMessage(o, m)
  \/ \E v \in ViewNames : OnView(o, v)
  \/ \E r \in RuleIds : OnRule(o, r)
  \/ ApplyRules(o, Unset)
  \/ \E from, to \in Tags : AskRename(o, from, to)
  \/ \E t \in Tags : AskRemoveTag(o, t)
  \/ \E e \in Entries : BlockSender(o, e) \/ UnblockSender(o, e)
  \/ \E E \in SUBSET Entries : ImportBlocked(o, E)

Steps(o) ==
  \/ List(o) \/ Retag(o) \/ Snooze(o) \/ Wake(o) \/ Answer(o) \/ Done(o)
  \/ NextConversation(o) \/ Conversation(o) \/ Mute(o) \/ Unmute(o)
  \/ WriteNote(o) \/ MatchStored(o) \/ TagMessages(o)
  \/ CopyTag(o) \/ RenameTag(o) \/ RemoveTag(o) \/ WriteCopy(o) \/ BlockNext(o)

InboxNext ==
  \/ \E o \in Operators : Requests(o) \/ Steps(o)
  \/ \E m \in Messages : StartImport(m)
  \/ \E b \in Mailboxes : RemoveMailbox(b)
  \/ FinishImport \/ Tick

InboxSpec == InboxInit /\ [][InboxNext]_inboxVars

-----------------------------------------------------------------------------
(* What the operators rely on *)

\* message_thread finds the whole conversation, in whatever order its members
\* are stored and however they are tied.
ThreadIsTheConversation == \A m \in Stored : Thread(m) = ConversationOf(m)

\* Whether a listing should show the message, said of the stored state alone.
Shown(f, m) ==
  /\ f.mailbox \in {Unset, MailboxOf[m]}
  /\ ~f.include_blocked => \A e \in blocked : SenderOf[m] \notin Covers[e]
  /\ (~f.include_snoozed /\ snoozed[m] > now) => f.snoozed
  /\ f.snoozed => snoozed[m] > now
  /\ (~f.include_muted /\ IdentitiesOf[m] \cap muted[MailboxOf[m]] # {}) => f.muted
  /\ f.muted => IdentitiesOf[m] \cap muted[MailboxOf[m]] # {}
  /\ f.answered => m \in answered
  /\ f.unanswered => m \notin answered
  /\ Keeps(f, m)

\* list_messages, by whichever of its two ways, answers the messages asked for,
\* each once and in order, and a page and what follows it make the whole: the
\* way that lets the database cut the page leaves out nobody it should not, and
\* shows nobody it should not.
ListingIsWhatIsAsked ==
  \A f \in {g \in Filters : ~Refused(g)} :
    LET all == ListMessages(f, Aside(f), 0, 0)
    IN /\ ToSet(all) = {m \in Stored : Shown(f, m)}
       /\ \A i, j \in 1..Len(all) : i < j => IF f.oldest_first THEN all[i] < all[j] ELSE all[i] > all[j]
       /\ all = ListMessages(f, Aside(f), PageSize, 0) \o ListMessages(f, Aside(f), 0, PageSize)

\* Once a conversation is muted, whatever carries or names a Message-ID its
\* messages carried stays out of listings until it is unmuted, mail imported
\* later included, and however many operators mute and unmute at once.
MutedStaysOut ==
  \A m \in Stored :
    IdentitiesOf[m] \cap silenced[MailboxOf[m]] # {} =>
      \A f \in Filters : ~f.include_muted /\ ~f.muted =>
        m \notin ToSet(ListMessages(f, Aside(f), 0, 0))

\* Mail a rule matches carries the rule's tag from the moment it is visible,
\* when the rule stood from the import's first statement to its last.
StandingRulesTag ==
  [][\A m \in Messages : held[m] = "coming" /\ held'[m] = "stored" =>
       \A r \in RuleIds :
         /\ rules[r] = importing.rules[r]
         /\ rules[r] # NoRule /\ ~rules[r].paused
         /\ rules[r].body.mailbox \in {Unset, MailboxOf[m]}
         /\ rules[r].body.sender \in {Unset, SenderOf[m]}
         => rules[r].body.tag \in tags'[m]]_inboxVars

\* What the code does not keep.  A rename gives every message that carried the tag its new name.
RenameKeepsLabels ==
  [][\A o \in Operators : job[o].at = "rename" /\ job'[o] = NoJob =>
       \A m \in Stored : job[o].from \in tags[m] => job[o].to \in tags'[m]]_inboxVars
=============================================================================
