------------------------------- MODULE Access -------------------------------
(***************************************************************************)
(* Requests over the HTTP API.  A request carries the bearer token of a    *)
(* session and names an organization; the identity authority answers the   *)
(* role the account has there, the handler asks for a role or for none,    *)
(* finds the rows it names among the organization's and reads or writes    *)
(* them.  The authority, the other requests and the rows move on between   *)
(* these steps.  Each handler is a record of what it asks for, finds and   *)
(* does; what the service does underneath is the other modules'.  The      *)
(* names leave those of Gmail free, so that one module may speak of both.  *)
(***************************************************************************)
EXTENDS Naturals, FiniteSets

CONSTANTS
  Accounts, Organizations,
  Ids,          \* the rows there are and may be made
  KindOf,       \* the kind of row each is
  FirstOwner,   \* the organization each row is of at first; None: not made yet
  FirstUnder,   \* the mailbox each is under; itself for one under none, None for one not made
  FirstRoles,   \* the roles the authority may hold at first
  Offered,      \* bound: the roles it gives afterwards, and to whom in what organization
  Sessions,     \* bound: the accounts whose session ends or begins
  MayAsk,       \* bound: the handlers each account asks
  None

RowKinds == {"mailbox", "message", "sent", "draft", "entry", "flow"}
Supported == {"member", "admin", "owner"}
Roles == Supported \cup {"viewer", "none"}

VARIABLES
  roles,     \* the identity authority: each account's role in each organization
  signed,    \* the accounts with a valid session
  owner,     \* the organization of each row; None for one not made or deleted
  under,     \* the mailbox each row is under
  request,   \* each account's request
  begun      \* history: the flows an administrator of their organization began

accessVars == <<roles, signed, owner, under, request, begun>>
authority == <<roles, signed>>
rows == <<owner, under>>

-----------------------------------------------------------------------------
(* Handlers.  One that names "one" row is given its ID; "listed" stands    *)
(* for the organization's rows of a kind, or those a filter keeps, and     *)
(* "under" for those under the mailbox it is given; "none" finds nothing   *)
(* first.  A row an addition makes is under the mailbox of the row it was  *)
(* found from.  A row of the organization itself, such as a rule, a view,  *)
(* a template, a blocked or suppressed address or a received domain, is an *)
(* entry; an authorization flow is a row of the process's memory.          *)

Handlers(handlers, names, on, does, makes) ==
  [handler : handlers, needs : {"any"}, names : {names}, on : {on}, does : {does},
   makes : {makes}, beside : {FALSE}]

Reads(on, handlers) == Handlers(handlers, "one", on, "read", "none")
Lists(on, handlers) == Handlers(handlers, "listed", on, "read", "none")
ListsUnder(on, handlers) == Handlers(handlers, "under", on, "read", "none")
\* A listing that first brings the mailboxes in line with what Skarbiec declares.
Relists(handlers) == Handlers(handlers, "listed", "mailbox", "reconcile", "none")
Needing(role, S) == {[r EXCEPT !.needs = role] : r \in S}
Changes(on, handlers) == Needing("member", Handlers(handlers, "one", on, "change", "none"))
ChangesListed(on, handlers) == Needing("member", Handlers(handlers, "listed", on, "change", "none"))
Removes(on, handlers) == Needing("member", Handlers(handlers, "one", on, "remove", "none"))
RemovesListed(on, handlers) == Needing("member", Handlers(handlers, "listed", on, "remove", "none"))
Adds(on, makes, handlers) == Needing("member", Handlers(handlers, "one", on, "add", makes))
AddsForListed(on, makes, handlers) == Needing("member", Handlers(handlers, "listed", on, "add", makes))
Makes(makes, handlers) == Needing("member", Handlers(handlers, "none", "entry", "add", makes))
\* One that writes the mailbox tag of an item, then reconciles.
Declares(names, on, handlers) == Handlers(handlers, names, on, "declare", "none")
\* A draft that is sent is removed.
Spends(names, handlers) == Needing("member", Handlers(handlers, names, "draft", "spend", "sent"))
\* One that may also name a mailbox.
Beside(S) == {[r EXCEPT !.beside = TRUE] : r \in S}

MailboxRoutes ==
  Relists({"list_mailboxes", "mailboxes_csv"}) \cup Reads("mailbox", {"get_mailbox"})
  \cup Needing("admin", Declares("none", "mailbox", {"declare_mailbox"})
                          \cup Declares("one", "mailbox", {"undeclare_mailbox"})
                          \cup Removes("mailbox", {"delete_mailbox"}))
  \cup Changes("mailbox", {"sync_mailbox"}) \cup ChangesListed("mailbox", {"sync_all"})

ReportRoutes ==
  Reads("mailbox", {"mailbox_delivery", "mailbox_delivery_csv", "mailbox_summary",
                    "mailbox_summary_csv", "mailbox_folders"})

SettingRoutes ==
  Changes("mailbox", {"append_message"})
  \cup Reads("mailbox", {"mailbox_send_limit", "mailbox_signature"})
  \cup Needing("admin", Changes("mailbox", {"set_mailbox_send_limit", "set_mailbox_signature"}))

ReplyRoutes == Reads("message", {"get_message", "list_replies"}) \cup Adds("message", "sent", {"create_reply"})

OutboundRoutes ==
  Lists("sent", {"list_outbound", "outbound_csv"}) \cup ListsUnder("sent", {"list_mailbox_outbound"})
  \cup Reads("sent", {"get_outbound"}) \cup ChangesListed("sent", {"expect_answers"})
  \cup AddsForListed("sent", "sent", {"resend_failed"}) \cup Adds("mailbox", "sent", {"create_outbound"})

AttachmentRoutes == Reads("message", {"list_attachments", "get_attachment", "get_source"})

ListingRoutes == Lists("message", {"list_messages", "messages_csv"})

BounceRoutes ==
  Lists("sent", {"list_all_replies", "replies_csv"}) \cup Lists("message", {"list_bounced", "bounced_csv"})
  \cup AddsForListed("sent", "sent", {"resend_failed_replies"})
  \cup Makes("entry", {"clear_bounced"}) \cup AddsForListed("message", "entry", {"clear_bounced_listed"})

FileRoutes == Lists("message", {"find_files", "files_csv"})

\* message_thread finds the message, then every message of its conversation.
ConversationRoutes ==
  Reads("message", {"get_thread"}) \cup Adds("message", "sent", {"forward_message"})
  \cup Changes("message", {"snooze_message", "wake_message", "mute_conversation", "unmute_conversation"})

ConversationViewRoutes ==
  ChangesListed("message", {"snooze_view", "wake_view", "mute_view", "unmute_view"})
  \cup Changes("message", {"snooze_thread", "wake_thread", "set_message_note"})

ActionRoutes ==
  Changes("message", {"mark_message", "move_message", "delete_message", "mark_thread", "move_thread"})
  \cup ChangesListed("message", {"mark_view", "move_view"})
  \cup Reads("message", {"list_message_actions"})

TagRoutes ==
  Changes("message", {"retag_message", "retag_thread"})
  \cup ChangesListed("message", {"retag_view", "rename_tag", "remove_tag"})
  \cup Lists("message", {"list_tags", "tags_csv"})

RuleRoutes ==
  Lists("entry", {"list_rules", "export_rules"}) \cup Reads("entry", {"show_rule", "rule_matches"})
  \cup Beside(Makes("entry", {"import_rules", "add_rule"}) \cup Changes("entry", {"replace_rule"}))

\* apply_rule finds its rule among the organization's with the messages.
RuleUseRoutes ==
  Beside(Adds("entry", "entry", {"copy_rule"})) \cup Removes("entry", {"remove_rule"})
  \cup ChangesListed("message", {"apply_rules", "apply_rule"})
  \cup Changes("entry", {"pause_rule", "resume_rule"})

TemplateRoutes ==
  Lists("entry", {"list_templates", "export_templates"}) \cup Reads("entry", {"get_template"})
  \cup Makes("entry", {"import_templates", "save_template"}) \cup Removes("entry", {"delete_template"})
  \cup Changes("entry", {"rename_template"}) \cup Adds("entry", "entry", {"copy_template"})

RenderRoutes == Reads("entry", {"render_template"})

ViewRoutes ==
  Lists("entry", {"list_views", "export_views"}) \cup Reads("entry", {"get_view"})
  \cup Makes("entry", {"import_views", "save_view"})
  \cup Removes("entry", {"delete_view"}) \cup Changes("entry", {"rename_view"})

ViewUseRoutes ==
  Adds("entry", "entry", {"copy_view"}) \cup AddsForListed("message", "sent", {"forward_view", "reply_view"})

SubscriptionRoutes == Lists("message", {"list_subscriptions", "subscriptions_csv", "list_contacts",
                                        "contacts_vcard", "contacts_csv"})

ContactRoutes ==
  AddsForListed("message", "entry", {"suppress_contacts", "block_contacts"})
  \cup Changes("message", {"unsubscribe"}) \cup ChangesListed("message", {"leave_listed"})
  \cup Beside(ChangesListed("message", {"unsubscribe_list"}))

BlockedRoutes ==
  Lists("entry", {"list_blocked", "export_blocked", "blocked_csv"})
  \cup Makes("entry", {"block_sender", "import_blocked"}) \cup Removes("entry", {"unblock_sender"})

SuppressedRoutes ==
  Lists("entry", {"list_suppressed", "check_recipients", "export_suppressed", "suppressed_csv"})
  \cup Makes("entry", {"suppress", "import_suppressed"}) \cup Removes("entry", {"unsuppress"})

FollowUpRoutes ==
  Lists("sent", {"list_follow_ups", "follow_ups_csv"}) \cup Reads("sent", {"show_follow_up"})
  \cup Changes("sent", {"set_follow_up", "clear_follow_up"})
  \cup ChangesListed("sent", {"clear_follow_ups"}) \cup AddsForListed("sent", "draft", {"nudge_follow_ups"})

DraftRoutes ==
  Lists("draft", {"list_drafts", "drafts_csv"})
  \cup Adds("mailbox", "draft", {"create_draft", "merge_drafts"})
  \cup Adds("sent", "draft", {"draft_from_outbound"})
  \cup Beside(Adds("draft", "draft", {"copy_draft"}))

DraftUseRoutes ==
  Reads("draft", {"get_draft"}) \cup Changes("draft", {"update_draft"})
  \cup Removes("draft", {"delete_draft"}) \cup RemovesListed("draft", {"delete_drafts"})
  \cup ChangesListed("draft", {"unschedule_drafts"})
  \cup Spends("one", {"send_draft"}) \cup Spends("listed", {"send_drafts"})

ScheduleRoutes ==
  Changes("draft", {"schedule_draft", "unschedule_draft"}) \cup ChangesListed("draft", {"schedule_drafts"})

AutoReplyRoutes ==
  Reads("mailbox", {"mailbox_auto_reply", "auto_reply_decisions"})
  \cup Needing("admin", Changes("mailbox", {"set_mailbox_auto_reply"}))
  \cup AddsForListed("message", "sent", {"answer_automatically"})

\* read_inbound finds the domain by the address it is given.
InboundRoutes ==
  Lists("entry", {"list_inbound_domains"})
  \cup Needing("admin", Makes("entry", {"declare_inbound_domain"}) \cup Removes("entry", {"remove_inbound_domain"}))
  \cup Changes("entry", {"sync_inbound_domain"}) \cup ChangesListed("entry", {"read_inbound"})

\* Connecting declares the mailbox; disconnecting is of the vault, and needs
\* that the account is no declared mailbox.
GmailRoutes ==
  Needing("admin", Makes("flow", {"start_gmail_oauth"})
                     \cup Declares("none", "mailbox", {"connect_gmail_delegated", "connect_gmail_app_password"})
                     \cup Handlers({"disconnect_gmail"}, "none", "entry", "change", "none"))
  \cup Handlers({"gmail_connection_readiness"}, "none", "entry", "read", "none")

\* No role is asked for, and the read of a completed flow declares its mailbox.
FlowRoutes == Declares("one", "flow", {"gmail_oauth_status", "gmail_oauth_settled"})

WatchRoutes == Beside(Handlers({"watch_messages"}, "listed", "message", "watch", "none"))

StatusRoutes ==
  Lists("mailbox", {"status"})
  \cup Handlers({"list_skarbiec_items", "list_gmail_profiles"}, "none", "entry", "read", "none")

\* The routes the router puts behind require_auth.
Protected ==
  StatusRoutes \cup GmailRoutes \cup FlowRoutes \cup MailboxRoutes \cup ReportRoutes \cup SettingRoutes
  \cup AutoReplyRoutes \cup ListingRoutes \cup WatchRoutes \cup ReplyRoutes \cup ConversationRoutes
  \cup ConversationViewRoutes \cup AttachmentRoutes \cup FileRoutes \cup ActionRoutes \cup OutboundRoutes
  \cup FollowUpRoutes \cup BounceRoutes

ProtectedToo ==
  DraftRoutes \cup DraftUseRoutes \cup ScheduleRoutes \cup SubscriptionRoutes \cup ContactRoutes
  \cup TagRoutes \cup ViewRoutes \cup ViewUseRoutes \cup TemplateRoutes \cup RenderRoutes \cup BlockedRoutes
  \cup SuppressedRoutes \cup RuleRoutes \cup RuleUseRoutes \cup InboundRoutes

Routes == Protected \cup ProtectedToo

\* The mailbox of a row: itself for one that is a mailbox or may be under none.
Fits(i, home) ==
  IF home = i THEN KindOf[i] \in {"mailbox", "entry", "flow"} ELSE KindOf[i] # "mailbox" /\ KindOf[home] = "mailbox"

ASSUME AccessAssumption ==
  /\ IsFiniteSet(Organizations)
  /\ KindOf \in [Ids -> RowKinds]
  /\ FirstOwner \in [Ids -> Organizations \cup {None}]
  /\ FirstUnder \in [Ids -> Ids \cup {None}]
  /\ \A i \in Ids : KindOf[i] = "flow" => FirstOwner[i] = None
  /\ \A i \in Ids :
       IF FirstOwner[i] = None THEN FirstUnder[i] = None
       ELSE FirstUnder[i] \in Ids /\ Fits(i, FirstUnder[i]) /\ FirstOwner[FirstUnder[i]] = FirstOwner[i]
  /\ FirstRoles \subseteq [Accounts -> [Organizations -> Roles]]
  /\ Offered \subseteq Accounts \X Organizations \X Roles /\ Sessions \subseteq Accounts
  /\ None \notin Organizations \cup Ids \cup Routes

-----------------------------------------------------------------------------
(* State. *)

Answers == {"none", "ok", "400", "401", "403", "404", "503", "refused"}

NoRequest ==
  [pc |-> "idle", status |-> "none", route |-> None, organization |-> None, named |-> None,
   mailbox |-> None, role |-> "none", todo |-> {}, touched |-> {}, held |-> {}, declared |-> FALSE]
RequestRecords ==
  [pc : {"idle", "authorize", "handle", "act", "watch", "done"}, status : Answers, route : Routes \cup {None},
   organization : Organizations \cup {None}, named : Ids \cup {None}, mailbox : Ids \cup {None},
   role : Supported \cup {"none"}, todo : SUBSET Ids, touched : SUBSET (Organizations \cup {None}),
   held : SUBSET (Roles \cup {"out"}), declared : BOOLEAN]
Busy(a) == request[a].pc # "idle"
Administered(r) == r.held \cap {"admin", "owner"} # {}

AccessTypeOK ==
  /\ roles \in [Accounts -> [Organizations -> Roles]]
  /\ signed \subseteq Accounts
  /\ owner \in [Ids -> Organizations \cup {None}]
  /\ under \in [Ids -> Ids \cup {None}]
  /\ \A i \in Ids : IF under[i] = None THEN owner[i] = None ELSE Fits(i, under[i])
  /\ request \in [Accounts -> RequestRecords]
  /\ \A a \in Accounts : request[a].pc = "done" <=> request[a].status # "none"
  /\ begun \subseteq Ids \X Organizations

AccessInit ==
  /\ roles \in FirstRoles /\ signed = Accounts
  /\ owner = FirstOwner /\ under = FirstUnder
  /\ request = [a \in Accounts |-> NoRequest] /\ begun = {}

Standing(rs, sessions, a, o) == IF a \notin sessions THEN "out" ELSE rs[a][o]

\* What an account is in the organization it asks for, added to what it was.
Witnessed(rs, sessions) ==
  [a \in Accounts |->
     IF request[a].pc \notin {"idle", "done"}
       THEN [request[a] EXCEPT !.held = @ \cup {Standing(rs, sessions, a, request[a].organization)}]
       ELSE request[a]]

Answer(a, status) == request' = [request EXCEPT ![a].pc = "done", ![a].status = status]

-----------------------------------------------------------------------------
(* The identity authority, which another project runs. *)

Give(a, o, role) ==
  /\ roles[a][o] # role
  /\ roles' = [roles EXCEPT ![a][o] = role]
  /\ request' = Witnessed(roles', signed)
  /\ UNCHANGED <<signed, rows, begun>>

SignInOrOut(a) ==
  /\ signed' = IF a \in signed THEN signed \ {a} ELSE signed \cup {a}
  /\ request' = Witnessed(roles, signed')
  /\ UNCHANGED <<roles, rows, begun>>

-----------------------------------------------------------------------------
(* A request. *)

Present(kind) == {i \in Ids : KindOf[i] = kind /\ owner[i] # None}

\* A request with a token that names an organization.
Arrive(a) ==
  /\ ~Busy(a)
  /\ \E route \in Routes, organization \in Organizations :
       \E named \in CASE route.names = "one" -> Present(route.on)
                       [] route.names = "under" -> Present("mailbox")
                       [] OTHER -> {None},
          mailbox \in {None} \cup IF route.beside THEN Present("mailbox") ELSE {} :
         /\ route.handler \in MayAsk[a]
         /\ request' = [request EXCEPT ![a] = [NoRequest EXCEPT
              !.pc = "authorize", !.route = route, !.organization = organization, !.named = named,
              !.mailbox = mailbox, !.held = {Standing(roles, signed, a, organization)}]]
  /\ UNCHANGED <<authority, rows, begun>>

\* bearer_token, then the organization header: without the one or the other
\* nothing is asked of the authority, and no handler runs.
Unverifiable(a) ==
  /\ ~Busy(a)
  /\ \E status \in {"401", "400"} : Answer(a, status)
  /\ UNCHANGED <<authority, rows, begun>>

FromRpc_NoMember(role) == IF role \in {"admin", "owner"} THEN role ELSE "none"   \* mutant: a role is not read

\* OrganizationRole::from_rpc; "none" is no role.
FromRpc(role) == IF role \in Supported THEN role ELSE "none"

\* The authorizations the account has in the organizations.
Rows(a, organizations) ==
  {[organization |-> o, role |-> roles[a][o]] : o \in {p \in organizations : roles[a][p] # "none"}}

OfTarget(row, o) == row.organization = o

Verified_Unread(answered, o) ==   \* mutant: a role the API does not know is taken
  IF Cardinality(answered) > 1 THEN "503"
  ELSE IF \E row \in answered : OfTarget(row, o)
  THEN (CHOOSE row \in answered : TRUE).role ELSE "403"

\* verify, once the authority answered these rows: the role, or the refusal.
Verified(answered, o) ==
  IF Cardinality(answered) > 1 THEN "503"
  ELSE IF \E row \in answered : OfTarget(row, o) /\ FromRpc(row.role) # "none"
  THEN FromRpc((CHOOSE row \in answered : TRUE).role) ELSE "403"

\* authorize_organization answers for the organization, or for every one the
\* account is in, or it fails.
Authorize(a) ==
  LET r == request[a] IN
  /\ r.pc = "authorize"
  /\ \/ Answer(a, "503")
     \/ a \notin signed /\ Answer(a, "401")
     \/ /\ a \in signed
        /\ \E asked \in {{r.organization}, Organizations} :
             LET verified == Verified(Rows(a, asked), r.organization) IN
             IF verified \in Supported
               THEN request' = [request EXCEPT ![a].pc = "handle", ![a].role = verified]
               ELSE Answer(a, verified)
  /\ UNCHANGED <<authority, rows, begun>>

Permits_AnyRole(role, needs) == TRUE   \* mutant: the handler asks for no role

\* OrganizationRole::permits, by require_role; a handler that asks for none has any.
Permits(role, needs) ==
  LET rank == [any |-> 0, member |-> 1, admin |-> 2, owner |-> 3] IN rank[role] >= rank[needs]

\* get_message and its like: the row with the ID whose mailbox is the organization's.
Found(i, o) == owner[i] = o

Resolved_AnyOrganization(i, o) == i = None \/ owner[i] # None   \* mutant

\* resolve_mailbox, where the request names one.
Resolved(i, o) == i = None \/ owner[i] = o

Listed(kind, o) == {i \in Ids : KindOf[i] = kind /\ owner[i] = o}

\* require_role, and what the handler finds; a reading handler answers it.
Handle(a) ==
  LET r == request[a]
      found == CASE r.route.names = "one" -> {r.named}
                 [] r.route.names = "listed" -> Listed(r.route.on, r.organization)
                 [] r.route.names = "under" -> {i \in Listed(r.route.on, r.organization) : under[i] = r.named}
                 [] OTHER -> {} IN
  /\ r.pc = "handle"
  /\ IF ~Permits(r.role, r.route.needs) THEN Answer(a, "403")
     ELSE IF \/ r.route.names = "one" /\ ~Found(r.named, r.organization)
             \/ ~Resolved(r.mailbox, r.organization)
       THEN Answer(a, "404")
     ELSE IF r.route.does = "read"
       THEN request' = [request EXCEPT ![a].pc = "done", ![a].status = "ok",
                                       ![a].touched = {owner[i] : i \in found}]
     ELSE request' = [request EXCEPT ![a].pc = IF r.route.does = "watch" THEN "watch" ELSE "act",
                                     ![a].todo = found]
  /\ UNCHANGED <<authority, rows, begun>>

\* What the handler refuses by its own rules, before or between its writes.
RefuseByRule(a) ==
  /\ \/ request[a].pc = "act"
     \/ request[a].pc = "handle" /\ Permits(request[a].role, request[a].route.needs)
  /\ Answer(a, "refused")
  /\ UNCHANGED <<authority, rows, begun>>

\* The organizations whose rows a step wrote, and what it has left.
Wrote(a, organizations, left) ==
  request' = [request EXCEPT ![a].touched = @ \cup organizations, ![a].todo = left,
                             ![a].pc = IF left = {} THEN "done" ELSE "act",
                             ![a].status = IF left = {} THEN "ok" ELSE "none"]

Writing(a, x, does) ==
  /\ request[a].pc = "act" /\ x \in request[a].todo /\ request[a].route.does \in does

\* A row its mailbox took with it since it was found: one asked for is not
\* found, or the write is refused; one of a listing is passed over.
Miss(a, x) ==
  /\ Writing(a, x, {"change", "remove", "add", "spend", "declare"}) /\ owner[x] = None
  /\ IF request[a].route.names = "one" THEN \E status \in {"404", "refused"} : Answer(a, status)
     ELSE Wrote(a, {}, request[a].todo \ {x})
  /\ UNCHANGED <<authority, rows, begun>>

\* A rule that is replaced is kept to the mailbox named, or to none.
Change(a, x) ==
  LET r == request[a] IN
  /\ Writing(a, x, {"change"}) /\ owner[x] # None
  /\ IF r.route.beside /\ r.route.on = "entry"
       THEN /\ r.mailbox # None => owner[r.mailbox] # None
            /\ under' = [under EXCEPT ![x] = IF r.mailbox = None THEN x ELSE r.mailbox]
       ELSE UNCHANGED under
  /\ Wrote(a, {owner[x]}, r.todo \ {x})
  /\ UNCHANGED <<authority, owner, begun>>

\* With every row under it, as the tables' references are declared.
Deleted(x) == [i \in Ids |-> IF x \in {i, under[i]} THEN None ELSE owner[i]]

Remove(a, x) ==
  /\ Writing(a, x, {"remove"}) /\ owner[x] # None
  /\ owner' = Deleted(x)
  /\ Wrote(a, {owner[x]}, request[a].todo \ {x})
  /\ UNCHANGED <<authority, under, begun>>

\* An ID is given to one row and never again.
Unmade(kind) == {i \in Ids : KindOf[i] = kind /\ under[i] = None}

\* The mailbox a row made from x is under; a row of the organization is under
\* itself, or under the mailbox the rule it copies is kept to.
Home(r, x, y) ==
  IF r.mailbox # None THEN r.mailbox
  ELSE IF r.route.makes # "entry" THEN under[x]
  ELSE IF KindOf[x] = "entry" /\ under[x] # x THEN under[x] ELSE y

\* A draft and a sent message are their mailbox's, the other rows say their organization.
Made(r, home) == IF r.route.makes = "entry" THEN r.organization ELSE owner[home]

Add(a, x) ==
  LET r == request[a] IN
  /\ Writing(a, x, {"add", "spend"}) /\ owner[x] # None
  /\ \E y \in Unmade(r.route.makes), spent \in IF r.route.does = "spend" THEN BOOLEAN ELSE {FALSE} :
       LET home == Home(r, x, y) IN
       /\ home # y => owner[home] # None
       /\ owner' = [i \in Ids |-> IF i = y THEN Made(r, home) ELSE IF i = x /\ spent THEN None ELSE owner[i]]
       /\ under' = [under EXCEPT ![y] = home]
       /\ Wrote(a, {owner[x], owner'[y]}, r.todo \ {x})
  /\ UNCHANGED <<authority, begun>>

\* A row of the organization, of a mailbox of it where the request names one.
Make(a) ==
  LET r == request[a] IN
  /\ r.pc = "act" /\ r.route.names = "none" /\ r.route.does = "add"
  /\ \E y \in Unmade(r.route.makes) :
       LET home == IF r.mailbox = None THEN y ELSE r.mailbox IN
       /\ home # y => owner[home] # None
       /\ owner' = [owner EXCEPT ![y] = r.organization]
       /\ under' = [under EXCEPT ![y] = home]
       /\ Wrote(a, {owner'[y]}, {})
       /\ begun' = IF r.route.makes = "flow" /\ Administered(r) THEN begun \cup {<<y, r.organization>>} ELSE begun
  /\ UNCHANGED authority

\* set_mailbox_declared: Skarbiec's item, before the mailbox that stands for it.
\* A flow's read does so once its callback completed it.
SetDeclared(a) ==
  /\ request[a].pc = "act" /\ request[a].route.does = "declare"
  /\ request' = [request EXCEPT ![a].declared = TRUE]
  /\ UNCHANGED <<authority, rows, begun>>

Reconciling(r) ==
  r.pc = "act" /\ (r.route.does = "reconcile" \/ r.route.handler = "sync_all" \/ r.declared)

MakeMailbox(o, y) ==
  /\ owner' = [owner EXCEPT ![y] = o]
  /\ under' = [under EXCEPT ![y] = y]

\* reconcile_mailboxes: an item Skarbiec declares gets its mailbox, whoever asks.
Adopt(a) ==
  /\ Reconciling(request[a])
  /\ \E y \in Unmade("mailbox") : MakeMailbox(request[a].organization, y)
  /\ request' = [request EXCEPT ![a].touched = @ \cup {request[a].organization}]
  /\ UNCHANGED <<authority, begun>>

\* A mailbox is brought in line with its item, or is no longer read.
Align(a) ==
  /\ Reconciling(request[a])
  /\ \E x \in Listed("mailbox", request[a].organization) :
       request' = [request EXCEPT ![a].touched = @ \cup {owner[x]}]
  /\ UNCHANGED <<authority, rows, begun>>

\* What is answered of the mailboxes after that; a flow under way is answered as it is.
Return(a) ==
  LET r == request[a]
      read == (IF r.route.names = "one" THEN r.todo ELSE {}) \cup Listed("mailbox", r.organization) IN
  /\ r.pc = "act" /\ r.route.does \in {"reconcile", "declare"}
  /\ r.route.does = "declare" => (r.declared \/ r.route.on = "flow") /\ \A i \in r.todo : owner[i] # None
  /\ request' = [request EXCEPT ![a].pc = "done", ![a].status = "ok",
                                ![a].touched = @ \cup {owner[i] : i \in read}]
  /\ UNCHANGED <<authority, rows, begun>>

\* complete_gmail_oauth_callback, which no session is asked for: the browser
\* returns to a flow that stands, and its mailbox is declared and made.
Redirected(e) ==
  /\ KindOf[e] = "flow" /\ owner[e] # None
  /\ \E y \in Unmade("mailbox") : MakeMailbox(owner[e], y)
  /\ UNCHANGED <<authority, request, begun>>

\* Nothing was listed, or the handler finds and writes nothing of an organization.
Finish(a) ==
  /\ request[a].pc = "act" /\ request[a].todo = {} /\ request[a].route.does \notin {"reconcile", "declare"}
  /\ request[a].route.names = "listed" \/ request[a].route.does = "change"
  /\ Answer(a, "ok")
  /\ UNCHANGED <<authority, rows, begun>>

\* watch_messages goes on handing the organization's messages, or the mailbox's,
\* for as long as the client stays.
Hand(a) ==
  LET r == request[a]
      kept == {i \in Listed("message", r.organization) : r.mailbox \in {None, under[i]}} IN
  /\ r.pc = "watch"
  /\ request' = [request EXCEPT ![a].touched = @ \cup {owner[i] : i \in kept}]
  /\ UNCHANGED <<authority, rows, begun>>

Leave(a) ==
  /\ request[a].pc = "watch"
  /\ Answer(a, "ok")
  /\ UNCHANGED <<authority, rows, begun>>

Step(a) ==
  \/ Arrive(a) \/ Unverifiable(a) \/ Authorize(a) \/ Handle(a) \/ RefuseByRule(a) \/ Make(a) \/ Finish(a) \/ Hand(a) \/ Leave(a)
  \/ SetDeclared(a) \/ Adopt(a) \/ Align(a) \/ Return(a)
  \/ \E x \in Ids : Miss(a, x) \/ Change(a, x) \/ Remove(a, x) \/ Add(a, x)

AccessNext ==
  \/ \E a \in Accounts : Step(a)
  \/ \E a \in Sessions : SignInOrOut(a)
  \/ \E given \in Offered : Give(given[1], given[2], given[3])
  \/ \E e \in Ids : Redirected(e)

AccessSpec == AccessInit /\ [][AccessNext]_accessVars

-----------------------------------------------------------------------------
(* Properties. *)

\* auth.rs and every query: what a request reads and writes, and what it makes,
\* is of the organization it names, and a row and its mailbox are of the same
\* organization, whatever else was named, copied or deleted meanwhile.
ActsForItsOrganization ==
  /\ \A a \in Accounts : request[a].touched \subseteq {request[a].organization}
  /\ \A i \in Ids : owner[i] # None => owner[under[i]] = owner[i]

Administrative ==
  {"declare_mailbox", "undeclare_mailbox", "delete_mailbox", "start_gmail_oauth", "connect_gmail_app_password",
   "connect_gmail_delegated", "set_mailbox_send_limit", "set_mailbox_signature"}

\* README.md:283, docs/delivery/limit.md:43 and docs/delivery/signature.md:13: what
\* is answered, written or declared was asked by an account the authority gave a
\* supported role in the organization while the request was under way, an
\* administrator's for the declarations, the removals, the connections and the
\* settings.  What any role's request declares beside them is the mailbox of a
\* flow an administrator of the same organization began.
AuthorityAllowedIt ==
  \A a \in Accounts :
    LET r == request[a] IN
    r.status = "ok" \/ r.touched # {} \/ r.declared =>
      /\ r.held \cap Supported # {}
      /\ r.route.handler \in Administrative => Administered(r)
      /\ r.declared => Administered(r) \/ <<r.named, r.organization>> \in begun

\* README.md:283 reads as if only an administrator declared.  That is not kept: the
\* read of a completed flow, which asks for no role, writes the tag again, also
\* after an administrator took the declaration back.  No run checks it.
OnlyAdministratorsDeclare == \A a \in Accounts : request[a].declared => Administered(request[a])

\* README.md:283: a refusal says what was so while the request was under way: 401
\* that there was no session, 403 that there was no sufficient role, 404 that the
\* organization holds no row of those named.
RefusalsAreTrue ==
  \A a \in Accounts :
    LET r == request[a] IN
    /\ r.status = "401" => r.route = None \/ "out" \in r.held
    /\ r.status = "403" => \E s \in r.held : s \notin Supported \/ (r.route.needs = "admin" /\ s = "member")
    /\ r.status = "404" => \E i \in {r.named, r.mailbox} \ {None} : owner[i] # r.organization

=============================================================================
