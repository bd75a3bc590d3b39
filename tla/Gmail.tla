-------------------------------- MODULE Gmail --------------------------------
(***************************************************************************)
(* Connecting one Gmail account and disconnecting it.  A connection ends   *)
(* in an item of the Skarbiec vault, tagged a mailbox: the `oauth` item an *)
(* authorization flow or a delegation writes, or the `password` item.  A   *)
(* flow lives in the service's memory; Google's redirect calls back into   *)
(* it while clients wait.  A worker is one request of the service; one     *)
(* whose client leaves is dropped where it awaits.                         *)
(***************************************************************************)
EXTENDS Naturals, FiniteSets

CONSTANTS
  Workers,
  Flows,     \* authorizations the service starts
  Grants,    \* refresh tokens Google may issue
  Nothing

Delegated == "delegated"           \* the service account's key, which no item holds
Password == "app password"

ASSUME GmailAssumption == Nothing \notin Flows \cup Grants \cup {Delegated, Password}

VARIABLES
  vault,     \* the credential each item holds, or Nothing
  tagged,    \* the items declared mailboxes
  google,    \* each refresh token at Google
  cache,     \* the access token cached for each item, and its credential's fingerprint
  flow,      \* the broker's record of each flow
  op,        \* each worker's operation
  pc,
  secret,    \* the credential it read, was given or is handed
  todo,      \* a disconnection's items still held
  woken,     \* the waiters whose registration was notified
  seen       \* history: what the item a request uses has held since the request read it

vars == <<vault, tagged, google, cache, flow, op, pc, secret, todo, woken, seen>>
skarbiec == <<vault, tagged>>

Items == {"oauth", "password"}
Held == {i \in Items : vault[i] # Nothing}

Statuses == {"none", "pending", "processing", "completed", "failed"}
Settled(f) == flow[f] \in {"completed", "failed"}

NoOp == [kind |-> "none", flow |-> Nothing, item |-> "oauth"]
Kinds == {"none", "callback", "status", "delegate", "password", "disconnect", "declare", "undeclare", "resolve"}
Ops == [kind : Kinds, flow : Flows \cup {Nothing}, item : Items]
Completing == {"exchange", "save", "complete"}
Places == Completing \cup {"idle", "read", "wait", "write", "declare", "retag",
                           "get", "revoke", "delete", "token", "mint"}
Secrets == Grants \cup {Delegated, Password, Nothing}

\* An access token is told by the credential it was minted of, and so is a
\* fingerprint: the OAuth client and the key it names too are never replaced here.
CachedTokens == [token : Secrets, print : Secrets]

TypeOK ==
  /\ vault \in [Items -> Secrets]
  /\ vault["oauth"] \in Grants \cup {Delegated, Nothing} /\ vault["password"] \in {Password, Nothing}
  /\ tagged \subseteq Items
  /\ google \in [Grants -> {"unissued", "live", "revoked"}]
  /\ cache \in [Items -> CachedTokens \cup {Nothing}]
  /\ flow \in [Flows -> Statuses]
  /\ op \in [Workers -> Ops]
  /\ pc \in [Workers -> Places]
  /\ secret \in [Workers -> Secrets]
  /\ todo \in [Workers -> SUBSET Items]
  /\ woken \subseteq Workers
  /\ seen \in [Workers -> SUBSET Secrets]
  /\ tagged \subseteq Held

Init ==
  /\ vault = [i \in Items |-> Nothing]
  /\ tagged = {}
  /\ google = [g \in Grants |-> "unissued"]
  /\ cache = [i \in Items |-> Nothing]
  /\ flow = [f \in Flows |-> "none"]
  /\ op = [w \in Workers |-> NoOp]
  /\ pc = [w \in Workers |-> "idle"]
  /\ secret = [w \in Workers |-> Nothing]
  /\ todo = [w \in Workers |-> {}]
  /\ woken = {}
  /\ seen = [w \in Workers |-> {}]

-----------------------------------------------------------------------------

Goto(w, place) == pc' = [pc EXCEPT ![w] = place]

\* A request or command ends, answered or refused.
End(w) ==
  /\ Goto(w, "idle")
  /\ op' = [op EXCEPT ![w] = NoOp]
  /\ secret' = [secret EXCEPT ![w] = Nothing]
  /\ todo' = [todo EXCEPT ![w] = {}]

Begin(w, kind, f, i, place) ==
  /\ pc[w] = "idle"
  /\ op' = [op EXCEPT ![w] = [kind |-> kind, flow |-> f, item |-> i]]
  /\ Goto(w, place)

Continue(w, place) == Goto(w, place) /\ UNCHANGED <<op, secret, todo>>

\* declare_and_reconcile: every connection ends in it, and knows its item alone.
GoDeclare(w) ==
  /\ Goto(w, "declare")
  /\ op' = [op EXCEPT ![w] = [NoOp EXCEPT !.kind = "declare", !.item = op[w].item]]
  /\ UNCHANGED <<secret, todo>>

\* notify_waiters: every registered waiter, whatever flow it waits for.
Notify == woken' = {w \in Workers : pc[w] \in {"read", "wait"}}

-----------------------------------------------------------------------------
(* The flow: GmailOAuthBroker. *)

\* start, once the login's address and the OAuth client were read.
Start(f) ==
  /\ flow[f] = "none"
  /\ flow' = [flow EXCEPT ![f] = "pending"]
  /\ UNCHANGED <<skarbiec, google, cache, op, pc, secret, todo, woken, seen>>

\* fail: a flow that was not settled is failed.
Failed(f) == IF flow[f] \in {"pending", "processing"} THEN [flow EXCEPT ![f] = "failed"] ELSE flow

\* A redirect that brings an error or no code.
CallbackRefused(f) ==
  /\ flow' = Failed(f)
  /\ Notify
  /\ UNCHANGED <<skarbiec, google, cache, op, pc, secret, todo, seen>>

Claimable_Any(f) == flow[f] # "none"   \* mutant: the status is not looked at
Claimable(f) == flow[f] = "pending"

\* A redirect that brings a code: begin_completion.
Callback(w, f) ==
  /\ Claimable(f)
  /\ Begin(w, "callback", f, "oauth", "exchange")
  /\ flow' = [flow EXCEPT ![f] = "processing"]
  /\ UNCHANGED <<skarbiec, google, cache, secret, todo, woken, seen>>

\* Another one for a flow already taken is refused and wakes the waiters.
CallbackConsumed(f) ==
  /\ flow[f] # "none" /\ ~Claimable(f)
  /\ Notify
  /\ UNCHANGED <<skarbiec, google, cache, flow, op, pc, secret, todo, seen>>

Refuse(w) == flow' = Failed(op[w].flow) /\ Notify /\ End(w)

\* exchange_code up to Google's answer about who authorized.  A token issued
\* to the wrong account, or of which Google then says nothing, is not kept.
Exchange(w) ==
  /\ pc[w] = "exchange"
  /\ \/ Refuse(w) /\ UNCHANGED google
     \/ \E g \in Grants :
          /\ google[g] = "unissued"
          /\ google' = [google EXCEPT ![g] = "live"]
          /\ \/ /\ Goto(w, "save")
                /\ secret' = [secret EXCEPT ![w] = g]
                /\ UNCHANGED <<op, todo, flow, woken>>
             \/ Refuse(w)
  /\ UNCHANGED <<skarbiec, cache, seen>>

\* set_item: an item written keeps its tags, and its cached token goes after it.
Put(i, c) ==
  /\ vault' = [vault EXCEPT ![i] = c]
  /\ seen' = [v \in Workers |->
                IF pc[v] \in {"revoke", "delete", "token"} /\ op[v].item = i
                THEN seen[v] \cup {c} ELSE seen[v]]

Written(i, c) ==
  /\ Put(i, c)
  /\ cache' = [cache EXCEPT ![i] = Nothing]

\* It fails; "persisted state is unknown".
WriteFails(i, c) ==
  /\ Put(i, c) \/ UNCHANGED <<vault, seen>>
  /\ UNCHANGED cache

\* save_gmail_authorization.
Save(w) ==
  /\ pc[w] = "save"
  /\ \/ /\ Written("oauth", secret[w])
        /\ Goto(w, "complete")
        /\ secret' = [secret EXCEPT ![w] = Nothing]
        /\ UNCHANGED <<op, todo, flow, woken>>
     \/ WriteFails("oauth", secret[w]) /\ Refuse(w)
  /\ UNCHANGED <<tagged, google>>

\* The flow is completed and its waiters woken; the mailbox is declared next.
Complete(w) ==
  /\ pc[w] = "complete"
  /\ flow' = [flow EXCEPT ![op[w].flow] = "completed"]
  /\ Notify
  /\ GoDeclare(w)
  /\ UNCHANGED <<skarbiec, google, cache, seen>>

-----------------------------------------------------------------------------
(* Reading a flow and waiting for it. *)

Registered_Late == "wait"   \* mutant: the status is read before registering
Registered == "read"

\* gmail_oauth_status and settled: registered to be woken, then the flow read.
Ask(w, f) ==
  /\ flow[f] # "none"
  /\ Begin(w, "status", f, "oauth", Registered)
  /\ UNCHANGED <<skarbiec, google, cache, flow, secret, todo, woken, seen>>

\* A completed flow's mailbox is declared before it is answered; one that is
\* not settled is answered as it is (status) or waited for (settled).
ReadStatus(w) ==
  /\ pc[w] = "read"
  /\ \/ flow[op[w].flow] = "completed" /\ GoDeclare(w) /\ woken' = woken \ {w}
     \/ ~Settled(op[w].flow) /\ Continue(w, "wait") /\ UNCHANGED woken
     \/ flow[op[w].flow] # "completed" /\ End(w) /\ woken' = woken \ {w}
  /\ UNCHANGED <<skarbiec, google, cache, flow, seen>>

Wake(w) ==
  /\ pc[w] = "wait" /\ w \in woken
  /\ Continue(w, "read")
  /\ woken' = woken \ {w}
  /\ UNCHANGED <<skarbiec, google, cache, flow, seen>>

-----------------------------------------------------------------------------
(* Declaring: every connection ends here. *)

\* The item's profile must resolve.
Declare(w) ==
  /\ pc[w] = "declare"
  /\ \/ vault[op[w].item] # Nothing /\ Continue(w, "retag")
     \/ End(w)
  /\ UNCHANGED <<skarbiec, google, cache, flow, woken, seen>>

\* Skarbiec refuses to retag an item it does not hold.
Retaggable_Any(w) == TRUE   \* mutant: a tag outlives its item
Retaggable(w) == vault[op[w].item] # Nothing

\* set_mailbox_declared.
Retag(w) ==
  /\ pc[w] = "retag"
  /\ \/ /\ Retaggable(w)
        /\ tagged' = IF op[w].kind = "undeclare" THEN tagged \ {op[w].item}
                                                 ELSE tagged \cup {op[w].item}
     \/ UNCHANGED tagged
  /\ End(w)
  /\ UNCHANGED <<vault, google, cache, flow, woken, seen>>

\* connect_gmail_app_password, connect_gmail_delegated: Google accepted the
\* login, or minted a token for the address.
Connect(w, kind) ==
  /\ Begin(w, kind, Nothing, IF kind = "password" THEN "password" ELSE "oauth", "write")
  /\ UNCHANGED <<skarbiec, google, cache, flow, secret, todo, woken, seen>>

\* save_gmail_app_password, save_gmail_delegation.
Write(w) ==
  /\ pc[w] = "write"
  /\ LET c == IF op[w].kind = "password" THEN Password ELSE Delegated IN
       \/ Written(op[w].item, c) /\ GoDeclare(w)
       \/ WriteFails(op[w].item, c) /\ End(w)
  /\ UNCHANGED <<tagged, google, flow, woken>>

Undeclare(w, i) ==
  /\ Begin(w, "undeclare", Nothing, i, "retag")
  /\ UNCHANGED <<skarbiec, google, cache, flow, secret, todo, woken, seen>>

-----------------------------------------------------------------------------
(* Disconnecting. *)

Disconnectable == Held # {} /\ tagged = {}

\* disconnect_gmail: the account's items, none of which may be a mailbox.
Disconnect(w) ==
  /\ Disconnectable
  /\ Begin(w, "disconnect", Nothing, "oauth", "get")
  /\ todo' = [todo EXCEPT ![w] = Held]
  /\ UNCHANGED <<skarbiec, google, cache, flow, secret, woken, seen>>

\* get_item: the next item is read; one that is gone ends the disconnection.
Get(w) ==
  /\ pc[w] = "get"
  /\ \E i \in todo[w] :
       \/ /\ vault[i] # Nothing
          /\ op' = [op EXCEPT ![w].item = i]
          /\ secret' = [secret EXCEPT ![w] = vault[i]]
          /\ Goto(w, IF vault[i] \in Grants THEN "revoke" ELSE "delete")
          /\ UNCHANGED todo
       \/ End(w)
  /\ UNCHANGED <<skarbiec, google, cache, flow, woken, seen>>

Refused_Ignored(w) == Continue(w, "delete")   \* mutant: the item goes whatever Google answers
Refused(w) == End(w)

\* revoke: a token Google has revoked before counts as revoked; any other
\* answer keeps the credential.
Revoke(w) ==
  /\ pc[w] = "revoke"
  /\ \/ google' = [google EXCEPT ![secret[w]] = "revoked"] /\ Continue(w, "delete")
     \/ google' = [google EXCEPT ![secret[w]] = "revoked"] /\ Refused(w)   \* the answer is lost
     \/ UNCHANGED google /\ Refused(w)
  /\ UNCHANGED <<skarbiec, cache, flow, woken, seen>>

\* The item goes to Skarbiec's trash, with whatever it holds by then.
Trash(w) ==
  LET i == op[w].item IN
  /\ vault[i] # Nothing
  /\ vault' = [vault EXCEPT ![i] = Nothing]
  /\ tagged' = tagged \ {i}

\* delete_item, which asks for nothing but the item's ID; the next item follows.
\* When its answer is lost the item may be gone all the same, its token cached.
Delete(w) ==
  /\ pc[w] = "delete"
  /\ LET i == op[w].item IN
       \/ /\ Trash(w)
          /\ cache' = [cache EXCEPT ![i] = Nothing]
          /\ IF todo[w] = {i} THEN End(w)
             ELSE /\ todo' = [todo EXCEPT ![w] = @ \ {i}]
                  /\ secret' = [secret EXCEPT ![w] = Nothing]
                  /\ Goto(w, "get")
                  /\ UNCHANGED op
       \/ (Trash(w) \/ UNCHANGED skarbiec) /\ UNCHANGED cache /\ End(w)
  /\ seen' = [seen EXCEPT ![w] = {}]
  /\ UNCHANGED <<google, flow, woken>>

-----------------------------------------------------------------------------
(* Using a credential: resolve_credentials. *)

Conclude(w) == End(w) /\ seen' = [seen EXCEPT ![w] = {}]

\* The item is read; a password is handed out as it is.
Resolve(w) ==
  /\ vault["oauth"] # Nothing
  /\ Begin(w, "resolve", Nothing, "oauth", "token")
  /\ secret' = [secret EXCEPT ![w] = vault["oauth"]]
  /\ seen' = [seen EXCEPT ![w] = {vault["oauth"]}]
  /\ UNCHANGED <<skarbiec, google, cache, flow, todo, woken>>

Cached_Unchecked(w) == cache[op[w].item] # Nothing   \* mutant: no fingerprint
Cached(w) == cache[op[w].item] # Nothing /\ cache[op[w].item].print = secret[w]

\* A cached token is handed out when the credentials read are those of its fingerprint.
Token(w) ==
  /\ pc[w] = "token"
  /\ IF Cached(w) THEN Conclude(w)
     ELSE Continue(w, "mint") /\ seen' = [seen EXCEPT ![w] = {}]
  /\ UNCHANGED <<skarbiec, google, cache, flow, woken>>

\* A new one is, and is cached when Google says for how long.
Minted(w) ==
  /\ Conclude(w)
  /\ \/ UNCHANGED cache
     \/ cache' = [cache EXCEPT ![op[w].item] =
                    [token |-> secret[w], print |-> secret[w]]]

\* refresh_google_access_token.
Refresh(w) ==
  /\ pc[w] = "mint" /\ secret[w] \in Grants
  /\ \/ google[secret[w]] = "live" /\ Minted(w)
     \/ Conclude(w) /\ UNCHANGED cache
  /\ UNCHANGED <<skarbiec, google, flow, woken>>

\* delegated_access_token, which the domain's administrator grants.
Mint(w) ==
  /\ pc[w] = "mint" /\ secret[w] = Delegated
  /\ Minted(w) \/ (Conclude(w) /\ UNCHANGED cache)
  /\ UNCHANGED <<skarbiec, google, flow, woken>>


-----------------------------------------------------------------------------

\* A client that leaves drops its request where it awaits; what that has sent
\* Skarbiec to delete may be gone (Delete) or written (WriteFails).
Drop(w) ==
  /\ pc[w] # "idle"
  /\ \/ Conclude(w) /\ UNCHANGED vault
     \/ pc[w] = "save" /\ Put("oauth", secret[w]) /\ End(w)
  /\ woken' = woken \ {w}
  /\ UNCHANGED <<tagged, google, cache, flow>>

\* Google's lifetime of a cached token is over.
Expire(i) ==
  /\ cache[i] # Nothing
  /\ cache' = [cache EXCEPT ![i] = Nothing]
  /\ UNCHANGED <<skarbiec, google, flow, op, pc, secret, todo, woken, seen>>

\* The account's owner withdraws the authorization at Google.
Withdraw(g) ==
  /\ google[g] = "live"
  /\ google' = [google EXCEPT ![g] = "revoked"]
  /\ UNCHANGED <<skarbiec, cache, flow, op, pc, secret, todo, woken, seen>>

\* The process stops: its flows, its tokens and its requests go with it.
Restart ==
  /\ flow' = [f \in Flows |-> "none"]
  /\ cache' = [i \in Items |-> Nothing]
  /\ pc' = [w \in Workers |-> "idle"]
  /\ op' = [w \in Workers |-> NoOp]
  /\ secret' = [w \in Workers |-> Nothing]
  /\ todo' = [w \in Workers |-> {}]
  /\ woken' = {}
  /\ seen' = [w \in Workers |-> {}]
  /\ UNCHANGED <<skarbiec, google>>

FlowStep(w) ==
  \/ \E f \in Flows : Callback(w, f) \/ Ask(w, f)
  \/ Exchange(w) \/ Save(w) \/ Complete(w) \/ ReadStatus(w) \/ Wake(w)

ItemStep(w) ==
  \/ \E kind \in {"password", "delegate"} : Connect(w, kind)
  \/ \E i \in Items : Undeclare(w, i)
  \/ Declare(w) \/ Retag(w) \/ Write(w)
  \/ Disconnect(w) \/ Get(w) \/ Revoke(w) \/ Delete(w)
  \/ Resolve(w) \/ Token(w) \/ Refresh(w) \/ Mint(w) \/ Drop(w)

Next ==
  \/ \E w \in Workers : FlowStep(w) \/ ItemStep(w)
  \/ \E f \in Flows : Start(f) \/ CallbackRefused(f) \/ CallbackConsumed(f)
  \/ \E i \in Items : Expire(i)
  \/ \E g \in Grants : Withdraw(g)
  \/ Restart

Spec == Init /\ [][Next]_vars

-----------------------------------------------------------------------------
(* Properties. *)

\* A redirect loaded twice, or beside a cancelled one, exchanges its code once:
\* a flow is completed by one callback, and a completed flow by none again.
OneExchange ==
  \A f \in Flows :
    LET exchanging == {w \in Workers : pc[w] \in Completing /\ op[w].flow = f}
    IN  Cardinality(exchanging) <= (IF flow[f] = "completed" THEN 0 ELSE 1)

\* A waiter that nobody is going to wake waits for a flow that is not settled.
NoWakeupIsLost ==
  \A w \in Workers : pc[w] = "wait" /\ w \notin woken => ~Settled(op[w].flow)

\* "Google's stated lifetime and the current credentials both govern reuse": the
\* token a request takes from the cache was minted of a credential its item held
\* while the request was under way, although the item is written anew, deleted
\* and connected again, and a token minted of what it held before is put in the
\* cache after that.
CurrentCredentialsGovern ==
  \A w \in Workers : pc[w] = "token" /\ Cached(w) =>
    cache[op[w].item].token \in seen[w]

\* The item that goes with this step is deleted by w.
Deletes(w) ==
  /\ pc[w] = "delete" /\ pc'[w] # "delete"
  /\ vault[op[w].item] # Nothing /\ vault'[op[w].item] = Nothing

\* What a disconnection does to leave no live refresh token behind: the token it
\* read is revoked when its item goes, and one that goes while it is live was
\* saved in the item after the disconnection had read it.
RevokedBeforeDeleted ==
  [][\A w \in Workers : Deletes(w) =>
       /\ secret[w] \in Grants => google[secret[w]] = "revoked"
       /\ \A g \in Grants : vault[op[w].item] = g /\ google[g] = "live" => g \in seen[w]]_vars

\* What the code does not keep: "a deleted item leaves no live refresh token
\* behind".  A callback may save a new one between the revocation and the deletion.
NoneIsLeftLive ==
  [][\A w \in Workers, g \in Grants : Deletes(w) /\ vault[op[w].item] = g => google[g] # "live"]_vars

\* What the code does not keep: a waiter is not left with a flow "nothing will
\* ever settle".  A callback dropped while it exchanges its code leaves one.
WaitedForIsInHand ==
  \A w \in Workers : pc[w] = "wait" /\ flow[op[w].flow] = "processing" =>
    \E v \in Workers : pc[v] \in Completing /\ op[v].flow = op[w].flow
=============================================================================
