------------------------- MODULE AuthorizationProofs -------------------------
(***************************************************************************)
(* Gmail: a code is exchanged once, no waiter is forgotten, a cached token *)
(* is of a current credential, and a disconnection deletes no item of      *)
(* which it has not revoked what it read, for any number of requests,      *)
(* flows and grants.  What has to be added is what each request knows      *)
(* where it is.                                                            *)
(*                                                                         *)
(* Access: a request acts for its organization alone, with a role that     *)
(* allows it, and is refused for a cause, for any accounts, organizations  *)
(* and rows.  What has to be added is what each route asks for, that a row *)
(* once made never changes hands, and what a request has found so far.     *)
(***************************************************************************)
EXTENDS Gmail, Access, FiniteSetTheorems, TLAPS


\* A request at a place has the credential and the item that led it there.
Knows(w) ==
  /\ pc[w] \in {"save", "revoke"} => secret[w] \in Grants
  /\ pc[w] = "write" => op[w].item = IF op[w].kind = "password" THEN "password" ELSE "oauth"
  /\ pc[w] = "delete" /\ secret[w] \in Grants => google[secret[w]] = "revoked"
  /\ pc[w] \in {"revoke", "delete"} => vault[op[w].item] \in {secret[w], Nothing} \cup seen[w]
  /\ pc[w] = "token" => secret[w] \in seen[w]

\* A cached token was minted of the credential of its fingerprint.
Honest == \A i \in Items : cache[i] # Nothing => cache[i].token = cache[i].print

\* A callback at work has a flow that nobody can have completed.
Holds(w) ==
  pc[w] \in Completing => op[w].flow \in Flows /\ flow[op[w].flow] \in {"processing", "failed"}

\* No two callbacks are at work on one flow.
Alone ==
  \A v, w \in Workers :
    pc[v] \in Completing /\ pc[w] \in Completing /\ op[v].flow = op[w].flow => v = w

IInv ==
  /\ TypeOK
  /\ \A w \in Workers : Knows(w) /\ Holds(w)
  /\ Alone /\ NoWakeupIsLost /\ Honest

\* The types of what a request has, and of everything else.
Requests ==
  /\ op \in [Workers -> Ops] /\ pc \in [Workers -> Places]
  /\ secret \in [Workers -> Secrets] /\ todo \in [Workers -> SUBSET Items]
Stores ==
  /\ vault \in [Items -> Secrets]
  /\ vault["oauth"] \in Grants \cup {Delegated, Nothing} /\ vault["password"] \in {Password, Nothing}
  /\ tagged \subseteq Items /\ tagged \subseteq Held
  /\ google \in [Grants -> {"unissued", "live", "revoked"}]
  /\ cache \in [Items -> CachedTokens \cup {Nothing}]
  /\ flow \in [Flows -> Statuses]
  /\ woken \subseteq Workers /\ seen \in [Workers -> SUBSET Secrets]

LEMMA InitIInv == Init => IInv
  BY GmailAssumption DEF Init, IInv, TypeOK, Knows, Holds, Alone, NoWakeupIsLost,
     Honest, Held, Items, Secrets, Statuses, NoOp, Ops, Kinds,
     Places, Completing

-----------------------------------------------------------------------------
(* Types. *)

LEMMA Halves == TypeOK <=> Requests /\ Stores
  BY DEF TypeOK, Requests, Stores

LEMMA EndTypes == ASSUME Requests, NEW w \in Workers, End(w) PROVE Requests'
  <1>1. NoOp \in Ops /\ Nothing \in Secrets
    BY DEF NoOp, Ops, Kinds, Items, Secrets
  <1> QED BY <1>1 DEF End, Goto, Requests, Places

LEMMA GotoTypes ==
  ASSUME Requests, NEW w \in Workers, NEW place \in Places, Goto(w, place), UNCHANGED <<op, todo>>,
         secret' = secret \/ \E s \in Secrets : secret' = [secret EXCEPT ![w] = s]
  PROVE  Requests'
  BY DEF Goto, Requests

LEMMA BeginTypes ==
  ASSUME Requests, NEW w \in Workers, NEW kind \in Kinds, NEW f \in Flows \cup {Nothing}, NEW i \in Items,
         NEW place \in Places, Begin(w, kind, f, i, place),
         secret' = secret \/ \E s \in Secrets : secret' = [secret EXCEPT ![w] = s],
         todo' = todo \/ \E T \in SUBSET Items : todo' = [todo EXCEPT ![w] = T]
  PROVE  Requests'
  BY DEF Begin, Goto, Requests, Ops

LEMMA DeclareTypes == ASSUME Requests, NEW w \in Workers, GoDeclare(w) PROVE Requests'
  <1>1. [NoOp EXCEPT !.kind = "declare", !.item = op[w].item] \in Ops
    BY DEF Requests, NoOp, Ops, Kinds
  <1> QED BY <1>1 DEF GoDeclare, Goto, Requests, Places

LEMMA StepRequests ==
  ASSUME TypeOK, [Next]_vars
  PROVE  Requests'
  <1>0. Requests /\ Stores
    BY Halves
  <1> USE <1>0 DEF Places, Completing
  <1>1. ASSUME NEW f \in Flows, Start(f) PROVE Requests'
    BY <1>1 DEF Start, Requests
  <1>2. ASSUME NEW f \in Flows, CallbackRefused(f) PROVE Requests'
    BY <1>2 DEF CallbackRefused, Failed, Notify, Requests
  <1>3. ASSUME NEW w \in Workers, NEW f \in Flows, Callback(w, f) PROVE Requests'
    BY <1>3, BeginTypes DEF Callback, Claimable, Kinds, Items, Stores, Held
  <1>4. ASSUME NEW f \in Flows, CallbackConsumed(f) PROVE Requests'
    BY <1>4 DEF CallbackConsumed, Notify, Claimable, Requests
  <1>5. ASSUME NEW w \in Workers, Exchange(w) PROVE Requests'
    BY <1>5, EndTypes, GotoTypes DEF Exchange, Refuse, Continue, Secrets
  <1>6. ASSUME NEW w \in Workers, Save(w) PROVE Requests'
    BY <1>6, EndTypes, GotoTypes DEF Save, Refuse, Continue, Secrets
  <1>7. ASSUME NEW w \in Workers, Complete(w) PROVE Requests'
    BY <1>7, DeclareTypes DEF Complete
  <1>8. ASSUME NEW w \in Workers, NEW f \in Flows, Ask(w, f) PROVE Requests'
    BY <1>8, BeginTypes DEF Ask, Registered, Kinds, Items, Stores, Held
  <1>9. ASSUME NEW w \in Workers, ReadStatus(w) PROVE Requests'
    BY <1>9, EndTypes, GotoTypes, DeclareTypes DEF ReadStatus, Continue
  <1>10. ASSUME NEW w \in Workers, Wake(w) PROVE Requests'
    BY <1>10, EndTypes, GotoTypes DEF Wake, Continue
  <1>11. ASSUME NEW w \in Workers, Declare(w) PROVE Requests'
    BY <1>11, EndTypes, GotoTypes DEF Declare, Continue
  <1>12. ASSUME NEW w \in Workers, Retag(w) PROVE Requests'
    BY <1>12, EndTypes, GotoTypes DEF Retag, Continue
  <1>13. ASSUME NEW w \in Workers, NEW kind \in {"password", "delegate"}, Connect(w, kind)
         PROVE  Requests'
    BY <1>13, BeginTypes DEF Connect, Kinds, Items, Stores, Held
  <1>14. ASSUME NEW w \in Workers, Write(w) PROVE Requests'
    BY <1>14, EndTypes, DeclareTypes DEF Write
  <1>15. ASSUME NEW w \in Workers, NEW i \in Items, Undeclare(w, i) PROVE Requests'
    BY <1>15, BeginTypes DEF Undeclare, Kinds, Items, Stores, Held
  <1>16. ASSUME NEW w \in Workers, Disconnect(w) PROVE Requests'
    BY <1>16, BeginTypes DEF Disconnect, Disconnectable, Kinds, Items, Stores, Held
  <1>17. ASSUME NEW w \in Workers, Get(w) PROVE Requests'
    <2>1. CASE End(w)
      BY <2>1, EndTypes
    <2>2. CASE ~End(w)
      <3>1. PICK i \in todo[w] : /\ op' = [op EXCEPT ![w].item = i]
                                 /\ secret' = [secret EXCEPT ![w] = vault[i]]
                                 /\ Goto(w, IF vault[i] \in Grants THEN "revoke" ELSE "delete")
                                 /\ UNCHANGED todo
        BY <1>17, <2>2 DEF Get
      <3>2. i \in Items /\ vault[i] \in Secrets /\ op' \in [Workers -> Ops]
        BY <3>1 DEF Requests, Stores, Ops
      <3> QED BY <3>1, <3>2 DEF Goto, Requests
    <2> QED BY <2>1, <2>2
  <1>18. ASSUME NEW w \in Workers, Revoke(w) PROVE Requests'
    BY <1>18, EndTypes, GotoTypes DEF Revoke, Refused, Continue
  <1>19. ASSUME NEW w \in Workers, Delete(w) PROVE Requests'
    <2>1. CASE End(w)
      BY <2>1, EndTypes
    <2>2. CASE ~End(w)
      BY <1>19, <2>2 DEF Delete, Trash, Goto, Requests, Secrets
    <2> QED BY <2>1, <2>2
  <1>20. ASSUME NEW w \in Workers, Resolve(w) PROVE Requests'
    BY <1>20, BeginTypes DEF Resolve, Kinds, Items, Stores, Held
  <1>21. ASSUME NEW w \in Workers, Token(w) PROVE Requests'
    BY <1>21, EndTypes, GotoTypes DEF Token, Conclude, Continue
  <1>22. ASSUME NEW w \in Workers, Refresh(w) PROVE Requests'
    BY <1>22, EndTypes, GotoTypes DEF Refresh, Minted, Conclude, Continue
  <1>23. ASSUME NEW w \in Workers, Mint(w) PROVE Requests'
    BY <1>23, EndTypes, GotoTypes DEF Mint, Minted, Conclude, Continue
  <1>24. ASSUME NEW w \in Workers, Drop(w) PROVE Requests'
    BY <1>24, EndTypes, GotoTypes DEF Drop, Put, Conclude, Continue
  <1>25. ASSUME NEW i \in Items, Expire(i) PROVE Requests'
    BY <1>25 DEF Expire, Requests
  <1>26. ASSUME NEW g \in Grants, Withdraw(g) PROVE Requests'
    BY <1>26 DEF Withdraw, Requests
  <1>27. ASSUME Restart PROVE Requests'
    BY <1>27 DEF Restart, Requests, NoOp, Ops, Kinds, Secrets, Items
  <1>28. CASE UNCHANGED vars
    BY <1>28 DEF vars, Requests
  <1> QED
    BY <1>1, <1>2, <1>3, <1>4, <1>5, <1>6, <1>7, <1>8, <1>9, <1>10, <1>11, <1>12, <1>13, <1>14,
       <1>15, <1>16, <1>17, <1>18, <1>19, <1>20, <1>21, <1>22, <1>23, <1>24, <1>25, <1>26,
       <1>27, <1>28
    DEF Next, FlowStep, ItemStep

LEMMA StepStores ==
  ASSUME TypeOK, \A w \in Workers : Knows(w), [Next]_vars
  PROVE  Stores'
  <1>0. Requests /\ Stores
    BY Halves
  <1> USE <1>0 DEF Stores, Held, skarbiec
  <1>1. ASSUME NEW f \in Flows, Start(f) PROVE Stores'
    BY <1>1 DEF Start, Statuses
  <1>2. ASSUME NEW f \in Flows, CallbackRefused(f) PROVE Stores'
    BY <1>2 DEF CallbackRefused, Failed, Notify, Statuses
  <1>3. ASSUME NEW w \in Workers, NEW f \in Flows, Callback(w, f) PROVE Stores'
    BY <1>3 DEF Callback, Claimable, Statuses
  <1>4. ASSUME NEW f \in Flows, CallbackConsumed(f) PROVE Stores'
    BY <1>4 DEF CallbackConsumed, Notify, Claimable
  <1>5. ASSUME NEW w \in Workers, Exchange(w) PROVE Stores'
    BY <1>5 DEF Exchange, Refuse, Failed, Notify, Requests, Statuses
  <1>6. ASSUME NEW w \in Workers, Save(w) PROVE Stores'
    BY <1>6, GmailAssumption DEF Save, Written, WriteFails, Put, GoDeclare, Refuse, Failed, Notify, Knows,
       Secrets, Items, Requests, Statuses
  <1>7. ASSUME NEW w \in Workers, Complete(w) PROVE Stores'
    BY <1>7 DEF Complete, GoDeclare, Notify, Statuses
  <1>8. ASSUME NEW w \in Workers, NEW f \in Flows, Ask(w, f) PROVE Stores'
    BY <1>8 DEF Ask, Registered
  <1>9. ASSUME NEW w \in Workers, ReadStatus(w) PROVE Stores'
    BY <1>9 DEF ReadStatus, GoDeclare, Settled
  <1>10. ASSUME NEW w \in Workers, Wake(w) PROVE Stores'
    BY <1>10 DEF Wake
  <1>11. ASSUME NEW w \in Workers, Declare(w) PROVE Stores'
    BY <1>11 DEF Declare
  <1>12. ASSUME NEW w \in Workers, Retag(w) PROVE Stores'
    BY <1>12 DEF Retag, Retaggable, Requests, Ops
  <1>13. ASSUME NEW w \in Workers, NEW kind \in {"password", "delegate"}, Connect(w, kind)
         PROVE  Stores'
    BY <1>13 DEF Connect
  <1>14. ASSUME NEW w \in Workers, Write(w) PROVE Stores'
    BY <1>14, GmailAssumption DEF Write, Written, WriteFails, Put, GoDeclare, Knows, Secrets, Items, Requests
  <1>15. ASSUME NEW w \in Workers, NEW i \in Items, Undeclare(w, i) PROVE Stores'
    BY <1>15 DEF Undeclare
  <1>16. ASSUME NEW w \in Workers, Disconnect(w) PROVE Stores'
    BY <1>16 DEF Disconnect, Disconnectable
  <1>17. ASSUME NEW w \in Workers, Get(w) PROVE Stores'
    BY <1>17 DEF Get
  <1>18. ASSUME NEW w \in Workers, Revoke(w) PROVE Stores'
    BY <1>18 DEF Revoke, Refused
  <1>19. ASSUME NEW w \in Workers, Delete(w) PROVE Stores'
    <2>1. op[w].item \in Items /\ Nothing \in Secrets
      BY DEF Requests, Ops, Secrets
    <2>2. /\ UNCHANGED <<google, flow, woken>>
          /\ seen' = [seen EXCEPT ![w] = {}]
          /\ cache' \in {cache, [cache EXCEPT ![op[w].item] = Nothing]}
          /\ UNCHANGED skarbiec \/ Trash(w)
      BY <1>19 DEF Delete
    <2>3. vault' \in [Items -> Secrets] /\ tagged' \subseteq Items /\ tagged' \subseteq Held'
      BY <2>1, <2>2 DEF Trash
    <2>4. vault'["oauth"] \in {vault["oauth"], Nothing} /\ vault'["password"] \in {vault["password"], Nothing}
      BY <2>1, <2>2 DEF Trash, Items
    <2>5. cache' \in [Items -> CachedTokens \cup {Nothing}] /\ seen' \in [Workers -> SUBSET Secrets]
      BY <2>1, <2>2
    <2> QED BY <2>2, <2>3, <2>4, <2>5
  <1>20. ASSUME NEW w \in Workers, Resolve(w) PROVE Stores'
    BY <1>20 DEF Resolve, Items
  <1>21. ASSUME NEW w \in Workers, Token(w) PROVE Stores'
    BY <1>21 DEF Token, Cached, Conclude, Requests, Ops
  <1>22. ASSUME NEW w \in Workers, Refresh(w) PROVE Stores'
    <2>1. op[w].item \in Items /\ [token |-> secret[w], print |-> secret[w]] \in CachedTokens
      BY DEF Requests, Ops, CachedTokens
    <2>2. cache' \in {cache, [cache EXCEPT ![op[w].item] = [token |-> secret[w], print |-> secret[w]]]}
      BY <1>22 DEF Refresh, Minted
    <2>3. UNCHANGED <<skarbiec, google, flow, woken>> /\ seen' = [seen EXCEPT ![w] = {}]
      BY <1>22 DEF Refresh, Minted, Conclude
    <2> QED BY <2>1, <2>2, <2>3
  <1>23. ASSUME NEW w \in Workers, Mint(w) PROVE Stores'
    <2>1. op[w].item \in Items /\ [token |-> secret[w], print |-> secret[w]] \in CachedTokens
      BY DEF Requests, Ops, CachedTokens
    <2>2. cache' \in {cache, [cache EXCEPT ![op[w].item] = [token |-> secret[w], print |-> secret[w]]]}
      BY <1>23 DEF Mint, Minted
    <2>3. UNCHANGED <<skarbiec, google, flow, woken>> /\ seen' = [seen EXCEPT ![w] = {}]
      BY <1>23 DEF Mint, Minted, Conclude
    <2> QED BY <2>1, <2>2, <2>3
  <1>24. ASSUME NEW w \in Workers, Drop(w) PROVE Stores'
    <2>1. UNCHANGED <<tagged, google, cache, flow>> /\ woken' \subseteq Workers
      BY <1>24 DEF Drop
    <2>2. CASE UNCHANGED vault /\ Conclude(w)
      BY <2>1, <2>2 DEF Conclude
    <2>3. CASE pc[w] = "save" /\ Put("oauth", secret[w])
      <3>1. secret[w] \in Grants /\ secret[w] # Nothing
        BY <2>3, GmailAssumption DEF Knows
      <3>2. vault' = [vault EXCEPT !["oauth"] = secret[w]] /\ seen' \in [Workers -> SUBSET Secrets]
        BY <2>3, <3>1 DEF Put, Secrets
      <3> QED BY <2>1, <3>1, <3>2 DEF Items, Secrets
    <2> QED BY <1>24, <2>2, <2>3 DEF Drop
  <1>25. ASSUME NEW i \in Items, Expire(i) PROVE Stores'
    BY <1>25 DEF Expire, Secrets
  <1>26. ASSUME NEW g \in Grants, Withdraw(g) PROVE Stores'
    BY <1>26 DEF Withdraw
  <1>27. ASSUME Restart PROVE Stores'
    BY <1>27, GmailAssumption DEF Restart, Secrets, Statuses
  <1>28. CASE UNCHANGED vars
    BY <1>28 DEF vars
  <1> QED
    BY <1>1, <1>2, <1>3, <1>4, <1>5, <1>6, <1>7, <1>8, <1>9, <1>10, <1>11, <1>12, <1>13, <1>14,
       <1>15, <1>16, <1>17, <1>18, <1>19, <1>20, <1>21, <1>22, <1>23, <1>24, <1>25, <1>26,
       <1>27, <1>28
    DEF Next, FlowStep, ItemStep

-----------------------------------------------------------------------------
(* What each request knows. *)

\* A request that does not move knows what it knew: what has been written into
\* its item it has seen.
LEMMA KnowsKept ==
  ASSUME Requests, Stores, NEW v \in Workers, Knows(v),
         pc'[v] = pc[v], op'[v] = op[v], secret'[v] = secret[v],
         \A g \in Grants : google[g] = "revoked" => google'[g] = "revoked",
         \/ UNCHANGED <<vault, seen>>
         \/ \E i \in Items, c \in Secrets : Put(i, c)
         \/ \E i \in Items : vault' = [vault EXCEPT ![i] = Nothing] /\ seen'[v] = seen[v]
         \/ UNCHANGED vault /\ seen'[v] = seen[v]
  PROVE  Knows(v)'
  <1>1. op[v].item \in Items
    BY DEF Requests, Ops
  <1>2. CASE \E i \in Items, c \in Secrets : Put(i, c)
    <2>1. PICK i \in Items, c \in Secrets : Put(i, c)
      BY <1>2
    <2>2. seen[v] \subseteq seen'[v]
      BY <2>1 DEF Put, Stores
    <2>3. CASE op[v].item = i
      BY <2>1, <2>2, <2>3, <1>1 DEF Put, Knows, Stores
    <2>4. CASE op[v].item # i
      BY <2>1, <2>2, <2>4, <1>1 DEF Put, Knows, Stores
    <2> QED BY <2>3, <2>4
  <1>3. CASE \E i \in Items : vault' = [vault EXCEPT ![i] = Nothing] /\ seen'[v] = seen[v]
    BY <1>1, <1>3 DEF Knows, Stores
  <1>4. CASE UNCHANGED vault /\ seen'[v] = seen[v]
    BY <1>4 DEF Knows
  <1> QED BY <1>2, <1>3, <1>4

\* One that ends, or goes on to declare, has nothing to know.
LEMMA KnowsNothing ==
  ASSUME Requests, NEW w \in Workers, End(w) \/ GoDeclare(w) \/ Goto(w, "complete") \/ Goto(w, "mint")
                                      \/ Goto(w, "get")
  PROVE  Knows(w)'
  BY DEF Requests, Knows, End, GoDeclare, Goto

LEMMA OtherKnows ==
  ASSUME TypeOK, NEW w \in Workers, NEW v \in Workers, v # w, Knows(v),
         Save(w) \/ Write(w) \/ Get(w) \/ Delete(w) \/ Resolve(w) \/ Token(w) \/ Refresh(w) \/ Mint(w)
           \/ Drop(w),
         secret[w] \in Secrets
  PROVE  Knows(v)'
  <1>0. Requests /\ Stores /\ Items = {"oauth", "password"}
    BY Halves DEF Items
  <1>1. pc'[v] = pc[v] /\ op'[v] = op[v] /\ secret'[v] = secret[v] /\ UNCHANGED google
    BY <1>0 DEF Save, Refuse, Write, Get, Delete, Resolve, Token, Refresh, Mint, Minted, Drop, Conclude,
       GoDeclare, End, Begin, Goto, Continue, Requests
  <1>2. CASE Save(w) \/ Write(w) \/ Drop(w)
    <2>1. Password \in Secrets /\ Delegated \in Secrets /\ op[w].item \in Items
      BY <1>0 DEF Secrets, Requests, Ops
    <2>2. (\E i \in Items, c \in Secrets : Put(i, c)) \/ (UNCHANGED vault /\ seen'[v] = seen[v])
      BY <1>0, <1>2, <2>1 DEF Save, Write, Drop, Written, WriteFails, Conclude, Stores
    <2> QED BY <1>0, <1>1, <2>2, KnowsKept
  <1>3. CASE Delete(w)
    <2>1. op[w].item \in Items
      BY <1>0 DEF Requests, Ops
    <2>2. seen'[v] = seen[v]
      BY <1>0, <1>3 DEF Delete, Stores
    <2>3. UNCHANGED vault \/ vault' = [vault EXCEPT ![op[w].item] = Nothing]
      BY <1>3 DEF Delete, Trash, skarbiec
    <2> QED BY <1>0, <1>1, <2>1, <2>2, <2>3, KnowsKept
  <1>4. CASE Get(w) \/ Resolve(w) \/ Token(w) \/ Refresh(w) \/ Mint(w)
    <2>1. UNCHANGED vault /\ seen'[v] = seen[v]
      BY <1>0, <1>4 DEF Get, Resolve, Token, Refresh, Mint, Minted, Conclude, skarbiec, Stores
    <2> QED BY <1>0, <1>1, <2>1, KnowsKept
  <1> QED BY <1>2, <1>3, <1>4

LEMMA StepKnows ==
  ASSUME TypeOK, \A w \in Workers : Knows(w), [Next]_vars
  PROVE  \A v \in Workers : Knows(v)'
  <1>0. Requests /\ Stores
    BY Halves
  <1> USE <1>0 DEF Requests, Knows, Goto, End, Begin, Continue, skarbiec
  <1>1. ASSUME NEW f \in Flows, Start(f) PROVE \A v \in Workers : Knows(v)'
    BY <1>1 DEF Start
  <1>2. ASSUME NEW f \in Flows, CallbackRefused(f) PROVE \A v \in Workers : Knows(v)'
    BY <1>2 DEF CallbackRefused, Failed, Notify
  <1>3. ASSUME NEW w \in Workers, NEW f \in Flows, Callback(w, f) PROVE \A v \in Workers : Knows(v)'
    BY <1>3 DEF Callback, Claimable
  <1>4. ASSUME NEW f \in Flows, CallbackConsumed(f) PROVE \A v \in Workers : Knows(v)'
    BY <1>4 DEF CallbackConsumed, Notify, Claimable
  <1>5. ASSUME NEW w \in Workers, Exchange(w) PROVE \A v \in Workers : Knows(v)'
    <2>1. \A g \in Grants : google[g] = "revoked" => google'[g] = "revoked"
      BY <1>5 DEF Exchange, Stores
    <2>2. ASSUME NEW v \in Workers PROVE Knows(v)'
      <3>1. CASE v = w
        <4>1. pc'[w] \in {"idle", "save"} /\ (pc'[w] = "save" => secret'[w] \in Grants)
          BY <1>5 DEF Exchange, Refuse
        <4> QED BY <3>1, <4>1
      <3>2. CASE v # w
        <4>1. /\ pc'[v] = pc[v] /\ op'[v] = op[v] /\ secret'[v] = secret[v]
              /\ UNCHANGED <<seen, vault>>
          BY <1>5, <3>2 DEF Exchange, Refuse
        <4> QED BY <2>1, <4>1
      <3> QED BY <3>1, <3>2
    <2> QED BY <2>2
  <1>6. ASSUME NEW w \in Workers, Save(w) PROVE \A v \in Workers : Knows(v)'
    <2>1. Knows(w)'
      BY <1>6, <1>0, KnowsNothing DEF Save, Refuse
    <2> QED BY <1>6, <2>1, <1>0, OtherKnows
  <1>7. ASSUME NEW w \in Workers, Complete(w) PROVE \A v \in Workers : Knows(v)'
    BY <1>7 DEF Complete, GoDeclare, Notify
  <1>8. ASSUME NEW w \in Workers, NEW f \in Flows, Ask(w, f) PROVE \A v \in Workers : Knows(v)'
    BY <1>8 DEF Ask, Registered
  <1>9. ASSUME NEW w \in Workers, ReadStatus(w) PROVE \A v \in Workers : Knows(v)'
    BY <1>9 DEF ReadStatus, GoDeclare, Settled
  <1>10. ASSUME NEW w \in Workers, Wake(w) PROVE \A v \in Workers : Knows(v)'
    BY <1>10 DEF Wake
  <1>11. ASSUME NEW w \in Workers, Declare(w) PROVE \A v \in Workers : Knows(v)'
    BY <1>11 DEF Declare
  <1>12. ASSUME NEW w \in Workers, Retag(w) PROVE \A v \in Workers : Knows(v)'
    BY <1>12 DEF Retag, Retaggable
  <1>13. ASSUME NEW w \in Workers, NEW kind \in {"password", "delegate"}, Connect(w, kind)
         PROVE  \A v \in Workers : Knows(v)'
    BY <1>13 DEF Connect, Ops, Kinds, Items
  <1>14. ASSUME NEW w \in Workers, Write(w) PROVE \A v \in Workers : Knows(v)'
    <2>1. Knows(w)'
      BY <1>14, <1>0, KnowsNothing DEF Write
    <2> QED BY <1>14, <2>1, <1>0, OtherKnows
  <1>15. ASSUME NEW w \in Workers, NEW i \in Items, Undeclare(w, i)
         PROVE  \A v \in Workers : Knows(v)'
    BY <1>15 DEF Undeclare, Ops
  <1>16. ASSUME NEW w \in Workers, Disconnect(w) PROVE \A v \in Workers : Knows(v)'
    BY <1>16 DEF Disconnect, Disconnectable
  <1>17. ASSUME NEW w \in Workers, Get(w) PROVE \A v \in Workers : Knows(v)'
    <2>1. Knows(w)'
      <3>1. CASE End(w)
        BY <3>1, <1>0, KnowsNothing
      <3>2. CASE ~End(w)
        <4>1. PICK i \in todo[w] : /\ op' = [op EXCEPT ![w].item = i]
                                  /\ secret' = [secret EXCEPT ![w] = vault[i]]
                                  /\ Goto(w, IF vault[i] \in Grants THEN "revoke" ELSE "delete")
          BY <1>17, <3>2 DEF Get
        <4>2. op'[w].item = i /\ secret'[w] = vault[i] /\ UNCHANGED vault
          BY <4>1, <1>17 DEF Get, Ops
        <4>3. pc'[w] = IF vault[i] \in Grants THEN "revoke" ELSE "delete"
          BY <4>1
        <4> QED BY <4>2, <4>3
      <3> QED BY <3>1, <3>2
    <2> QED BY <1>17, <2>1, <1>0, OtherKnows
  <1>18. ASSUME NEW w \in Workers, Revoke(w) PROVE \A v \in Workers : Knows(v)'
    BY <1>18 DEF Revoke, Refused, Stores
  <1>19. ASSUME NEW w \in Workers, Delete(w) PROVE \A v \in Workers : Knows(v)'
    <2>1. Knows(w)'
      BY <1>19, <1>0, KnowsNothing DEF Delete
    <2> QED BY <1>19, <2>1, <1>0, OtherKnows
  <1>20. ASSUME NEW w \in Workers, Resolve(w) PROVE \A v \in Workers : Knows(v)'
    <2>1. Knows(w)'
      BY <1>20 DEF Resolve, Stores
    <2> QED BY <1>20, <2>1, <1>0, OtherKnows
  <1>21. ASSUME NEW w \in Workers, Token(w) PROVE \A v \in Workers : Knows(v)'
    <2>1. Knows(w)'
      BY <1>21, <1>0, KnowsNothing DEF Token, Conclude
    <2> QED BY <1>21, <2>1, <1>0, OtherKnows
  <1>22. ASSUME NEW w \in Workers, Refresh(w) PROVE \A v \in Workers : Knows(v)'
    <2>1. Knows(w)'
      BY <1>22, <1>0, KnowsNothing DEF Refresh, Minted, Conclude
    <2> QED BY <1>22, <2>1, <1>0, OtherKnows
  <1>23. ASSUME NEW w \in Workers, Mint(w) PROVE \A v \in Workers : Knows(v)'
    <2>1. Knows(w)'
      BY <1>23, <1>0, KnowsNothing DEF Mint, Minted, Conclude
    <2> QED BY <1>23, <2>1, <1>0, OtherKnows
  <1>24. ASSUME NEW w \in Workers, Drop(w) PROVE \A v \in Workers : Knows(v)'
    <2>1. Knows(w)'
      BY <1>24, <1>0, KnowsNothing DEF Drop, Conclude
    <2> QED BY <1>24, <2>1, <1>0, OtherKnows
  <1>25. ASSUME NEW i \in Items, Expire(i) PROVE \A v \in Workers : Knows(v)'
    BY <1>25 DEF Expire
  <1>26. ASSUME NEW g \in Grants, Withdraw(g) PROVE \A v \in Workers : Knows(v)'
    BY <1>26 DEF Withdraw
  <1>27. ASSUME Restart PROVE \A v \in Workers : Knows(v)'
    BY <1>27 DEF Restart
  <1>28. CASE UNCHANGED vars
    BY <1>28 DEF vars
  <1> QED
    BY <1>1, <1>2, <1>3, <1>4, <1>5, <1>6, <1>7, <1>8, <1>9, <1>10, <1>11, <1>12, <1>13, <1>14,
       <1>15, <1>16, <1>17, <1>18, <1>19, <1>20, <1>21, <1>22, <1>23, <1>24, <1>25, <1>26,
       <1>27, <1>28
    DEF Next, FlowStep, ItemStep

LEMMA StepHolds ==
  ASSUME TypeOK, \A w \in Workers : Holds(w), Alone, [Next]_vars
  PROVE  (\A v \in Workers : Holds(v)') /\ Alone'
  <1>0. Requests /\ Stores
    BY Halves
  <1> USE <1>0 DEF Requests, Stores, Holds, Alone, Completing, Goto, End, Begin, Continue,
     skarbiec
  <1>1. ASSUME NEW f \in Flows, Start(f) PROVE (\A v \in Workers : Holds(v)') /\ Alone'
    BY <1>1 DEF Start
  <1>2. ASSUME NEW f \in Flows, CallbackRefused(f) PROVE (\A v \in Workers : Holds(v)') /\ Alone'
    BY <1>2 DEF CallbackRefused, Failed, Notify
  <1>3. ASSUME NEW w \in Workers, NEW f \in Flows, Callback(w, f)
        PROVE  (\A v \in Workers : Holds(v)') /\ Alone'
    BY <1>3 DEF Callback, Claimable, Ops
  <1>4. ASSUME NEW f \in Flows, CallbackConsumed(f) PROVE (\A v \in Workers : Holds(v)') /\ Alone'
    BY <1>4 DEF CallbackConsumed, Notify, Claimable
  <1>5. ASSUME NEW w \in Workers, Exchange(w) PROVE (\A v \in Workers : Holds(v)') /\ Alone'
    BY <1>5 DEF Exchange, Refuse, Failed, Notify
  <1>6. ASSUME NEW w \in Workers, Save(w) PROVE (\A v \in Workers : Holds(v)') /\ Alone'
    BY <1>6 DEF Save, Written, WriteFails, Put, GoDeclare, Refuse, Failed, Notify
  <1>7. ASSUME NEW w \in Workers, Complete(w) PROVE (\A v \in Workers : Holds(v)') /\ Alone'
    BY <1>7 DEF Complete, GoDeclare, Notify
  <1>8. ASSUME NEW w \in Workers, NEW f \in Flows, Ask(w, f)
        PROVE  (\A v \in Workers : Holds(v)') /\ Alone'
    BY <1>8 DEF Ask, Registered
  <1>9. ASSUME NEW w \in Workers, ReadStatus(w) PROVE (\A v \in Workers : Holds(v)') /\ Alone'
    BY <1>9 DEF ReadStatus, GoDeclare, Settled
  <1>10. ASSUME NEW w \in Workers, Wake(w) PROVE (\A v \in Workers : Holds(v)') /\ Alone'
    BY <1>10 DEF Wake
  <1>11. ASSUME NEW w \in Workers, Declare(w) PROVE (\A v \in Workers : Holds(v)') /\ Alone'
    BY <1>11 DEF Declare
  <1>12. ASSUME NEW w \in Workers, Retag(w) PROVE (\A v \in Workers : Holds(v)') /\ Alone'
    BY <1>12 DEF Retag, Retaggable
  <1>13. ASSUME NEW w \in Workers, NEW kind \in {"password", "delegate"}, Connect(w, kind)
         PROVE  (\A v \in Workers : Holds(v)') /\ Alone'
    BY <1>13 DEF Connect
  <1>14. ASSUME NEW w \in Workers, Write(w) PROVE (\A v \in Workers : Holds(v)') /\ Alone'
    BY <1>14 DEF Write, Written, WriteFails, Put, GoDeclare
  <1>15. ASSUME NEW w \in Workers, NEW i \in Items, Undeclare(w, i)
         PROVE  (\A v \in Workers : Holds(v)') /\ Alone'
    BY <1>15 DEF Undeclare
  <1>16. ASSUME NEW w \in Workers, Disconnect(w) PROVE (\A v \in Workers : Holds(v)') /\ Alone'
    BY <1>16 DEF Disconnect, Disconnectable
  <1>17. ASSUME NEW w \in Workers, Get(w) PROVE (\A v \in Workers : Holds(v)') /\ Alone'
    BY <1>17 DEF Get
  <1>18. ASSUME NEW w \in Workers, Revoke(w) PROVE (\A v \in Workers : Holds(v)') /\ Alone'
    BY <1>18 DEF Revoke, Refused
  <1>19. ASSUME NEW w \in Workers, Delete(w) PROVE (\A v \in Workers : Holds(v)') /\ Alone'
    BY <1>19 DEF Delete, Trash
  <1>20. ASSUME NEW w \in Workers, Resolve(w) PROVE (\A v \in Workers : Holds(v)') /\ Alone'
    BY <1>20 DEF Resolve
  <1>21. ASSUME NEW w \in Workers, Token(w) PROVE (\A v \in Workers : Holds(v)') /\ Alone'
    BY <1>21 DEF Token, Cached, Conclude
  <1>22. ASSUME NEW w \in Workers, Refresh(w) PROVE (\A v \in Workers : Holds(v)') /\ Alone'
    BY <1>22 DEF Refresh, Minted, Conclude
  <1>23. ASSUME NEW w \in Workers, Mint(w) PROVE (\A v \in Workers : Holds(v)') /\ Alone'
    BY <1>23 DEF Mint, Minted, Conclude
  <1>24. ASSUME NEW w \in Workers, Drop(w) PROVE (\A v \in Workers : Holds(v)') /\ Alone'
    BY <1>24 DEF Drop, Put, Conclude
  <1>25. ASSUME NEW i \in Items, Expire(i) PROVE (\A v \in Workers : Holds(v)') /\ Alone'
    BY <1>25 DEF Expire
  <1>26. ASSUME NEW g \in Grants, Withdraw(g) PROVE (\A v \in Workers : Holds(v)') /\ Alone'
    BY <1>26 DEF Withdraw
  <1>27. ASSUME Restart PROVE (\A v \in Workers : Holds(v)') /\ Alone'
    BY <1>27 DEF Restart
  <1>28. CASE UNCHANGED vars
    BY <1>28 DEF vars
  <1> QED
    BY <1>1, <1>2, <1>3, <1>4, <1>5, <1>6, <1>7, <1>8, <1>9, <1>10, <1>11, <1>12, <1>13, <1>14,
       <1>15, <1>16, <1>17, <1>18, <1>19, <1>20, <1>21, <1>22, <1>23, <1>24, <1>25, <1>26,
       <1>27, <1>28
    DEF Next, FlowStep, ItemStep

LEMMA StepWaiters ==
  ASSUME TypeOK, NoWakeupIsLost, [Next]_vars
  PROVE  NoWakeupIsLost'
  <1>0. Requests /\ Stores
    BY Halves
  <1> USE <1>0 DEF Requests, Stores, NoWakeupIsLost, Settled, Goto, End, Begin, Continue,
     skarbiec
  <1>1. ASSUME NEW f \in Flows, Start(f) PROVE NoWakeupIsLost'
    BY <1>1 DEF Start
  <1>2. ASSUME NEW f \in Flows, CallbackRefused(f) PROVE NoWakeupIsLost'
    BY <1>2 DEF CallbackRefused, Failed, Notify
  <1>3. ASSUME NEW w \in Workers, NEW f \in Flows, Callback(w, f) PROVE NoWakeupIsLost'
    BY <1>3 DEF Callback, Claimable
  <1>4. ASSUME NEW f \in Flows, CallbackConsumed(f) PROVE NoWakeupIsLost'
    BY <1>4 DEF CallbackConsumed, Notify, Claimable
  <1>5. ASSUME NEW w \in Workers, Exchange(w) PROVE NoWakeupIsLost'
    BY <1>5 DEF Exchange, Refuse, Failed, Notify
  <1>6. ASSUME NEW w \in Workers, Save(w) PROVE NoWakeupIsLost'
    BY <1>6 DEF Save, Written, WriteFails, Put, GoDeclare, Refuse, Failed, Notify
  <1>7. ASSUME NEW w \in Workers, Complete(w) PROVE NoWakeupIsLost'
    BY <1>7 DEF Complete, GoDeclare, Notify
  <1>8. ASSUME NEW w \in Workers, NEW f \in Flows, Ask(w, f) PROVE NoWakeupIsLost'
    BY <1>8 DEF Ask, Registered
  <1>9. ASSUME NEW w \in Workers, ReadStatus(w) PROVE NoWakeupIsLost'
    BY <1>9 DEF ReadStatus, GoDeclare, Settled
  <1>10. ASSUME NEW w \in Workers, Wake(w) PROVE NoWakeupIsLost'
    BY <1>10 DEF Wake
  <1>11. ASSUME NEW w \in Workers, Declare(w) PROVE NoWakeupIsLost'
    BY <1>11 DEF Declare
  <1>12. ASSUME NEW w \in Workers, Retag(w) PROVE NoWakeupIsLost'
    BY <1>12 DEF Retag, Retaggable
  <1>13. ASSUME NEW w \in Workers, NEW kind \in {"password", "delegate"}, Connect(w, kind)
         PROVE  NoWakeupIsLost'
    BY <1>13 DEF Connect
  <1>14. ASSUME NEW w \in Workers, Write(w) PROVE NoWakeupIsLost'
    BY <1>14 DEF Write, Written, WriteFails, Put, GoDeclare
  <1>15. ASSUME NEW w \in Workers, NEW i \in Items, Undeclare(w, i) PROVE NoWakeupIsLost'
    BY <1>15 DEF Undeclare
  <1>16. ASSUME NEW w \in Workers, Disconnect(w) PROVE NoWakeupIsLost'
    BY <1>16 DEF Disconnect, Disconnectable
  <1>17. ASSUME NEW w \in Workers, Get(w) PROVE NoWakeupIsLost'
    BY <1>17 DEF Get
  <1>18. ASSUME NEW w \in Workers, Revoke(w) PROVE NoWakeupIsLost'
    BY <1>18 DEF Revoke, Refused
  <1>19. ASSUME NEW w \in Workers, Delete(w) PROVE NoWakeupIsLost'
    BY <1>19 DEF Delete, Trash
  <1>20. ASSUME NEW w \in Workers, Resolve(w) PROVE NoWakeupIsLost'
    BY <1>20 DEF Resolve
  <1>21. ASSUME NEW w \in Workers, Token(w) PROVE NoWakeupIsLost'
    BY <1>21 DEF Token, Cached, Conclude
  <1>22. ASSUME NEW w \in Workers, Refresh(w) PROVE NoWakeupIsLost'
    BY <1>22 DEF Refresh, Minted, Conclude
  <1>23. ASSUME NEW w \in Workers, Mint(w) PROVE NoWakeupIsLost'
    BY <1>23 DEF Mint, Minted, Conclude
  <1>24. ASSUME NEW w \in Workers, Drop(w) PROVE NoWakeupIsLost'
    BY <1>24 DEF Drop, Put, Conclude
  <1>25. ASSUME NEW i \in Items, Expire(i) PROVE NoWakeupIsLost'
    BY <1>25 DEF Expire
  <1>26. ASSUME NEW g \in Grants, Withdraw(g) PROVE NoWakeupIsLost'
    BY <1>26 DEF Withdraw
  <1>27. ASSUME Restart PROVE NoWakeupIsLost'
    BY <1>27 DEF Restart
  <1>28. CASE UNCHANGED vars
    BY <1>28 DEF vars
  <1> QED
    BY <1>1, <1>2, <1>3, <1>4, <1>5, <1>6, <1>7, <1>8, <1>9, <1>10, <1>11, <1>12, <1>13, <1>14,
       <1>15, <1>16, <1>17, <1>18, <1>19, <1>20, <1>21, <1>22, <1>23, <1>24, <1>25, <1>26,
       <1>27, <1>28
    DEF Next, FlowStep, ItemStep

LEMMA StepHonest ==
  ASSUME TypeOK, Honest, [Next]_vars
  PROVE  Honest'
  <1>0. Requests /\ Stores
    BY Halves
  <1> USE <1>0 DEF Requests, Stores, Honest, Goto, End, Begin, Continue, skarbiec
  <1>1. ASSUME NEW f \in Flows, Start(f) PROVE Honest'
    BY <1>1 DEF Start
  <1>2. ASSUME NEW f \in Flows, CallbackRefused(f) PROVE Honest'
    BY <1>2 DEF CallbackRefused, Failed, Notify
  <1>3. ASSUME NEW w \in Workers, NEW f \in Flows, Callback(w, f) PROVE Honest'
    BY <1>3 DEF Callback, Claimable
  <1>4. ASSUME NEW f \in Flows, CallbackConsumed(f) PROVE Honest'
    BY <1>4 DEF CallbackConsumed, Notify, Claimable
  <1>5. ASSUME NEW w \in Workers, Exchange(w) PROVE Honest'
    BY <1>5 DEF Exchange, Refuse, Failed, Notify
  <1>6. ASSUME NEW w \in Workers, Save(w) PROVE Honest'
    BY <1>6 DEF Save, Written, WriteFails, Put, GoDeclare, Refuse, Failed, Notify
  <1>7. ASSUME NEW w \in Workers, Complete(w) PROVE Honest'
    BY <1>7 DEF Complete, GoDeclare, Notify
  <1>8. ASSUME NEW w \in Workers, NEW f \in Flows, Ask(w, f) PROVE Honest'
    BY <1>8 DEF Ask, Registered
  <1>9. ASSUME NEW w \in Workers, ReadStatus(w) PROVE Honest'
    BY <1>9 DEF ReadStatus, GoDeclare, Settled
  <1>10. ASSUME NEW w \in Workers, Wake(w) PROVE Honest'
    BY <1>10 DEF Wake
  <1>11. ASSUME NEW w \in Workers, Declare(w) PROVE Honest'
    BY <1>11 DEF Declare
  <1>12. ASSUME NEW w \in Workers, Retag(w) PROVE Honest'
    BY <1>12 DEF Retag, Retaggable
  <1>13. ASSUME NEW w \in Workers, NEW kind \in {"password", "delegate"}, Connect(w, kind)
         PROVE  Honest'
    BY <1>13 DEF Connect
  <1>14. ASSUME NEW w \in Workers, Write(w) PROVE Honest'
    BY <1>14 DEF Write, Written, WriteFails, Put, GoDeclare
  <1>15. ASSUME NEW w \in Workers, NEW i \in Items, Undeclare(w, i) PROVE Honest'
    BY <1>15 DEF Undeclare
  <1>16. ASSUME NEW w \in Workers, Disconnect(w) PROVE Honest'
    BY <1>16 DEF Disconnect, Disconnectable
  <1>17. ASSUME NEW w \in Workers, Get(w) PROVE Honest'
    BY <1>17 DEF Get
  <1>18. ASSUME NEW w \in Workers, Revoke(w) PROVE Honest'
    BY <1>18 DEF Revoke, Refused
  <1>19. ASSUME NEW w \in Workers, Delete(w) PROVE Honest'
    BY <1>19 DEF Delete, Trash
  <1>20. ASSUME NEW w \in Workers, Resolve(w) PROVE Honest'
    BY <1>20 DEF Resolve
  <1>21. ASSUME NEW w \in Workers, Token(w) PROVE Honest'
    BY <1>21 DEF Token, Cached, Conclude
  <1>22. ASSUME NEW w \in Workers, Refresh(w) PROVE Honest'
    BY <1>22 DEF Refresh, Minted, Conclude
  <1>23. ASSUME NEW w \in Workers, Mint(w) PROVE Honest'
    BY <1>23 DEF Mint, Minted, Conclude
  <1>24. ASSUME NEW w \in Workers, Drop(w) PROVE Honest'
    BY <1>24 DEF Drop, Put, Conclude
  <1>25. ASSUME NEW i \in Items, Expire(i) PROVE Honest'
    BY <1>25 DEF Expire
  <1>26. ASSUME NEW g \in Grants, Withdraw(g) PROVE Honest'
    BY <1>26 DEF Withdraw
  <1>27. ASSUME Restart PROVE Honest'
    BY <1>27 DEF Restart
  <1>28. CASE UNCHANGED vars
    BY <1>28 DEF vars
  <1> QED
    BY <1>1, <1>2, <1>3, <1>4, <1>5, <1>6, <1>7, <1>8, <1>9, <1>10, <1>11, <1>12, <1>13, <1>14,
       <1>15, <1>16, <1>17, <1>18, <1>19, <1>20, <1>21, <1>22, <1>23, <1>24, <1>25, <1>26,
       <1>27, <1>28
    DEF Next, FlowStep, ItemStep

-----------------------------------------------------------------------------
(* The theorems. *)

LEMMA AlwaysIInv == Spec => []IInv
  <1>1. IInv /\ [Next]_vars => IInv'
    BY Halves, StepRequests, StepStores, StepKnows, StepHolds, StepWaiters, StepHonest
    DEF IInv, TypeOK, Requests, Stores
  <1> QED BY <1>1, InitIInv, PTL DEF Spec

LEMMA AloneIsOnce == (\A w \in Workers : Holds(w)) /\ Alone => OneExchange
  <1> SUFFICES ASSUME \A w \in Workers : Holds(w), Alone, NEW f \in Flows
               PROVE  LET exchanging == {w \in Workers : pc[w] \in Completing /\ op[w].flow = f}
                      IN  Cardinality(exchanging) <= (IF flow[f] = "completed" THEN 0 ELSE 1)
    BY DEF OneExchange
  <1> DEFINE exchanging == {w \in Workers : pc[w] \in Completing /\ op[w].flow = f}
  <1>1. CASE exchanging = {}
    <2>1. Cardinality(exchanging) = 0
      BY <1>1, FS_EmptySet
    <2> QED BY <2>1
  <1>2. CASE exchanging # {}
    <2>1. PICK w \in exchanging : TRUE
      BY <1>2
    <2>2. exchanging = {w}
      BY <2>1 DEF Alone
    <2>3. flow[f] # "completed"
      BY <2>1 DEF Holds
    <2>4. Cardinality(exchanging) = 1
      BY <2>2, FS_Singleton
    <2> QED BY <2>3, <2>4
  <1> QED BY <1>1, <1>2

\* Every request, flow and item keeps its type, and no item is tagged a mailbox
\* that the vault does not hold.
THEOREM TypeCorrect == Spec => []TypeOK
  <1>1. IInv => TypeOK
    BY DEF IInv
  <1> QED BY <1>1, AlwaysIInv, PTL

\* However often Google's redirect is loaded, by however many requests, one of
\* them exchanges the flow's code.
THEOREM CodeIsExchangedOnce == Spec => []OneExchange
  <1>1. IInv => OneExchange
    BY AloneIsOnce DEF IInv
  <1> QED BY <1>1, AlwaysIInv, PTL

\* No waiter sleeps over the settling of its flow, for any number of both.
THEOREM NobodyIsForgotten == Spec => []NoWakeupIsLost
  <1>1. IInv => NoWakeupIsLost
    BY DEF IInv
  <1> QED BY <1>1, AlwaysIInv, PTL

\* Whatever is connected, disconnected and put in the cache meanwhile, a cached
\* token a request takes is of a credential its item held since it was read.
THEOREM CachedTokenIsCurrent == Spec => []CurrentCredentialsGovern
  <1>1. IInv => CurrentCredentialsGovern
    BY DEF IInv, TypeOK, Ops, Knows, Honest, Cached, CurrentCredentialsGovern
  <1> QED BY <1>1, AlwaysIInv, PTL

\* An item a disconnection deletes goes with the token it read revoked, and
\* with another live one only if that was saved after the reading.
THEOREM ReadTokenIsRevoked == Spec => RevokedBeforeDeleted
  <1>1. IInv /\ [Next]_vars =>
          [\A w \in Workers : Deletes(w) =>
             /\ secret[w] \in Grants => google[secret[w]] = "revoked"
             /\ \A g \in Grants : vault[op[w].item] = g /\ google[g] = "live" => g \in seen[w]]_vars
    BY GmailAssumption DEF IInv, Knows, Deletes
  <1> QED BY <1>1, AlwaysIInv, PTL DEF Spec, RevokedBeforeDeleted

-----------------------------------------------------------------------------
(* Access: routes. *)

Route(handler, needs, names, on, does, makes, beside) ==
  [handler |-> handler, needs |-> needs, names |-> names, on |-> on, does |-> does, makes |-> makes,
   beside |-> beside]

\* What the steps of a request rely on, of any route.
Shape(r) ==
  /\ r = Route(r.handler, r.needs, r.names, r.on, r.does, r.makes, r.beside)
  /\ r.needs \in {"any", "member", "admin"} /\ r.names \in {"one", "listed", "under", "none"}
  /\ r.on \in RowKinds /\ r.beside \in BOOLEAN
  /\ r.does \in {"read", "change", "remove", "add", "spend", "watch", "reconcile", "declare"}
  /\ r.does \in {"add", "spend"} =>
       /\ r.makes \in {"message", "sent", "draft", "entry", "flow"}
       /\ r.makes = "flow" => r.names = "none" /\ ~r.beside
       /\ r.makes \in {"message", "sent", "draft"} => r.names # "none" /\ r.on \notin {"entry", "flow"}
  /\ r.does = "spend" => r.on = "draft" /\ r.names # "none"
  /\ r.does = "declare" /\ r.on = "flow" => r.names = "one"
  /\ r.does = "reconcile" => r.names = "listed"

AllShape(S) == \A r \in S : Shape(r)
\* What an administrator is asked for.
Reserved(r) ==
  r.handler \in Administrative \/ r.makes = "flow" \/ (r.does = "declare" /\ r.on # "flow")
Fit(r) == Shape(r) /\ (Reserved(r) => r.needs = "admin")
\* Handlers none of which asks for an administrator.
Open(H) == H \cap Administrative = {}
AllFit(S) == AllShape(S) /\ \A r \in S : Reserved(r) => r.needs = "admin"

Are(S, H, needs, names, on, does, makes, beside) ==
  \A r \in S : \E h \in H : r = Route(h, needs, names, on, does, makes, beside)

LEMMA HandlersAre ==
  ASSUME NEW H, NEW names, NEW on, NEW does, NEW makes
  PROVE  Are(Handlers(H, names, on, does, makes), H, "any", names, on, does, makes, FALSE)
  <1>1. ASSUME NEW r \in Handlers(H, names, on, does, makes)
        PROVE  r.handler \in H /\ r = Route(r.handler, "any", names, on, does, makes, FALSE)
    <2>1. /\ r.handler \in H /\ r.needs = "any" /\ r.names = names /\ r.on = on
          /\ r.does = does /\ r.makes = makes /\ r.beside = FALSE
      BY DEF Handlers
    <2> QED BY <2>1 DEF Handlers, Route
  <1> QED BY <1>1 DEF Are

LEMMA RouteNeeding ==
  ASSUME NEW role, NEW h, NEW needs, NEW names, NEW on, NEW does, NEW makes, NEW beside
  PROVE  [Route(h, needs, names, on, does, makes, beside) EXCEPT !.needs = role]
         = Route(h, role, names, on, does, makes, beside)
  BY DEF Route

LEMMA NeedingAre ==
  ASSUME NEW role, NEW S, NEW H, NEW needs, NEW names, NEW on, NEW does, NEW makes, NEW beside,
         Are(S, H, needs, names, on, does, makes, beside)
  PROVE  Are(Needing(role, S), H, role, names, on, does, makes, beside)
  <1>1. ASSUME NEW r \in Needing(role, S)
        PROVE  \E h \in H : r = Route(h, role, names, on, does, makes, beside)
    <2>1. PICK s \in S : r = [s EXCEPT !.needs = role]
      BY DEF Needing
    <2>2. PICK h \in H : s = Route(h, needs, names, on, does, makes, beside)
      BY DEF Are
    <2> QED BY <2>1, <2>2, RouteNeeding
  <1> QED BY <1>1 DEF Are

LEMMA RoutesAre ==
  /\ \A on, H : Are(Reads(on, H), H, "any", "one", on, "read", "none", FALSE)
  /\ \A on, H : Are(Lists(on, H), H, "any", "listed", on, "read", "none", FALSE)
  /\ \A on, H : Are(Changes(on, H), H, "member", "one", on, "change", "none", FALSE)
  /\ \A on, H : Are(ChangesListed(on, H), H, "member", "listed", on, "change", "none", FALSE)
  /\ \A on, H : Are(Removes(on, H), H, "member", "one", on, "remove", "none", FALSE)
  /\ \A on, H : Are(RemovesListed(on, H), H, "member", "listed", on, "remove", "none", FALSE)
  /\ \A on, makes, H : Are(Adds(on, makes, H), H, "member", "one", on, "add", makes, FALSE)
  /\ \A on, makes, H : Are(AddsForListed(on, makes, H), H, "member", "listed", on, "add", makes, FALSE)
  /\ \A makes, H : Are(Makes(makes, H), H, "member", "none", "entry", "add", makes, FALSE)
  /\ \A names, H : Are(Spends(names, H), H, "member", names, "draft", "spend", "sent", FALSE)
  BY HandlersAre, NeedingAre
  DEF Reads, Lists, Changes, ChangesListed, Removes, RemovesListed, Adds, AddsForListed, Makes, Spends

LEMMA DeclaringAre ==
  /\ \A on, H : Are(ListsUnder(on, H), H, "any", "under", on, "read", "none", FALSE)
  /\ \A H : Are(Relists(H), H, "any", "listed", "mailbox", "reconcile", "none", FALSE)
  /\ \A names, on, H : Are(Declares(names, on, H), H, "any", names, on, "declare", "none", FALSE)
  BY HandlersAre DEF ListsUnder, Relists, Declares

LEMMA ShapeAre ==
  ASSUME NEW S, NEW H, NEW needs, NEW names, NEW on, NEW does, NEW makes, NEW beside,
         Are(S, H, needs, names, on, does, makes, beside), Shape(Route("handler", needs, names, on, does, makes, beside))
  PROVE  AllShape(S)
  <1>1. ASSUME NEW r \in S PROVE Shape(r)
    <2>1. PICK h \in H : r = Route(h, needs, names, on, does, makes, beside)
      BY DEF Are
    <2>2. /\ r.handler = h /\ r.needs = needs /\ r.names = names /\ r.on = on
          /\ r.does = does /\ r.makes = makes /\ r.beside = beside
      BY <2>1 DEF Route
    <2>3. LET s == Route("handler", needs, names, on, does, makes, beside) IN
          /\ s.needs = needs /\ s.names = names /\ s.on = on
          /\ s.does = does /\ s.makes = makes /\ s.beside = beside
      BY DEF Route
    <2> QED BY <2>1, <2>2, <2>3 DEF Shape
  <1> QED BY <1>1 DEF AllShape

\* What no administrator needs to be asked for, as far as the route itself goes.
Unreserved(needs, names, on, does, makes) ==
  /\ Shape(Route("handler", needs, names, on, does, makes, FALSE))
  /\ makes # "flow" /\ (does # "declare" \/ on = "flow")

LEMMA FitAre ==
  ASSUME NEW S, NEW H, NEW needs, NEW names, NEW on, NEW does, NEW makes, Open(H),
         Are(S, H, needs, names, on, does, makes, FALSE), Unreserved(needs, names, on, does, makes)
  PROVE  AllFit(S)
  <1>1. ASSUME NEW r \in S PROVE ~Reserved(r)
    <2>1. PICK h \in H : r = Route(h, needs, names, on, does, makes, FALSE)
      BY DEF Are
    <2>2. r.handler = h /\ r.on = on /\ r.does = does /\ r.makes = makes
      BY <2>1 DEF Route
    <2> QED BY <2>2 DEF Reserved, Open, Unreserved
  <1>2. AllShape(S)
    BY ShapeAre DEF Unreserved
  <1> QED BY <1>1, <1>2 DEF AllFit

LEMMA ShapeNeeding ==
  ASSUME NEW S, AllShape(S), NEW role \in {"any", "member", "admin"}
  PROVE  AllShape(Needing(role, S)) /\ (role = "admin" => AllFit(Needing(role, S)))
  <1>1. ASSUME NEW r \in Needing(role, S) PROVE Shape(r) /\ r.needs = role
    <2>1. PICK s \in S : r = [s EXCEPT !.needs = role]
      BY DEF Needing
    <2>2. r = Route(s.handler, role, s.names, s.on, s.does, s.makes, s.beside)
      BY <2>1, RouteNeeding DEF AllShape, Shape
    <2>3. /\ r.handler = s.handler /\ r.needs = role /\ r.names = s.names /\ r.on = s.on
          /\ r.does = s.does /\ r.makes = s.makes /\ r.beside = s.beside
      BY <2>2 DEF Route
    <2> QED BY <2>1, <2>2, <2>3 DEF Shape, AllShape
  <1> QED BY <1>1 DEF AllShape, AllFit

\* A route may name a mailbox beside unless what it makes is one.
LEMMA FitBeside ==
  ASSUME NEW S, AllFit(S), \A r \in S : r.makes # "flow"
  PROVE  AllFit(Beside(S))
  <1>1. ASSUME NEW r \in Beside(S) PROVE Shape(r) /\ (Reserved(r) => r.needs = "admin")
    <2>1. PICK s \in S : r = [s EXCEPT !.beside = TRUE]
      BY DEF Beside
    <2>2. Shape(s) /\ (Reserved(s) => s.needs = "admin") /\ s.makes # "flow"
      BY DEF AllFit, AllShape
    <2>3. r = Route(s.handler, s.needs, s.names, s.on, s.does, s.makes, TRUE)
      BY <2>1, <2>2 DEF Shape, Route
    <2>4. /\ r.handler = s.handler /\ r.needs = s.needs /\ r.names = s.names /\ r.on = s.on
          /\ r.does = s.does /\ r.makes = s.makes /\ r.beside = TRUE
      BY <2>3 DEF Route
    <2>5. Shape(r)
      BY <2>2, <2>3, <2>4 DEF Shape
    <2> QED BY <2>2, <2>4, <2>5 DEF Reserved
  <1> QED BY <1>1 DEF AllShape, AllFit

LEMMA FitEach ==
  /\ \A S, T : AllShape(S) /\ AllShape(T) => AllShape(S \cup T)
  /\ \A S, T : AllFit(S) /\ AllFit(T) => AllFit(S \cup T)
  BY DEF AllShape, AllFit

LEMMA ShapeOf ==
  ASSUME NEW on \in RowKinds, NEW H
  PROVE  /\ AllShape(Reads(on, H)) /\ AllShape(Lists(on, H))
         /\ AllShape(Changes(on, H)) /\ AllShape(ChangesListed(on, H))
         /\ AllShape(Removes(on, H)) /\ AllShape(RemovesListed(on, H))
         /\ AllShape(Makes("flow", H)) /\ AllShape(Makes("entry", H))
         /\ on # "flow" => AllShape(Declares("none", on, H)) /\ AllShape(Declares("one", on, H))
  BY RoutesAre, DeclaringAre, ShapeAre DEF Shape, Route, RowKinds

LEMMA FitOf ==
  ASSUME NEW on \in RowKinds, NEW H, Open(H)
  PROVE  /\ AllFit(Reads(on, H)) /\ AllFit(Lists(on, H)) /\ AllFit(ListsUnder(on, H))
         /\ AllFit(Relists(H)) /\ AllFit(Declares("one", "flow", H))
         /\ AllFit(Changes(on, H)) /\ AllFit(ChangesListed(on, H))
         /\ AllFit(Removes(on, H)) /\ AllFit(RemovesListed(on, H))
         /\ AllFit(Makes("entry", H)) /\ AllFit(Adds(on, "entry", H)) /\ AllFit(AddsForListed(on, "entry", H))
         /\ on \notin {"entry", "flow"} =>
                            /\ AllFit(Adds(on, "sent", H)) /\ AllFit(AddsForListed(on, "sent", H))
                            /\ AllFit(Adds(on, "draft", H)) /\ AllFit(AddsForListed(on, "draft", H))
         /\ AllFit(Spends("one", H)) /\ AllFit(Spends("listed", H))
         /\ \A does \in {"read", "watch"}, names \in {"none", "listed"} : AllFit(Handlers(H, names, on, does, "none"))
  <1>1. /\ Unreserved("any", "one", on, "read", "none") /\ Unreserved("any", "listed", on, "read", "none")
        /\ Unreserved("any", "under", on, "read", "none") /\ Unreserved("any", "none", on, "read", "none")
        /\ Unreserved("any", "none", on, "watch", "none") /\ Unreserved("any", "listed", on, "watch", "none")
        /\ Unreserved("any", "listed", "mailbox", "reconcile", "none")
        /\ Unreserved("any", "one", "flow", "declare", "none")
    BY DEF Unreserved, Shape, Route, RowKinds
  <1>2. /\ Unreserved("member", "one", on, "change", "none") /\ Unreserved("member", "listed", on, "change", "none")
        /\ Unreserved("member", "one", on, "remove", "none") /\ Unreserved("member", "listed", on, "remove", "none")
        /\ Unreserved("member", "none", "entry", "add", "entry")
        /\ Unreserved("member", "one", on, "add", "entry") /\ Unreserved("member", "listed", on, "add", "entry")
        /\ Unreserved("member", "one", "draft", "spend", "sent") /\ Unreserved("member", "listed", "draft", "spend", "sent")
    BY DEF Unreserved, Shape, Route, RowKinds
  <1>3. on \notin {"entry", "flow"} =>
          /\ Unreserved("member", "one", on, "add", "sent") /\ Unreserved("member", "listed", on, "add", "sent")
          /\ Unreserved("member", "one", on, "add", "draft") /\ Unreserved("member", "listed", on, "add", "draft")
    BY DEF Unreserved, Shape, Route, RowKinds
  <1>4. /\ AllFit(Reads(on, H)) /\ AllFit(Lists(on, H)) /\ AllFit(ListsUnder(on, H))
        /\ AllFit(Relists(H)) /\ AllFit(Declares("one", "flow", H))
    BY <1>1, RoutesAre, DeclaringAre, FitAre
  <1>5. /\ AllFit(Changes(on, H)) /\ AllFit(ChangesListed(on, H))
        /\ AllFit(Removes(on, H)) /\ AllFit(RemovesListed(on, H))
        /\ AllFit(Makes("entry", H)) /\ AllFit(Adds(on, "entry", H)) /\ AllFit(AddsForListed(on, "entry", H))
        /\ AllFit(Spends("one", H)) /\ AllFit(Spends("listed", H))
    BY <1>2, RoutesAre, FitAre
  <1>6. on \notin {"entry", "flow"} => /\ AllFit(Adds(on, "sent", H)) /\ AllFit(AddsForListed(on, "sent", H))
                                      /\ AllFit(Adds(on, "draft", H)) /\ AllFit(AddsForListed(on, "draft", H))
    BY <1>3, RoutesAre, FitAre
  <1>7. /\ AllFit(Handlers(H, "none", on, "read", "none")) /\ AllFit(Handlers(H, "listed", on, "read", "none"))
        /\ AllFit(Handlers(H, "none", on, "watch", "none")) /\ AllFit(Handlers(H, "listed", on, "watch", "none"))
    BY <1>1, HandlersAre, FitAre
  <1> QED BY <1>4, <1>5, <1>6, <1>7

LEMMA ReadFit ==
  /\ AllFit(ReportRoutes)
  /\ AllFit(AttachmentRoutes)
  /\ AllFit(ListingRoutes)
  /\ AllFit(FileRoutes)
  /\ AllFit(RenderRoutes)
  /\ AllFit(SubscriptionRoutes)
  /\ AllFit(FlowRoutes)
  /\ AllFit(StatusRoutes)
  BY FitOf, FitEach DEF ReportRoutes, AttachmentRoutes, ListingRoutes, FileRoutes, RenderRoutes, SubscriptionRoutes, FlowRoutes, StatusRoutes, RowKinds, Open, Administrative

LEMMA MemberFit1 ==
  /\ AllFit(ReplyRoutes)
  /\ AllFit(OutboundRoutes)
  /\ AllFit(BounceRoutes)
  /\ AllFit(ConversationRoutes)
  /\ AllFit(ConversationViewRoutes)
  <1>1. AllFit(ReplyRoutes)
    BY FitOf, FitEach DEF ReplyRoutes, RowKinds, Open, Administrative
  <1>2. AllFit(OutboundRoutes)
    BY FitOf, FitEach DEF OutboundRoutes, RowKinds, Open, Administrative
  <1>3. AllFit(BounceRoutes)
    BY FitOf, FitEach DEF BounceRoutes, RowKinds, Open, Administrative
  <1>4. AllFit(ConversationRoutes)
    BY FitOf, FitEach DEF ConversationRoutes, RowKinds, Open, Administrative
  <1>5. AllFit(ConversationViewRoutes)
    BY FitOf, FitEach DEF ConversationViewRoutes, RowKinds, Open, Administrative
  <1> QED BY <1>1, <1>2, <1>3, <1>4, <1>5

LEMMA MemberFit2 ==
  /\ AllFit(ActionRoutes)
  /\ AllFit(TagRoutes)
  /\ AllFit(TemplateRoutes)
  /\ AllFit(ViewRoutes)
  /\ AllFit(ViewUseRoutes)
  <1>1. AllFit(ActionRoutes)
    BY FitOf, FitEach DEF ActionRoutes, RowKinds, Open, Administrative
  <1>2. AllFit(TagRoutes)
    BY FitOf, FitEach DEF TagRoutes, RowKinds, Open, Administrative
  <1>3. AllFit(TemplateRoutes)
    BY FitOf, FitEach DEF TemplateRoutes, RowKinds, Open, Administrative
  <1>4. AllFit(ViewRoutes)
    BY FitOf, FitEach DEF ViewRoutes, RowKinds, Open, Administrative
  <1>5. AllFit(ViewUseRoutes)
    BY FitOf, FitEach DEF ViewUseRoutes, RowKinds, Open, Administrative
  <1> QED BY <1>1, <1>2, <1>3, <1>4, <1>5

LEMMA MemberFit3 ==
  /\ AllFit(BlockedRoutes)
  /\ AllFit(SuppressedRoutes)
  /\ AllFit(FollowUpRoutes)
  BY FitOf, FitEach DEF BlockedRoutes, SuppressedRoutes, FollowUpRoutes, RowKinds, Open, Administrative

LEMMA MemberFit4 ==
  /\ AllFit(DraftUseRoutes)
  /\ AllFit(ScheduleRoutes)
  <1>1. AllFit(ScheduleRoutes)
    BY FitOf, FitEach DEF ScheduleRoutes, RowKinds, Open, Administrative
  <1>2. /\ AllFit(Reads("draft", {"get_draft"})) /\ AllFit(Changes("draft", {"update_draft"}))
        /\ AllFit(Removes("draft", {"delete_draft"})) /\ AllFit(RemovesListed("draft", {"delete_drafts"}))
        /\ AllFit(ChangesListed("draft", {"unschedule_drafts"}))
        /\ AllFit(Spends("one", {"send_draft"})) /\ AllFit(Spends("listed", {"send_drafts"}))
    BY FitOf DEF RowKinds, Open, Administrative
  <1>3. AllFit(DraftUseRoutes)
    BY <1>2, FitEach DEF DraftUseRoutes
  <1> QED BY <1>1, <1>3

LEMMA AdminFit ==
  /\ AllFit(MailboxRoutes)
  /\ AllFit(SettingRoutes)
  /\ AllFit(AutoReplyRoutes)
  /\ AllFit(InboundRoutes)
  <1>1. AllFit(MailboxRoutes)
    BY FitOf, FitEach, ShapeOf, ShapeNeeding DEF MailboxRoutes, RowKinds, Open, Administrative
  <1>2. AllFit(SettingRoutes)
    BY FitOf, FitEach, ShapeOf, ShapeNeeding DEF SettingRoutes, RowKinds, Open, Administrative
  <1>3. AllFit(AutoReplyRoutes)
    BY FitOf, FitEach, ShapeOf, ShapeNeeding DEF AutoReplyRoutes, RowKinds, Open, Administrative
  <1>4. AllFit(InboundRoutes)
    BY FitOf, FitEach, ShapeOf, ShapeNeeding DEF InboundRoutes, RowKinds, Open, Administrative
  <1> QED BY <1>1, <1>2, <1>3, <1>4

LEMMA GmailFit == AllFit(GmailRoutes)
  <1>1. AllShape(Handlers({"disconnect_gmail"}, "none", "entry", "change", "none"))
    BY HandlersAre, ShapeAre DEF Shape, Route, RowKinds
  <1> QED BY <1>1, FitOf, FitEach, ShapeOf, ShapeNeeding DEF GmailRoutes, RowKinds, Open, Administrative

LEMMA BesideEach == \A S, T : Beside(S \cup T) = Beside(S) \cup Beside(T)
  BY DEF Beside

LEMMA MakesAre ==
  ASSUME NEW S, NEW H, NEW needs, NEW names, NEW on, NEW does, NEW makes, NEW beside,
         Are(S, H, needs, names, on, does, makes, beside)
  PROVE  \A r \in S : r.makes = makes
  BY DEF Are, Route

LEMMA BesideOf ==
  ASSUME NEW on \in RowKinds, NEW H, Open(H)
  PROVE  /\ AllFit(Beside(Changes(on, H))) /\ AllFit(Beside(ChangesListed(on, H)))
         /\ AllFit(Beside(Makes("entry", H))) /\ AllFit(Beside(Adds(on, "entry", H)))
         /\ on \notin {"entry", "flow"} => AllFit(Beside(Adds(on, "draft", H)))
         /\ AllFit(Beside(Handlers(H, "listed", on, "watch", "none")))
  <1>1. /\ \A r \in Changes(on, H) : r.makes = "none"
        /\ \A r \in ChangesListed(on, H) : r.makes = "none"
        /\ \A r \in Makes("entry", H) : r.makes = "entry"
        /\ \A r \in Adds(on, "entry", H) : r.makes = "entry"
        /\ \A r \in Adds(on, "draft", H) : r.makes = "draft"
        /\ \A r \in Handlers(H, "listed", on, "watch", "none") : r.makes = "none"
    BY RoutesAre, HandlersAre, MakesAre
  <1> QED BY <1>1, FitOf, FitBeside

LEMMA BesideFit ==
  /\ AllFit(RuleRoutes)
  /\ AllFit(RuleUseRoutes)
  /\ AllFit(ContactRoutes)
  /\ AllFit(DraftRoutes)
  /\ AllFit(WatchRoutes)
  <1>1. AllFit(RuleRoutes)
    <2>1. /\ AllFit(Lists("entry", {"list_rules", "export_rules"}))
          /\ AllFit(Reads("entry", {"show_rule", "rule_matches"}))
          /\ AllFit(Beside(Makes("entry", {"import_rules", "add_rule"})))
          /\ AllFit(Beside(Changes("entry", {"replace_rule"})))
      BY FitOf, BesideOf DEF RowKinds, Open, Administrative
    <2>2. AllFit(Beside(Makes("entry", {"import_rules", "add_rule"}) \cup Changes("entry", {"replace_rule"})))
      BY <2>1, FitEach, BesideEach
    <2> QED BY <2>1, <2>2, FitEach DEF RuleRoutes
  <1>2. AllFit(RuleUseRoutes)
    BY FitOf, FitEach, BesideOf DEF RuleUseRoutes, RowKinds, Open, Administrative
  <1>3. AllFit(ContactRoutes)
    BY FitOf, FitEach, BesideOf DEF ContactRoutes, RowKinds, Open, Administrative
  <1>4. AllFit(DraftRoutes)
    BY FitOf, FitEach, BesideOf DEF DraftRoutes, RowKinds, Open, Administrative
  <1>5. AllFit(WatchRoutes)
    BY BesideOf DEF WatchRoutes, RowKinds, Open, Administrative
  <1> QED BY <1>1, <1>2, <1>3, <1>4, <1>5

LEMMA RoutesFit == AllFit(Routes)
  <1>1. AllFit(Protected)
    BY ReadFit, MemberFit1, MemberFit2, AdminFit, GmailFit, BesideFit, MemberFit3 DEF AllFit, AllShape, Protected
  <1>2. AllFit(ProtectedToo)
    BY ReadFit, MemberFit1, MemberFit2, MemberFit3, MemberFit4, AdminFit, BesideFit DEF AllFit, AllShape, ProtectedToo
  <1> QED BY <1>1, <1>2, FitEach DEF Routes

-----------------------------------------------------------------------------
(* Access: what stands of the rows and of each request. *)

RowsStand == \A i \in Ids : owner[i] # None => owner[under[i]] = owner[i]

\* A request names rows there are or were, of the kinds its route is for.
Names(q) ==
  /\ q.pc = "idle" => q = NoRequest
  /\ q.pc \in {"authorize", "handle"} => q.touched = {} /\ ~q.declared
  /\ q.pc \in {"authorize", "handle", "act", "watch"} \/ q.status \in {"ok", "404"} \/ q.touched # {} \/ q.declared
       => q.route # None
  /\ q.route # None =>
       /\ q.organization \in Organizations
       /\ q.route.names = "one" => q.named # None /\ KindOf[q.named] = q.route.on /\ under[q.named] # None
       /\ q.mailbox # None => q.route.beside /\ KindOf[q.mailbox] = "mailbox" /\ under[q.mailbox] # None

\* What the authority answered was so while the request was under way, and
\* what the handler asks for was found in it.
Allowed(a, q) ==
  /\ q.pc \in {"authorize", "handle", "act", "watch"} => Standing(roles, signed, a, q.organization) \in q.held
  /\ q.pc \in {"handle", "act", "watch"} \/ q.status = "ok" \/ q.touched # {} \/ q.declared
       => q.role \in q.held \cap Supported
  /\ q.pc \in {"act", "watch"} \/ q.status = "ok" \/ q.touched # {} \/ q.declared => Permits(q.role, q.route.needs)

\* What was found was the organization's, and is nobody else's since.
Owned(q) ==
  /\ q.pc = "act" => \A x \in q.todo :
       /\ KindOf[x] = q.route.on /\ under[x] # None /\ owner[x] \in {q.organization, None}
       /\ q.route.names # "none" /\ (q.route.names = "one" => x = q.named)
  /\ q.pc \in {"act", "watch"} /\ q.mailbox # None => owner[q.mailbox] \in {q.organization, None}
  /\ q.touched \subseteq {q.organization}

RefusedTruly(q) ==
  /\ q.status = "401" => q.route = None \/ "out" \in q.held
  /\ q.status = "403" => \E s \in q.held : s \notin Supported \/ (q.route.needs = "admin" /\ s = "member")
  /\ q.status = "404" => \E i \in {q.named, q.mailbox} \ {None} : owner[i] # q.organization /\ under[i] # None

\* A request that declares has an administrator's role, or its flow was begun with one.
Consents(q) ==
  q.declared \/ (q.pc = "act" /\ q.route.does = "declare") =>
    q.route.needs = "admin" \/ <<q.named, q.organization>> \in begun

Asks(a) ==
  /\ Names(request[a]) /\ Allowed(a, request[a]) /\ Owned(request[a]) /\ RefusedTruly(request[a])
  /\ Consents(request[a])

\* Every flow there is was begun by an administrator of its organization.
BegunStand == \A i \in Ids : KindOf[i] = "flow" /\ owner[i] # None => <<i, owner[i]>> \in begun

AccessIInv == AccessTypeOK /\ RowsStand /\ BegunStand /\ \A a \in Accounts : Asks(a)

\* What was begun stays begun, and what is begun is on record.
BegunMove == begun \subseteq begun' /\ begun' \subseteq Ids \X Organizations /\ BegunStand'

\* A row that was made is its organization's, or nobody's.
RowsMove == \A i \in Ids : under[i] # None => under'[i] # None /\ owner'[i] \in {owner[i], None}

LEMMA InitAccessIInv == AccessInit => AccessIInv
  <1> SUFFICES ASSUME AccessInit PROVE AccessIInv
    OBVIOUS
  <1>1. NoRequest \in RequestRecords
    BY DEF NoRequest, RequestRecords, Answers
  <1>2. AccessTypeOK
    BY <1>1, AccessAssumption DEF AccessInit, AccessTypeOK, NoRequest
  <1>3. RowsStand
    BY AccessAssumption DEF AccessInit, RowsStand
  <1>4. ASSUME NEW a \in Accounts PROVE Asks(a)
    BY <1>4 DEF AccessInit, Asks, Names, Allowed, Owned, RefusedTruly, Consents, NoRequest
  <1>5. BegunStand
    BY AccessAssumption DEF AccessInit, BegunStand
  <1> QED BY <1>2, <1>3, <1>4, <1>5 DEF AccessIInv

\* A request none of whose own steps is taken: at most the authority moved on.
LEMMA AsksStands ==
  ASSUME AccessTypeOK, RowsMove, BegunMove, NEW a \in Accounts, Asks(a), NEW h, request[a].held \subseteq h,
         request'[a] = [request[a] EXCEPT !.held = h], request[a].pc = "idle" => h = {},
         request[a].pc \in {"authorize", "handle", "act", "watch"} =>
           Standing(roles', signed', a, request[a].organization) \in h
  PROVE  Asks(a)'
  <1> DEFINE q == request[a]
             p == request'[a]
  <1>1. /\ q \in RequestRecords
        /\ p.pc = q.pc /\ p.status = q.status /\ p.route = q.route /\ p.organization = q.organization
        /\ p.named = q.named /\ p.mailbox = q.mailbox /\ p.role = q.role /\ p.todo = q.todo
        /\ p.touched = q.touched /\ p.held = h /\ p.declared = q.declared
    BY DEF AccessTypeOK, RequestRecords
  <1>2. q.named \in Ids \cup {None} /\ q.mailbox \in Ids \cup {None} /\ q.todo \subseteq Ids
    BY <1>1 DEF RequestRecords
  <1>3. q.pc = "idle" => p = q
    BY <1>1 DEF Asks, Names, NoRequest, RequestRecords
  <1>4. Names(q) /\ Allowed(a, q) /\ Owned(q) /\ RefusedTruly(q) /\ Consents(q)
    BY DEF Asks
  <1>9. (q.status = "404" => q.organization # None)
        /\ (q.pc \in {"act", "watch"} /\ q.mailbox # None => under[q.mailbox] # None)
    BY <1>4, AccessAssumption DEF Names
  <1>5. Names(request[a])'
    BY <1>1, <1>2, <1>3, <1>4 DEF Names, RowsMove
  <1>6. Allowed(a, request[a])'
    BY <1>1, <1>4 DEF Allowed
  <1>7. Owned(request[a])'
    BY <1>1, <1>2, <1>4, <1>9 DEF Owned, RowsMove
  <1>8. RefusedTruly(request[a])'
    BY <1>1, <1>2, <1>4, <1>9 DEF RefusedTruly, RowsMove
  <1>10. Consents(request[a])'
    BY <1>1, <1>4 DEF Consents, BegunMove
  <1> QED BY <1>5, <1>6, <1>7, <1>8, <1>10 DEF Asks

-----------------------------------------------------------------------------
(* Access: one request's steps. *)

\* Nothing moves but what the step is about, and all stands for its request.
Keeps(a) ==
  /\ AccessTypeOK' /\ RowsStand' /\ RowsMove /\ BegunMove /\ UNCHANGED authority
  /\ \A b \in Accounts : b # a => request'[b] = request[b]
  /\ Asks(a)'

LEMMA RowsKept ==
  ASSUME AccessTypeOK, RowsStand, UNCHANGED rows
  PROVE  RowsStand' /\ RowsMove
  BY DEF RowsStand, RowsMove, rows

LEMMA BegunKept ==
  ASSUME AccessIInv, UNCHANGED begun,
         \A i \in Ids : owner'[i] # None => owner'[i] = owner[i] \/ KindOf[i] # "flow"
  PROVE  BegunMove
  BY DEF AccessIInv, AccessTypeOK, BegunStand, BegunMove

\* A step that leaves the rows alone keeps what the next request is to keep.
LEMMA RequestMoves ==
  ASSUME AccessIInv, NEW a \in Accounts, UNCHANGED <<authority, rows, begun>>, NEW q \in RequestRecords,
         request' = [request EXCEPT ![a] = q], q.pc = "done" <=> q.status # "none",
         Names(q), Allowed(a, q), Owned(q), RefusedTruly(q), Consents(q)
  PROVE  Keeps(a)
  <1>1. request \in [Accounts -> RequestRecords] /\ RowsStand /\ AccessTypeOK
    BY DEF AccessIInv, AccessTypeOK
  <1>2. request'[a] = q /\ \A b \in Accounts : b # a => request'[b] = request[b]
    BY <1>1
  <1>3. request' \in [Accounts -> RequestRecords]
    BY <1>1
  <1>4. \A b \in Accounts : request'[b].pc = "done" <=> request'[b].status # "none"
    BY <1>1, <1>2 DEF AccessTypeOK
  <1>5. AccessTypeOK'
    BY <1>1, <1>3, <1>4 DEF AccessTypeOK, authority, rows
  <1>6. RowsStand' /\ RowsMove
    BY <1>1, RowsKept
  <1>7. Names(request[a])'
    BY <1>2 DEF Names, rows
  <1>8. Allowed(a, request[a])'
    BY <1>2 DEF Allowed, authority
  <1>9. Owned(request[a])'
    BY <1>2 DEF Owned, rows
  <1>10. RefusedTruly(request[a])'
    BY <1>2 DEF RefusedTruly, rows
  <1>11. Consents(request[a])'
    BY <1>2 DEF Consents
  <1>12. BegunMove
    BY BegunKept DEF rows
  <1> QED BY <1>2, <1>5, <1>6, <1>7, <1>8, <1>9, <1>10, <1>11, <1>12 DEF Keeps, Asks

LEMMA Answered ==
  ASSUME AccessIInv, NEW a \in Accounts, UNCHANGED <<authority, rows, begun>>, NEW status \in Answers \ {"none"},
         Answer(a, status),
         status = "ok" => request[a].pc \in {"act", "watch"},
         status = "401" => request[a].route = None \/ "out" \in request[a].held,
         status = "403" => \E s \in request[a].held :
                             s \notin Supported \/ (request[a].route.needs = "admin" /\ s = "member"),
         status = "404" => /\ request[a].pc \in {"handle", "act"}
                           /\ \E i \in {request[a].named, request[a].mailbox} \ {None} :
                                owner[i] # request[a].organization /\ under[i] # None
  PROVE  Keeps(a)
  <1> DEFINE q == [request[a] EXCEPT !.pc = "done", !.status = status]
  <1>1. request[a] \in RequestRecords /\ Asks(a) /\ request \in [Accounts -> RequestRecords]
    BY DEF AccessIInv, AccessTypeOK
  <1>2. /\ q \in RequestRecords
        /\ q.pc = "done" /\ q.status = status /\ q.route = request[a].route
        /\ q.organization = request[a].organization /\ q.named = request[a].named
        /\ q.mailbox = request[a].mailbox /\ q.role = request[a].role /\ q.todo = request[a].todo
        /\ q.touched = request[a].touched /\ q.held = request[a].held /\ q.declared = request[a].declared
    BY <1>1 DEF RequestRecords
  <1>3. request' = [request EXCEPT ![a] = q]
    BY <1>1 DEF Answer
  <1> HIDE DEF q
  <1>4. Names(q)
    BY <1>1, <1>2 DEF Asks, Names
  <1>5. Allowed(a, q) /\ Owned(q)
    BY <1>1, <1>2 DEF Asks, Allowed, Owned
  <1>6. RefusedTruly(q) /\ Consents(q)
    BY <1>1, <1>2 DEF Asks, RefusedTruly, Consents
  <1> QED BY <1>2, <1>3, <1>4, <1>5, <1>6, RequestMoves

LEMMA ArriveKeeps ==
  ASSUME AccessIInv, NEW a \in Accounts, Arrive(a)
  PROVE  Keeps(a)
  <1>1. PICK route \in Routes, organization \in Organizations :
          \E named \in CASE route.names = "one" -> Present(route.on)
                          [] route.names = "under" -> Present("mailbox")
                          [] OTHER -> {None},
             mailbox \in {None} \cup IF route.beside THEN Present("mailbox") ELSE {} :
            /\ route.handler \in MayAsk[a]
            /\ request' = [request EXCEPT ![a] = [NoRequest EXCEPT
                 !.pc = "authorize", !.route = route, !.organization = organization, !.named = named,
                 !.mailbox = mailbox, !.held = {Standing(roles, signed, a, organization)}]]
    BY DEF Arrive
  <1>2. PICK named \in CASE route.names = "one" -> Present(route.on)
                          [] route.names = "under" -> Present("mailbox")
                          [] OTHER -> {None},
             mailbox \in {None} \cup IF route.beside THEN Present("mailbox") ELSE {} :
            /\ route.handler \in MayAsk[a]
            /\ request' = [request EXCEPT ![a] = [NoRequest EXCEPT
                 !.pc = "authorize", !.route = route, !.organization = organization, !.named = named,
                 !.mailbox = mailbox, !.held = {Standing(roles, signed, a, organization)}]]
    BY <1>1
  <1> DEFINE q == [NoRequest EXCEPT
              !.pc = "authorize", !.route = route, !.organization = organization, !.named = named,
              !.mailbox = mailbox, !.held = {Standing(roles, signed, a, organization)}]
  <1>3. named \in Ids \cup {None} /\ mailbox \in Ids \cup {None}
    BY <1>2 DEF Present
  <1>4. Standing(roles, signed, a, organization) \in Roles \cup {"out"}
    BY DEF Standing, AccessIInv, AccessTypeOK
  <1>5. /\ q.pc = "authorize" /\ q.status = "none" /\ q.route = route /\ q.organization = organization
        /\ q.named = named /\ q.mailbox = mailbox /\ q.role = "none" /\ q.todo = {} /\ q.touched = {}
        /\ q.held = {Standing(roles, signed, a, organization)} /\ q.declared = FALSE
    BY DEF NoRequest
  <1>6. q \in RequestRecords
    BY <1>3, <1>4 DEF NoRequest, RequestRecords, Answers
  <1>7. route # None
    BY AccessAssumption
  <1>8. \A i \in Ids : owner[i] # None => under[i] # None
    BY DEF AccessIInv, AccessTypeOK
  <1>9. Names(q)
    <2>1. route.names = "one" => named \in Ids /\ KindOf[named] = route.on /\ under[named] # None
      BY <1>2, <1>8 DEF Present
    <2>2. mailbox # None => route.beside /\ KindOf[mailbox] = "mailbox" /\ under[mailbox] # None
      BY <1>2, <1>8 DEF Present
    <2> QED BY <1>5, <1>7, <2>1, <2>2, AccessAssumption DEF Names
  <1>10. Allowed(a, q) /\ Owned(q) /\ RefusedTruly(q) /\ Consents(q)
    BY <1>5 DEF Allowed, Owned, RefusedTruly, Consents
  <1>11. UNCHANGED <<authority, rows, begun>> /\ q.pc # "done" /\ q.status = "none"
    BY <1>5 DEF Arrive
  <1> HIDE DEF q
  <1> QED BY <1>2, <1>6, <1>9, <1>10, <1>11, RequestMoves DEF q

\* Two answers of a role at most: the role itself, or that there is none the API knows.
LEMMA VerifiedIs ==
  ASSUME AccessTypeOK, NEW a \in Accounts, NEW o \in Organizations, NEW asked \in {{o}, Organizations}
  PROVE  \/ Verified(Rows(a, asked), o) = "503"
         \/ Verified(Rows(a, asked), o) = "403" /\ roles[a][o] \notin Supported
         \/ Verified(Rows(a, asked), o) \in Supported /\ Verified(Rows(a, asked), o) = roles[a][o]
  <1> DEFINE answered == Rows(a, asked)
  <1>1. o \in asked /\ asked \subseteq Organizations
    OBVIOUS
  <1>2. \A row \in answered : row.organization \in asked /\ row.role = roles[a][row.organization]
                              /\ row = [organization |-> row.organization, role |-> row.role]
    BY DEF Rows
  <1>3. roles[a][o] # "none" => [organization |-> o, role |-> roles[a][o]] \in answered
    BY <1>1 DEF Rows
  <1>4. IsFiniteSet(answered)
    <2> DEFINE f == [row \in answered |-> row.organization]
    <2>1. f \in Injection(answered, asked)
      <3>1. f \in [answered -> asked]
        BY <1>2
      <3>2. \A r1, r2 \in answered : f[r1] = f[r2] => r1 = r2
        BY <1>2
      <3> QED BY <3>1, <3>2 DEF Injection, IsInjective
    <2>2. IsFiniteSet(asked)
      BY <1>1, FS_Subset, AccessAssumption
    <2> HIDE DEF f, answered
    <2> QED BY <2>1, <2>2, FS_Injection
  <1>5. roles[a][o] \in Roles
    BY DEF AccessTypeOK
  <1> HIDE DEF answered
  <1>6. CASE Cardinality(answered) > 1
    BY <1>6 DEF Verified, answered
  <1>7. CASE ~(Cardinality(answered) > 1)
    <2>1. CASE \E row \in answered : OfTarget(row, o) /\ FromRpc(row.role) # "none"
      <3>1. PICK row \in answered : OfTarget(row, o) /\ FromRpc(row.role) # "none"
        BY <2>1
      <3>2. row.role = roles[a][o] /\ row.role \in Supported
        BY <1>2, <3>1 DEF OfTarget, FromRpc
      <3>3. Cardinality(answered) = 1
        BY <1>4, <1>7, <3>1, FS_CardinalityType, FS_EmptySet
      <3>4. PICK x : answered = {x}
        BY <1>4, <3>3, FS_Singleton
      <3>5. (CHOOSE each \in answered : TRUE) = row
        BY <3>1, <3>4
      <3>6. Verified(answered, o) = FromRpc(row.role)
        BY <1>7, <2>1, <3>5 DEF Verified
      <3> QED BY <3>2, <3>6 DEF FromRpc, answered
    <2>2. CASE ~ \E row \in answered : OfTarget(row, o) /\ FromRpc(row.role) # "none"
      <3>1. Verified(answered, o) = "403"
        BY <1>7, <2>2 DEF Verified
      <3>2. roles[a][o] \notin Supported
        <4>1. SUFFICES ASSUME roles[a][o] \in Supported PROVE FALSE
          OBVIOUS
        <4>2. roles[a][o] # "none" /\ FromRpc(roles[a][o]) # "none"
          BY <4>1 DEF Supported, FromRpc
        <4>3. PICK row \in answered : row = [organization |-> o, role |-> roles[a][o]]
          BY <1>3, <4>2
        <4>4. row.organization = o /\ row.role = roles[a][o]
          BY <4>3
        <4> QED BY <2>2, <4>2, <4>3, <4>4 DEF OfTarget
      <3> QED BY <3>1, <3>2 DEF answered
    <2> QED BY <2>1, <2>2
  <1> QED BY <1>6, <1>7

LEMMA UnverifiableKeeps ==
  ASSUME AccessIInv, NEW a \in Accounts, Unverifiable(a)
  PROVE  Keeps(a)
  <1>1. request[a] = NoRequest
    BY DEF AccessIInv, Asks, Names, Unverifiable, Busy
  <1>2. PICK status \in {"401", "400"} : Answer(a, status)
    BY DEF Unverifiable
  <1>3. UNCHANGED <<authority, rows, begun>> /\ request[a].route = None /\ request[a].pc = "idle"
    BY <1>1 DEF Unverifiable, NoRequest
  <1> QED BY <1>2, <1>3, Answered DEF Answers

LEMMA AuthorizeKeeps ==
  ASSUME AccessIInv, NEW a \in Accounts, Authorize(a)
  PROVE  Keeps(a)
  <1>1. /\ AccessTypeOK /\ request[a] \in RequestRecords /\ request \in [Accounts -> RequestRecords]
        /\ Asks(a) /\ request[a].pc = "authorize" /\ UNCHANGED <<authority, rows, begun>>
    BY DEF AccessIInv, AccessTypeOK, Authorize
  <1>2. request[a].organization \in Organizations /\ request[a].route # None
        /\ Standing(roles, signed, a, request[a].organization) \in request[a].held
    BY <1>1 DEF Asks, Names, Allowed
  <1>3. CASE Answer(a, "503")
    BY <1>1, <1>3, Answered DEF Answers
  <1>4. CASE a \notin signed /\ Answer(a, "401")
    <2>1. "out" \in request[a].held
      BY <1>2, <1>4 DEF Standing
    <2> QED BY <1>1, <1>4, <2>1, Answered DEF Answers
  <1>5. ASSUME a \in signed, NEW asked \in {{request[a].organization}, Organizations},
               LET verified == Verified(Rows(a, asked), request[a].organization) IN
                 IF verified \in Supported
                   THEN request' = [request EXCEPT ![a].pc = "handle", ![a].role = verified]
                   ELSE Answer(a, verified)
        PROVE  Keeps(a)
    <2> DEFINE verified == Verified(Rows(a, asked), request[a].organization)
    <2>1. \/ verified = "503"
          \/ verified = "403" /\ roles[a][request[a].organization] \notin Supported
          \/ verified \in Supported /\ verified = roles[a][request[a].organization]
      BY <1>1, <1>2, VerifiedIs
    <2>2. roles[a][request[a].organization] \in request[a].held
      BY <1>2, <1>5 DEF Standing
    <2>3. IF verified \in Supported
            THEN request' = [request EXCEPT ![a].pc = "handle", ![a].role = verified]
            ELSE Answer(a, verified)
      BY <1>5
    <2> HIDE DEF verified
    <2>4. CASE verified = "503"
      BY <1>1, <2>3, <2>4, Answered DEF Answers, Supported
    <2>5. CASE verified = "403" /\ roles[a][request[a].organization] \notin Supported
      BY <1>1, <2>2, <2>3, <2>5, Answered DEF Answers, Supported
    <2>6. CASE verified \in Supported /\ verified = roles[a][request[a].organization]
      <3> DEFINE q == [request[a] EXCEPT !.pc = "handle", !.role = verified]
      <3>1. request' = [request EXCEPT ![a] = q]
        BY <1>1, <2>3, <2>6
      <3>2. /\ q \in RequestRecords
            /\ q.pc = "handle" /\ q.role = verified /\ q.status = request[a].status /\ q.route = request[a].route
            /\ q.organization = request[a].organization /\ q.named = request[a].named
            /\ q.mailbox = request[a].mailbox /\ q.todo = request[a].todo
            /\ q.touched = request[a].touched /\ q.held = request[a].held /\ q.declared = request[a].declared
        BY <1>1, <2>6 DEF RequestRecords
      <3>3. q.status = "none" /\ q.touched = {} /\ ~q.declared
        <4>1. request[a].status = "none"
          BY <1>1 DEF AccessTypeOK, RequestRecords
        <4>2. request[a].touched = {} /\ ~request[a].declared
          BY <1>1 DEF Asks, Names
        <4> QED BY <3>2, <4>1, <4>2
      <3> HIDE DEF q
      <3>4. Names(q)
        BY <1>1, <1>2, <3>2 DEF Asks, Names
      <3>5. Allowed(a, q)
        BY <1>2, <2>2, <2>6, <3>2, <3>3 DEF Allowed
      <3>6. Owned(q) /\ RefusedTruly(q) /\ Consents(q)
        BY <1>1, <3>2, <3>3 DEF Asks, Owned, RefusedTruly, Consents
      <3> QED BY <1>1, <3>1, <3>2, <3>3, <3>4, <3>5, <3>6, RequestMoves
    <2> QED BY <2>1, <2>4, <2>5, <2>6
  <1> QED BY <1>3, <1>4, <1>5 DEF Authorize

\* What a request at a place is.
LEMMA RequestIs ==
  ASSUME AccessIInv, NEW a \in Accounts
  PROVE  /\ AccessTypeOK /\ RowsStand /\ Asks(a)
         /\ request \in [Accounts -> RequestRecords] /\ request[a] \in RequestRecords
         /\ request[a].pc = "done" <=> request[a].status # "none"
         /\ request[a].route # None => request[a].route \in Routes /\ Fit(request[a].route)
         /\ request[a].named \in Ids \cup {None} /\ request[a].mailbox \in Ids \cup {None}
         /\ request[a].todo \in SUBSET Ids
  BY RoutesFit DEF AccessIInv, AccessTypeOK, RequestRecords, AllFit, AllShape, Fit

LEMMA PermitsNot ==
  ASSUME NEW role \in Supported, NEW needs \in {"any", "member", "admin"}, ~Permits(role, needs)
  PROVE  role = "member" /\ needs = "admin"
  BY DEF Permits, Supported

LEMMA HandleKeeps ==
  ASSUME AccessIInv, NEW a \in Accounts, Handle(a)
  PROVE  Keeps(a)
  <1> DEFINE r == request[a]
             found == CASE r.route.names = "one" -> {r.named}
                        [] r.route.names = "listed" -> Listed(r.route.on, r.organization)
                        [] r.route.names = "under" ->
                             {i \in Listed(r.route.on, r.organization) : under[i] = r.named}
                        [] OTHER -> {}
  <1>1. /\ UNCHANGED <<authority, rows, begun>> /\ r.pc = "handle" /\ r.status = "none" /\ r \in RequestRecords
        /\ request \in [Accounts -> RequestRecords] /\ owner \in [Ids -> Organizations \cup {None}]
        /\ \A i \in Ids : owner[i] # None => under[i] # None
    BY RequestIs DEF Handle, AccessTypeOK, RequestRecords
  <1>2. /\ r.route # None /\ Fit(r.route) /\ r.role \in r.held \cap Supported /\ r.organization \in Organizations
        /\ Standing(roles, signed, a, r.organization) \in r.held
        /\ r.named \in Ids \cup {None} /\ r.mailbox \in Ids \cup {None} /\ r.touched = {} /\ ~r.declared
        /\ Names(r) /\ RefusedTruly(r)
    BY <1>1, RequestIs DEF Asks, Allowed, Names
  <1>3. /\ r.route.names = "one" => r.named \in Ids /\ KindOf[r.named] = r.route.on /\ under[r.named] # None
        /\ r.mailbox # None => under[r.mailbox] # None /\ r.mailbox \in Ids
    BY <1>2 DEF Names
  <1>4. IF ~Permits(r.role, r.route.needs) THEN Answer(a, "403")
        ELSE IF \/ r.route.names = "one" /\ ~Found(r.named, r.organization)
                \/ ~Resolved(r.mailbox, r.organization)
          THEN Answer(a, "404")
        ELSE IF r.route.does = "read"
          THEN request' = [request EXCEPT ![a].pc = "done", ![a].status = "ok",
                                          ![a].touched = {owner[i] : i \in found}]
        ELSE request' = [request EXCEPT ![a].pc = IF r.route.does = "watch" THEN "watch" ELSE "act",
                                        ![a].todo = found]
    BY DEF Handle
  <1>5. CASE ~Permits(r.role, r.route.needs)
    <2>1. r.role = "member" /\ r.route.needs = "admin"
      BY <1>2, <1>5, PermitsNot DEF Fit, Shape
    <2> QED BY <1>1, <1>2, <1>4, <1>5, <2>1, Answered DEF Answers
  <1>6. CASE /\ Permits(r.role, r.route.needs)
             /\ \/ r.route.names = "one" /\ ~Found(r.named, r.organization)
                \/ ~Resolved(r.mailbox, r.organization)
    <2>1. \E i \in {r.named, r.mailbox} \ {None} : owner[i] # r.organization /\ under[i] # None
      BY <1>3, <1>6, AccessAssumption DEF Found, Resolved
    <2> QED BY <1>1, <1>4, <1>6, <2>1, Answered DEF Answers
  <1>7. CASE /\ Permits(r.role, r.route.needs)
             /\ r.route.names = "one" => Found(r.named, r.organization)
             /\ Resolved(r.mailbox, r.organization)
    <2>1. /\ found \subseteq Ids
          /\ \A x \in found : /\ owner[x] = r.organization /\ KindOf[x] = r.route.on /\ under[x] # None
                              /\ r.route.names # "none" /\ (r.route.names = "one" => x = r.named)
      <3>1. r.organization # None
        BY <1>2, AccessAssumption
      <3>2. CASE r.route.names = "one"
        BY <1>3, <1>7, <3>2 DEF Found
      <3>3. CASE r.route.names \in {"listed", "under"}
        BY <1>1, <3>1, <3>3 DEF Listed
      <3>4. CASE r.route.names \notin {"one", "listed", "under"}
        BY <3>4
      <3> QED BY <3>2, <3>3, <3>4
    <2>2. r.mailbox # None => owner[r.mailbox] = r.organization
      BY <1>7 DEF Resolved
    <2> HIDE DEF found
    <2>3. CASE r.route.does = "read"
      <3> DEFINE q == [r EXCEPT !.pc = "done", !.status = "ok", !.touched = {owner[i] : i \in found}]
      <3>1. request' = [request EXCEPT ![a] = q]
        BY <1>1, <1>4, <1>7, <2>3
      <3>2. {owner[i] : i \in found} \subseteq {r.organization}
        BY <2>1
      <3>3. /\ q \in RequestRecords
            /\ q.pc = "done" /\ q.role = r.role /\ q.status = "ok" /\ q.route = r.route
            /\ q.organization = r.organization /\ q.named = r.named
            /\ q.mailbox = r.mailbox /\ q.todo = r.todo
            /\ q.touched \subseteq {r.organization} /\ q.held = r.held /\ ~q.declared
        BY <1>1, <1>2, <3>2 DEF RequestRecords, Answers
      <3> HIDE DEF q
      <3>4. Names(q)
        BY <1>2, <3>3 DEF Names
      <3>5. Allowed(a, q)
        BY <1>2, <1>7, <3>3 DEF Allowed
      <3>6. Owned(q) /\ RefusedTruly(q) /\ Consents(q)
        BY <3>3 DEF Owned, RefusedTruly, Consents
      <3> QED BY <1>1, <3>1, <3>3, <3>4, <3>5, <3>6, RequestMoves
    <2>4. CASE r.route.does # "read"
      <3> DEFINE place == IF r.route.does = "watch" THEN "watch" ELSE "act"
                 q == [r EXCEPT !.pc = place, !.todo = found]
      <3>1. request' = [request EXCEPT ![a] = q]
        BY <1>1, <1>4, <1>7, <2>4
      <3>2. place \in {"act", "watch"}
        OBVIOUS
      <3> HIDE DEF place
      <3>3. /\ q \in RequestRecords
            /\ q.pc = place /\ q.role = r.role /\ q.status = "none" /\ q.route = r.route
            /\ q.organization = r.organization /\ q.named = r.named
            /\ q.mailbox = r.mailbox /\ q.todo = found
            /\ q.touched = {} /\ q.held = r.held /\ ~q.declared
        BY <1>1, <1>2, <2>1, <3>2 DEF RequestRecords
      <3> HIDE DEF q
      <3>4. Names(q)
        BY <1>2, <3>2, <3>3 DEF Names
      <3>5. Allowed(a, q)
        BY <1>2, <1>7, <3>3 DEF Allowed
      <3>6. Owned(q) /\ RefusedTruly(q)
        BY <2>1, <2>2, <3>3 DEF Owned, RefusedTruly
      <3>7. q.pc # "done"
        BY <3>2, <3>3
      <3>8. r.route.does = "declare" /\ r.route.needs # "admin" => <<r.named, r.organization>> \in begun
        <4>1. SUFFICES ASSUME r.route.does = "declare", r.route.needs # "admin"
                       PROVE  <<r.named, r.organization>> \in begun
          OBVIOUS
        <4>2. r.route.on = "flow" /\ r.route.names = "one"
          BY <1>2, <4>1 DEF Fit, Reserved, Shape
        <4>3. r.named \in Ids /\ KindOf[r.named] = "flow" /\ owner[r.named] = r.organization /\ r.organization # None
          BY <1>2, <1>3, <1>7, <4>2, AccessAssumption DEF Found
        <4>4. BegunStand
          BY DEF AccessIInv
        <4> QED BY <4>3, <4>4 DEF BegunStand
      <3>9. Consents(q)
        BY <3>3, <3>8 DEF Consents
      <3> QED BY <1>1, <3>1, <3>3, <3>4, <3>5, <3>6, <3>7, <3>9, RequestMoves
    <2> QED BY <2>3, <2>4
  <1> QED BY <1>5, <1>6, <1>7

LEMMA EndsHold ==
  ASSUME AccessIInv, NEW a \in Accounts, RefuseByRule(a) \/ Finish(a) \/ Leave(a)
  PROVE  Keeps(a)
  <1>1. CASE RefuseByRule(a)
    BY <1>1, Answered DEF RefuseByRule, Answers
  <1>2. CASE Finish(a)
    BY <1>2, Answered DEF Finish, Answers
  <1>3. CASE Leave(a)
    BY <1>3, Answered DEF Leave, Answers
  <1> QED BY <1>1, <1>2, <1>3

LEMMA HandKeeps ==
  ASSUME AccessIInv, NEW a \in Accounts, Hand(a)
  PROVE  Keeps(a)
  <1> DEFINE r == request[a]
             kept == {i \in Listed("message", r.organization) : r.mailbox \in {None, under[i]}}
             read == {owner[i] : i \in kept}
             q == [r EXCEPT !.touched = r.touched \cup read]
  <1>1. /\ UNCHANGED <<authority, rows, begun>> /\ r.pc = "watch" /\ r.status = "none" /\ r \in RequestRecords
        /\ request \in [Accounts -> RequestRecords]
        /\ Names(r) /\ Allowed(a, r) /\ Owned(r) /\ RefusedTruly(r) /\ Consents(r)
    BY RequestIs DEF Hand, Asks, RequestRecords
  <1>2. request' = [request EXCEPT ![a] = q]
    BY <1>1 DEF Hand
  <1>3. read \subseteq {r.organization}
    BY DEF Listed
  <1> HIDE DEF read
  <1>4. /\ q \in RequestRecords
        /\ q.pc = "watch" /\ q.role = r.role /\ q.status = "none" /\ q.route = r.route
        /\ q.organization = r.organization /\ q.named = r.named
        /\ q.mailbox = r.mailbox /\ q.todo = r.todo
        /\ q.touched \subseteq {r.organization} /\ q.held = r.held /\ q.declared = r.declared
    BY <1>1, <1>3 DEF RequestRecords, Owned
  <1> HIDE DEF q
  <1>5. Names(q) /\ Allowed(a, q)
    BY <1>1, <1>4 DEF Names, Allowed
  <1>6. Owned(q) /\ RefusedTruly(q) /\ Consents(q)
    BY <1>1, <1>4 DEF Owned, RefusedTruly, Consents
  <1> QED BY <1>1, <1>2, <1>4, <1>5, <1>6, RequestMoves

LEMMA SetDeclaredKeeps ==
  ASSUME AccessIInv, NEW a \in Accounts, SetDeclared(a)
  PROVE  Keeps(a)
  <1> DEFINE r == request[a]
             q == [r EXCEPT !.declared = TRUE]
  <1>1. /\ UNCHANGED <<authority, rows, begun>> /\ r.pc = "act" /\ r.route.does = "declare" /\ r \in RequestRecords
        /\ request \in [Accounts -> RequestRecords] /\ r.status = "none"
        /\ Names(r) /\ Allowed(a, r) /\ Owned(r) /\ RefusedTruly(r) /\ Consents(r)
    BY RequestIs DEF SetDeclared, Asks, RequestRecords
  <1>2. request' = [request EXCEPT ![a] = q]
    BY <1>1 DEF SetDeclared
  <1>3. /\ q \in RequestRecords
        /\ q.pc = "act" /\ q.role = r.role /\ q.status = "none" /\ q.route = r.route
        /\ q.organization = r.organization /\ q.named = r.named
        /\ q.mailbox = r.mailbox /\ q.todo = r.todo
        /\ q.touched = r.touched /\ q.held = r.held /\ q.declared
    BY <1>1 DEF RequestRecords
  <1> HIDE DEF q
  <1>4. Names(q) /\ Allowed(a, q)
    BY <1>1, <1>3 DEF Names, Allowed
  <1>5. Owned(q) /\ RefusedTruly(q) /\ Consents(q)
    BY <1>1, <1>3 DEF Owned, RefusedTruly, Consents
  <1> QED BY <1>1, <1>2, <1>3, <1>4, <1>5, RequestMoves

-----------------------------------------------------------------------------
(* Access: writes. *)

RowTypes ==
  /\ owner \in [Ids -> Organizations \cup {None}] /\ under \in [Ids -> Ids \cup {None}]
  /\ \A i \in Ids : IF under[i] = None THEN owner[i] = None ELSE Fits(i, under[i])

\* A write to rows of the organization, after which there may be less to do.
LEMMA MovesOn ==
  ASSUME AccessIInv, NEW a \in Accounts, request[a].pc = "act", UNCHANGED authority,
         NEW organizations \in SUBSET {request[a].organization}, NEW left \in SUBSET request[a].todo,
         NEW place \in {"done", "act"}, NEW status \in {"ok", "none"}, place = "done" <=> status # "none",
         request' = [request EXCEPT ![a] = [request[a] EXCEPT !.touched = request[a].touched \cup organizations,
                                              !.todo = left, !.pc = place, !.status = status]],
         RowTypes', RowsStand', RowsMove, BegunMove
  PROVE  Keeps(a)
  <1> DEFINE r == request[a]
             q == [r EXCEPT !.touched = r.touched \cup organizations, !.todo = left, !.pc = place, !.status = status]
  <1>1. /\ r \in RequestRecords /\ request \in [Accounts -> RequestRecords] /\ AccessTypeOK
        /\ Names(r) /\ Allowed(a, r) /\ Owned(r) /\ Consents(r) /\ r.todo \in SUBSET Ids
        /\ r.route # None /\ r.organization \in Organizations
        /\ r.named \in Ids \cup {None} /\ r.mailbox \in Ids \cup {None}
    BY RequestIs DEF Asks, Names
  <1>2. request' = [request EXCEPT ![a] = q]
    OBVIOUS
  <1>3. place \in {"done", "act"} /\ status \in {"ok", "none"} /\ (place = "done" <=> status # "none")
    OBVIOUS
  <1>4. /\ q \in RequestRecords
        /\ q.pc = place /\ q.role = r.role /\ q.status = status /\ q.route = r.route
        /\ q.organization = r.organization /\ q.named = r.named
        /\ q.mailbox = r.mailbox /\ q.todo = left
        /\ q.touched \subseteq {r.organization} /\ q.held = r.held /\ q.declared = r.declared
    BY <1>1, <1>3 DEF RequestRecords, Answers, Owned
  <1> HIDE DEF q
  <1>5. request'[a] = q /\ (\A b \in Accounts : b # a => request'[b] = request[b])
        /\ request' \in [Accounts -> RequestRecords]
    BY <1>1, <1>2, <1>4
  <1>6. AccessTypeOK'
    BY <1>1, <1>3, <1>4, <1>5 DEF AccessTypeOK, RowTypes, BegunMove, authority
  <1>7. Names(request[a])'
    BY <1>1, <1>3, <1>4, <1>5 DEF Names, RowsMove
  <1>8. Allowed(a, request[a])'
    BY <1>1, <1>3, <1>4, <1>5 DEF Allowed, authority
  <1>9. Owned(request[a])'
    <2>1. r.mailbox # None => under[r.mailbox] # None /\ r.mailbox \in Ids
      BY <1>1 DEF Names
    <2> QED BY <1>1, <1>3, <1>4, <1>5, <2>1 DEF Owned, RowsMove
  <1>10. RefusedTruly(request[a])'
    BY <1>3, <1>4, <1>5 DEF RefusedTruly
  <1>11. Consents(request[a])'
    BY <1>1, <1>3, <1>4, <1>5 DEF Consents, BegunMove
  <1> QED BY <1>5, <1>6, <1>7, <1>8, <1>9, <1>10, <1>11 DEF Keeps, Asks

LEMMA WriteKeeps ==
  ASSUME AccessIInv, NEW a \in Accounts, request[a].pc = "act", UNCHANGED authority,
         NEW organizations \in SUBSET {request[a].organization}, NEW left \in SUBSET request[a].todo,
         Wrote(a, organizations, left), RowTypes', RowsStand', RowsMove, BegunMove
  PROVE  Keeps(a)
  <1> DEFINE place == IF left = {} THEN "done" ELSE "act"
             status == IF left = {} THEN "ok" ELSE "none"
  <1>1. request \in [Accounts -> RequestRecords] /\ request[a] \in RequestRecords
    BY RequestIs
  <1>2. request' = [request EXCEPT ![a] = [request[a] EXCEPT !.touched = request[a].touched \cup organizations,
                                             !.todo = left, !.pc = place, !.status = status]]
    BY <1>1 DEF Wrote, RequestRecords
  <1>3. place \in {"done", "act"} /\ status \in {"ok", "none"} /\ (place = "done" <=> status # "none")
    OBVIOUS
  <1> HIDE DEF place, status
  <1> QED BY <1>2, <1>3, MovesOn

\* A row to be written is the organization's.
LEMMA WrittenIs ==
  ASSUME AccessIInv, NEW a \in Accounts, NEW x, NEW does, Writing(a, x, does)
  PROVE  /\ request[a].pc = "act" /\ x \in Ids /\ x \in request[a].todo
         /\ request[a].organization \in Organizations /\ request[a].organization # None
         /\ request[a].route # None /\ Fit(request[a].route) /\ request[a].route.does \in does
         /\ KindOf[x] = request[a].route.on /\ under[x] # None /\ owner[x] \in {request[a].organization, None}
         /\ request[a].route.names # "none" /\ (request[a].route.names = "one" => x = request[a].named)
         /\ request[a].mailbox # None =>
              /\ request[a].route.beside /\ KindOf[request[a].mailbox] = "mailbox" /\ under[request[a].mailbox] # None
              /\ request[a].mailbox \in Ids /\ owner[request[a].mailbox] \in {request[a].organization, None}
  <1>1. request[a].pc = "act" /\ x \in request[a].todo /\ request[a].route.does \in does
    BY DEF Writing
  <1> QED BY <1>1, RequestIs, AccessAssumption DEF Asks, Names, Owned

LEMMA MissKeeps ==
  ASSUME AccessIInv, NEW a \in Accounts, NEW x \in Ids, Miss(a, x)
  PROVE  Keeps(a)
  <1>1. Writing(a, x, {"change", "remove", "add", "spend", "declare"}) /\ owner[x] = None /\ UNCHANGED <<authority, rows, begun>>
    BY DEF Miss
  <1>2. CASE request[a].route.names = "one"
    <2>1. PICK status \in {"404", "refused"} : Answer(a, status)
      BY <1>2 DEF Miss
    <2>2. \E i \in {request[a].named, request[a].mailbox} \ {None} : owner[i] # request[a].organization /\ under[i] # None
      BY <1>1, <1>2, WrittenIs, AccessAssumption
    <2>3. request[a].pc = "act"
      BY <1>1, WrittenIs
    <2> QED BY <1>1, <2>1, <2>2, <2>3, Answered DEF Answers
  <1>3. CASE request[a].route.names # "one"
    <2>1. Wrote(a, {}, request[a].todo \ {x})
      BY <1>3 DEF Miss
    <2>2. RowTypes' /\ RowsStand' /\ RowsMove
      BY <1>1, RequestIs, RowsKept DEF AccessTypeOK, RowTypes, rows
    <2>3. request[a].pc = "act" /\ UNCHANGED authority
      BY <1>1, WrittenIs
    <2>4. BegunMove
      BY <1>1, BegunKept DEF rows
    <2> QED BY <2>1, <2>2, <2>3, <2>4, WriteKeeps
  <1> QED BY <1>2, <1>3

LEMMA ChangeKeeps ==
  ASSUME AccessIInv, NEW a \in Accounts, NEW x \in Ids, Change(a, x)
  PROVE  Keeps(a)
  <1> DEFINE r == request[a]
  <1>1. /\ Writing(a, x, {"change"}) /\ owner[x] # None /\ UNCHANGED <<authority, owner, begun>>
        /\ Wrote(a, {owner[x]}, r.todo \ {x})
    BY DEF Change
  <1>2. /\ r.pc = "act" /\ r.organization # None /\ owner[x] = r.organization /\ under[x] # None
        /\ KindOf[x] = r.route.on
        /\ r.mailbox # None => KindOf[r.mailbox] = "mailbox" /\ r.mailbox \in Ids
                               /\ owner[r.mailbox] \in {r.organization, None}
    BY <1>1, WrittenIs
  <1>3. AccessTypeOK /\ RowsStand /\ owner \in [Ids -> Organizations \cup {None}]
        /\ under \in [Ids -> Ids \cup {None}]
    BY RequestIs DEF AccessTypeOK
  <1>4. RowTypes' /\ RowsStand' /\ RowsMove
    <2>1. CASE UNCHANGED under
      <3>1. UNCHANGED rows
        BY <1>1, <2>1 DEF rows
      <3> QED BY <1>3, <3>1, RowsKept DEF AccessTypeOK, RowTypes, rows
    <2>2. CASE r.route.beside /\ r.route.on = "entry"
      <3> DEFINE home == IF r.mailbox = None THEN x ELSE r.mailbox
      <3>1. under' = [under EXCEPT ![x] = home] /\ (r.mailbox # None => owner[r.mailbox] # None)
        BY <2>2 DEF Change
      <3>2. home \in Ids /\ owner[home] = r.organization /\ Fits(x, home) /\ home # None
        BY <1>2, <2>2, <3>1, AccessAssumption DEF Fits
      <3> HIDE DEF home
      <3>3. \A i \in Ids : under'[i] = IF i = x THEN home ELSE under[i]
        BY <1>3, <3>1
      <3>4. under' \in [Ids -> Ids \cup {None}]
        BY <1>3, <3>1, <3>2
      <3>5. RowTypes'
        BY <1>1, <1>3, <3>2, <3>3, <3>4 DEF AccessTypeOK, RowTypes
      <3>6. RowsStand'
        BY <1>1, <1>2, <1>3, <3>2, <3>3 DEF RowsStand
      <3>7. RowsMove
        BY <1>1, <3>2, <3>3 DEF RowsMove
      <3> QED BY <3>5, <3>6, <3>7
    <2> QED BY <2>1, <2>2 DEF Change
  <1>5. BegunMove
    BY <1>1, BegunKept
  <1> QED BY <1>1, <1>2, <1>4, <1>5, WriteKeeps

LEMMA RemoveKeeps ==
  ASSUME AccessIInv, NEW a \in Accounts, NEW x \in Ids, Remove(a, x)
  PROVE  Keeps(a)
  <1>1. /\ Writing(a, x, {"remove"}) /\ owner[x] # None /\ UNCHANGED <<authority, under, begun>>
        /\ owner' = Deleted(x) /\ Wrote(a, {owner[x]}, request[a].todo \ {x})
    BY DEF Remove
  <1>2. request[a].pc = "act" /\ owner[x] = request[a].organization
    BY <1>1, WrittenIs
  <1>3. AccessTypeOK /\ RowsStand /\ owner \in [Ids -> Organizations \cup {None}]
        /\ under \in [Ids -> Ids \cup {None}]
    BY RequestIs DEF AccessTypeOK
  <1>4. \A i \in Ids : owner'[i] = IF x \in {i, under[i]} THEN None ELSE owner[i]
    BY <1>1 DEF Deleted
  <1>5. RowTypes'
    BY <1>1, <1>3, <1>4 DEF AccessTypeOK, RowTypes, Deleted
  <1>6. RowsMove
    BY <1>1, <1>4 DEF RowsMove
  <1>7. ASSUME NEW i \in Ids, owner'[i] # None PROVE owner'[under[i]] = owner'[i]
    <2>1. x # i /\ x # under[i] /\ owner[i] # None /\ owner'[i] = owner[i]
      BY <1>4, <1>7
    <2>2. under[i] \in Ids /\ under[i] # None /\ owner[under[i]] = owner[i] /\ Fits(i, under[i])
      BY <1>3, <2>1 DEF RowsStand, AccessTypeOK
    <2>3. under[under[i]] # None /\ Fits(under[i], under[under[i]])
      BY <1>3, <2>1, <2>2 DEF AccessTypeOK
    <2>4. under[under[i]] = under[i]
      BY <2>2, <2>3 DEF Fits
    <2> QED BY <1>4, <2>1, <2>2, <2>4
  <1>8. RowsStand'
    BY <1>1, <1>7 DEF RowsStand
  <1>9. BegunMove
    BY <1>1, <1>4, BegunKept
  <1> QED BY <1>1, <1>2, <1>5, <1>6, <1>8, <1>9, WriteKeeps

\* A new row of an organization, under itself or under a mailbox of it; a draft
\* may go that it was made from.
LEMMA RowMade ==
  ASSUME AccessTypeOK, RowsStand, NEW y \in Ids, under[y] = None, NEW home \in Ids, Fits(y, home),
         NEW o \in Organizations, home = y \/ owner[home] = o,
         NEW gone \in SUBSET {i \in Ids : KindOf[i] = "draft" /\ under[i] # None},
         owner' = [i \in Ids |-> IF i = y THEN o ELSE IF i \in gone THEN None ELSE owner[i]],
         under' = [under EXCEPT ![y] = home]
  PROVE  RowTypes' /\ RowsStand' /\ RowsMove
  <1>1. owner \in [Ids -> Organizations \cup {None}] /\ under \in [Ids -> Ids \cup {None}] /\ owner[y] = None
        /\ home # None /\ o # None /\ y \notin gone
    BY AccessAssumption DEF AccessTypeOK
  <1>2. /\ \A i \in Ids : owner'[i] = IF i = y THEN o ELSE IF i \in gone THEN None ELSE owner[i]
        /\ \A i \in Ids : under'[i] = IF i = y THEN home ELSE under[i]
    BY <1>1
  <1>3. owner' \in [Ids -> Organizations \cup {None}] /\ under' \in [Ids -> Ids \cup {None}]
    BY <1>1
  <1>4. RowTypes'
    BY <1>1, <1>2, <1>3 DEF RowTypes, AccessTypeOK
  <1>5. RowsMove
    BY <1>1, <1>2 DEF RowsMove
  <1>6. ASSUME NEW i \in Ids, owner'[i] # None PROVE owner'[under'[i]] = owner'[i]
    <2>1. CASE i = y
      <3>1. home \notin gone
        BY <1>1 DEF Fits
      <3> QED BY <1>2, <2>1, <3>1
    <2>2. CASE i # y
      <3>1. i \notin gone /\ owner[i] # None /\ owner'[i] = owner[i] /\ under'[i] = under[i]
        BY <1>2, <1>6, <2>2
      <3>2. under[i] \in Ids /\ owner[under[i]] = owner[i] /\ Fits(i, under[i])
        BY <1>1, <3>1 DEF RowsStand, AccessTypeOK
      <3>3. under[i] # y /\ under[i] \notin gone
        BY <1>1, <3>1, <3>2 DEF Fits
      <3> QED BY <1>2, <3>1, <3>2, <3>3
    <2> QED BY <2>1, <2>2
  <1> QED BY <1>4, <1>5, <1>6 DEF RowsStand

\* The mailbox of what is made is the organization's.
LEMMA HomeFits ==
  ASSUME AccessIInv, NEW a \in Accounts, NEW x \in Ids, Writing(a, x, {"add", "spend"}), owner[x] # None,
         NEW y \in Unmade(request[a].route.makes),
         Home(request[a], x, y) # y => owner[Home(request[a], x, y)] # None
  PROVE  /\ y \in Ids /\ under[y] = None /\ Home(request[a], x, y) \in Ids /\ Fits(y, Home(request[a], x, y))
         /\ Home(request[a], x, y) = y \/ owner[Home(request[a], x, y)] = request[a].organization
         /\ Made(request[a], Home(request[a], x, y)) = request[a].organization
         /\ KindOf[y] # "flow"
  <1> DEFINE r == request[a]
             home == Home(r, x, y)
  <1>1. /\ r.organization # None /\ owner[x] = r.organization /\ KindOf[x] = r.route.on /\ under[x] # None
        /\ r.route.names # "none" /\ Fit(r.route) /\ r.route.does \in {"add", "spend"}
        /\ r.mailbox # None => KindOf[r.mailbox] = "mailbox" /\ under[r.mailbox] # None /\ r.mailbox \in Ids
                               /\ owner[r.mailbox] \in {r.organization, None}
    BY WrittenIs
  <1>2. /\ r.route.makes \in {"message", "sent", "draft", "entry"}
        /\ r.route.makes # "entry" => r.route.on \notin {"entry", "flow"}
    BY <1>1 DEF Fit, Shape
  <1>3. y \in Ids /\ KindOf[y] = r.route.makes /\ under[y] = None
    BY DEF Unmade
  <1>4. under[x] \in Ids /\ Fits(x, under[x]) /\ owner[under[x]] = owner[x]
    BY <1>1, RequestIs DEF AccessTypeOK, RowsStand
  <1>5. CASE r.mailbox # None
    <2>1. home = r.mailbox
      BY <1>2, <1>5 DEF Home
    <2>2. home # y /\ owner[home] = r.organization /\ KindOf[home] = "mailbox" /\ home \in Ids
      BY <1>1, <1>3, <1>5, <2>1
    <2> QED BY <1>2, <1>3, <2>2 DEF Fits, Made
  <1>6. CASE r.mailbox = None /\ r.route.makes # "entry"
    <2>1. home = under[x] /\ KindOf[under[x]] = "mailbox"
      BY <1>1, <1>2, <1>4, <1>6 DEF Home, Fits
    <2> QED BY <1>1, <1>2, <1>3, <1>4, <2>1 DEF Fits, Made
  <1>7. CASE r.mailbox = None /\ r.route.makes = "entry"
    <2>1. CASE KindOf[x] = "entry" /\ under[x] # x
      <3>1. home = under[x] /\ KindOf[under[x]] = "mailbox"
        BY <1>4, <1>7, <2>1 DEF Home, Fits
      <3> QED BY <1>1, <1>2, <1>3, <1>4, <1>7, <3>1 DEF Fits, Made
    <2>2. CASE ~(KindOf[x] = "entry" /\ under[x] # x)
      <3>1. home = y
        BY <1>7, <2>2 DEF Home
      <3> QED BY <1>3, <1>7, <3>1 DEF Fits, Made
    <2> QED BY <2>1, <2>2
  <1> QED BY <1>5, <1>6, <1>7

LEMMA AddKeeps ==
  ASSUME AccessIInv, NEW a \in Accounts, NEW x \in Ids, Add(a, x)
  PROVE  Keeps(a)
  <1> DEFINE r == request[a]
  <1>1. Writing(a, x, {"add", "spend"}) /\ owner[x] # None /\ UNCHANGED authority /\ UNCHANGED begun
    BY DEF Add
  <1>2. PICK y \in Unmade(r.route.makes), spent \in IF r.route.does = "spend" THEN BOOLEAN ELSE {FALSE} :
          /\ Home(r, x, y) # y => owner[Home(r, x, y)] # None
          /\ owner' = [i \in Ids |-> IF i = y THEN Made(r, Home(r, x, y))
                                     ELSE IF i = x /\ spent THEN None ELSE owner[i]]
          /\ under' = [under EXCEPT ![y] = Home(r, x, y)]
          /\ Wrote(a, {owner[x], owner'[y]}, r.todo \ {x})
    BY DEF Add
  <1> DEFINE home == Home(r, x, y)
             gone == IF spent THEN {x} ELSE {}
  <1>3. /\ y \in Ids /\ under[y] = None /\ home \in Ids /\ Fits(y, home)
        /\ home = y \/ owner[home] = r.organization
        /\ Made(r, home) = r.organization /\ KindOf[y] # "flow"
    BY <1>1, <1>2, HomeFits
  <1>4. /\ r.pc = "act" /\ r.organization \in Organizations /\ r.organization # None
        /\ owner[x] = r.organization /\ under[x] # None
        /\ r.route.does = "spend" => KindOf[x] = "draft"
    BY <1>1, WrittenIs DEF Fit, Shape
  <1>5. gone \in SUBSET {i \in Ids : KindOf[i] = "draft" /\ under[i] # None}
    BY <1>4
  <1>6. owner' = [i \in Ids |-> IF i = y THEN r.organization ELSE IF i \in gone THEN None ELSE owner[i]]
    BY <1>2, <1>3
  <1>7. under' = [under EXCEPT ![y] = home]
    BY <1>2
  <1> HIDE DEF home, gone
  <1>8. RowTypes' /\ RowsStand' /\ RowsMove
    BY <1>3, <1>4, <1>5, <1>6, <1>7, RequestIs, RowMade
  <1>9. {owner[x], owner'[y]} \in SUBSET {r.organization}
    BY <1>3, <1>4, <1>6
  <1>10. BegunMove
    BY <1>1, <1>3, <1>6, BegunKept
  <1> QED BY <1>1, <1>2, <1>4, <1>8, <1>9, <1>10, WriteKeeps

LEMMA MakeKeeps ==
  ASSUME AccessIInv, NEW a \in Accounts, Make(a)
  PROVE  Keeps(a)
  <1> DEFINE r == request[a]
  <1>1. r.pc = "act" /\ r.route.names = "none" /\ r.route.does = "add" /\ UNCHANGED authority
    BY DEF Make
  <1>2. PICK y \in Unmade(r.route.makes) :
          LET home == IF r.mailbox = None THEN y ELSE r.mailbox IN
          /\ home # y => owner[home] # None
          /\ owner' = [owner EXCEPT ![y] = r.organization]
          /\ under' = [under EXCEPT ![y] = home]
          /\ Wrote(a, {owner'[y]}, {})
          /\ begun' = IF r.route.makes = "flow" /\ Administered(r) THEN begun \cup {<<y, r.organization>>} ELSE begun
    BY DEF Make
  <1> DEFINE home == IF r.mailbox = None THEN y ELSE r.mailbox
  <1>3. /\ r.organization \in Organizations /\ r.organization # None /\ Fit(r.route)
        /\ r.mailbox # None => /\ r.route.beside /\ KindOf[r.mailbox] = "mailbox" /\ under[r.mailbox] # None
                               /\ r.mailbox \in Ids /\ owner[r.mailbox] \in {r.organization, None}
    BY <1>1, RequestIs, AccessAssumption DEF Asks, Names, Owned
  <1>4. r.route.makes \in {"flow", "entry"} /\ (r.mailbox # None => r.route.makes = "entry")
    BY <1>1, <1>3 DEF Fit, Shape
  <1>5. y \in Ids /\ KindOf[y] = r.route.makes /\ under[y] = None
    BY DEF Unmade
  <1>6. home \in Ids /\ Fits(y, home) /\ (home = y \/ owner[home] = r.organization)
    BY <1>2, <1>3, <1>4, <1>5 DEF Fits
  <1>7. owner \in [Ids -> Organizations \cup {None}]
    BY RequestIs DEF AccessTypeOK
  <1> DEFINE gone == {i \in Ids : FALSE}
  <1>8. /\ owner' = [i \in Ids |-> IF i = y THEN r.organization ELSE IF i \in gone THEN None ELSE owner[i]]
        /\ gone \in SUBSET {i \in Ids : KindOf[i] = "draft" /\ under[i] # None}
    BY <1>2, <1>7
  <1>9. under' = [under EXCEPT ![y] = home] /\ Wrote(a, {owner'[y]}, {})
    BY <1>2
  <1>10. {owner'[y]} \in SUBSET {r.organization}
    BY <1>5, <1>8
  <1> HIDE DEF home, gone
  <1>11. RowTypes' /\ RowsStand' /\ RowsMove
    BY <1>3, <1>5, <1>6, <1>8, <1>9, RequestIs, RowMade
  <1>12. r.route.makes = "flow" => Administered(r)
    <2>1. r.role \in r.held \cap Supported /\ Permits(r.role, r.route.needs)
      BY <1>1, RequestIs DEF Asks, Allowed
    <2> QED BY <1>3, <2>1 DEF Fit, Reserved, Permits, Supported, Administered
  <1>13. BegunMove
    <2>1. begun \subseteq Ids \X Organizations /\ BegunStand
      BY DEF AccessIInv, AccessTypeOK
    <2>2. begun \subseteq begun' /\ begun' \subseteq Ids \X Organizations
      BY <1>2, <1>3, <1>5, <2>1
    <2>3. \A i \in Ids : i # y => owner'[i] = owner[i]
      BY <1>2, <1>7
    <2>4. owner'[y] = r.organization
      BY <1>2, <1>5, <1>7
    <2>5. KindOf[y] = "flow" => <<y, r.organization>> \in begun'
      BY <1>2, <1>5, <1>12
    <2> QED BY <2>1, <2>2, <2>3, <2>4, <2>5 DEF BegunMove, BegunStand
  <1> QED BY <1>1, <1>9, <1>10, <1>11, <1>13, WriteKeeps

\* A mailbox of an organization, made for an item by no request's own ID.
LEMMA MailboxMade ==
  ASSUME AccessIInv, NEW o \in Organizations, NEW y \in Unmade("mailbox"), MakeMailbox(o, y), UNCHANGED begun
  PROVE  RowTypes' /\ RowsStand' /\ RowsMove /\ BegunMove
  <1>1. /\ y \in Ids /\ KindOf[y] = "mailbox" /\ under[y] = None /\ AccessTypeOK /\ RowsStand
        /\ owner \in [Ids -> Organizations \cup {None}]
    BY RequestIs DEF Unmade, AccessIInv, AccessTypeOK
  <1> DEFINE gone == {i \in Ids : FALSE}
  <1>2. /\ owner' = [i \in Ids |-> IF i = y THEN o ELSE IF i \in gone THEN None ELSE owner[i]]
        /\ gone \in SUBSET {i \in Ids : KindOf[i] = "draft" /\ under[i] # None}
        /\ under' = [under EXCEPT ![y] = y]
    BY <1>1 DEF MakeMailbox
  <1>3. Fits(y, y)
    BY <1>1 DEF Fits
  <1>4. \A i \in Ids : owner'[i] # None => owner'[i] = owner[i] \/ KindOf[i] # "flow"
    BY <1>1, <1>2
  <1> HIDE DEF gone
  <1>5. RowTypes' /\ RowsStand' /\ RowsMove
    BY <1>1, <1>2, <1>3, RowMade
  <1> QED BY <1>4, <1>5, BegunKept

\* A request that reconciles writes mailboxes of its organization, and goes on.
LEMMA ReconcileKeeps ==
  ASSUME AccessIInv, NEW a \in Accounts, Adopt(a) \/ Align(a)
  PROVE  Keeps(a)
  <1> DEFINE r == request[a]
  <1>1. /\ r.pc = "act" /\ r.status = "none" /\ UNCHANGED <<authority, begun>> /\ r \in RequestRecords
        /\ request \in [Accounts -> RequestRecords] /\ r.organization \in Organizations
    BY RequestIs DEF Adopt, Align, Reconciling, Asks, Names, RequestRecords
  <1>2. ASSUME NEW T \in SUBSET {r.organization}, request' = [request EXCEPT ![a].touched = @ \cup T]
        PROVE  request' = [request EXCEPT ![a] = [r EXCEPT !.touched = r.touched \cup T, !.todo = r.todo,
                                                     !.pc = "act", !.status = "none"]]
    BY <1>1, <1>2 DEF RequestRecords
  <1>3. PICK T \in SUBSET {r.organization} : request' = [request EXCEPT ![a].touched = @ \cup T]
    <2>1. CASE Adopt(a)
      BY <2>1 DEF Adopt
    <2>2. CASE Align(a)
      <3>1. PICK x \in Listed("mailbox", r.organization) :
              request' = [request EXCEPT ![a].touched = @ \cup {owner[x]}]
        BY <2>2 DEF Align
      <3>2. {owner[x]} \in SUBSET {r.organization}
        BY DEF Listed
      <3> QED BY <3>1, <3>2
    <2> QED BY <2>1, <2>2
  <1>4. RowTypes' /\ RowsStand' /\ RowsMove /\ BegunMove
    <2>1. CASE Adopt(a)
      BY <1>1, <2>1, MailboxMade DEF Adopt
    <2>2. CASE Align(a)
      <3>1. UNCHANGED rows
        BY <2>2 DEF Align
      <3> QED BY <1>1, <3>1, RequestIs, RowsKept, BegunKept DEF AccessTypeOK, RowTypes, rows
    <2> QED BY <2>1, <2>2
  <1>5. r.todo \in SUBSET r.todo
    OBVIOUS
  <1> QED BY <1>1, <1>2, <1>3, <1>4, <1>5, MovesOn

LEMMA ReturnKeeps ==
  ASSUME AccessIInv, NEW a \in Accounts, Return(a)
  PROVE  Keeps(a)
  <1> DEFINE r == request[a]
             read == (IF r.route.names = "one" THEN r.todo ELSE {}) \cup Listed("mailbox", r.organization)
             T == {owner[i] : i \in read}
  <1>1. /\ r.pc = "act" /\ UNCHANGED <<authority, rows, begun>> /\ r \in RequestRecords
        /\ request \in [Accounts -> RequestRecords] /\ Owned(r)
        /\ r.route # None /\ Fit(r.route) /\ r.route.does \in {"reconcile", "declare"}
        /\ r.route.does = "declare" => \A i \in r.todo : owner[i] # None
        /\ request' = [request EXCEPT ![a].pc = "done", ![a].status = "ok", ![a].touched = @ \cup T]
    BY RequestIs DEF Return, Asks, Names
  <1>2. r.route.names = "one" => r.route.does = "declare"
    BY <1>1 DEF Fit, Shape
  <1>3. T \in SUBSET {r.organization}
    BY <1>1, <1>2 DEF Listed, Owned
  <1> HIDE DEF T
  <1>4. request' = [request EXCEPT ![a] = [r EXCEPT !.touched = r.touched \cup T, !.todo = r.todo,
                                              !.pc = "done", !.status = "ok"]]
    BY <1>1 DEF RequestRecords
  <1>5. RowTypes' /\ RowsStand' /\ RowsMove /\ BegunMove
    BY <1>1, RequestIs, RowsKept, BegunKept DEF AccessTypeOK, RowTypes, rows
  <1>6. r.todo \in SUBSET r.todo
    OBVIOUS
  <1>7. r.pc = "act" /\ UNCHANGED authority /\ ("done" = "done" <=> "ok" # "none")
    BY <1>1
  <1> HIDE DEF read
  <1> QED BY <1>3, <1>4, <1>5, <1>6, <1>7, MovesOn

-----------------------------------------------------------------------------
(* Access: every step. *)

LEMMA StepKeeps ==
  ASSUME AccessIInv, NEW a \in Accounts, Step(a)
  PROVE  Keeps(a)
  <1>1. CASE Arrive(a)
    BY <1>1, ArriveKeeps
  <1>2. CASE Unverifiable(a)
    BY <1>2, UnverifiableKeeps
  <1>3. CASE Authorize(a)
    BY <1>3, AuthorizeKeeps
  <1>4. CASE Handle(a)
    BY <1>4, HandleKeeps
  <1>5. CASE RefuseByRule(a) \/ Finish(a) \/ Leave(a)
    BY <1>5, EndsHold
  <1>6. CASE Make(a)
    BY <1>6, MakeKeeps
  <1>7. CASE Hand(a)
    BY <1>7, HandKeeps
  <1>8. ASSUME NEW x \in Ids, Miss(a, x) \/ Change(a, x) \/ Remove(a, x) \/ Add(a, x)
        PROVE  Keeps(a)
    BY <1>8, MissKeeps, ChangeKeeps, RemoveKeeps, AddKeeps
  <1>9. CASE SetDeclared(a)
    BY <1>9, SetDeclaredKeeps
  <1>10. CASE Adopt(a) \/ Align(a)
    BY <1>10, ReconcileKeeps
  <1>11. CASE Return(a)
    BY <1>11, ReturnKeeps
  <1> QED BY <1>1, <1>2, <1>3, <1>4, <1>5, <1>6, <1>7, <1>8, <1>9, <1>10, <1>11 DEF Step

\* What a request is beside the step of another.
LEMMA OtherStands ==
  ASSUME AccessIInv, NEW a \in Accounts, Keeps(a), NEW b \in Accounts, b # a
  PROVE  Asks(b)'
  <1>1. request'[b] = request[b] /\ UNCHANGED authority /\ RowsMove /\ BegunMove /\ AccessTypeOK /\ Asks(b)
        /\ request[b] \in RequestRecords
    BY RequestIs DEF Keeps
  <1>2. request'[b] = [request[b] EXCEPT !.held = request[b].held]
    BY <1>1 DEF RequestRecords
  <1>3. request[b].pc = "idle" => request[b].held = {}
    BY <1>1 DEF Asks, Names, NoRequest
  <1>4. request[b].pc \in {"authorize", "handle", "act", "watch"} =>
          Standing(roles', signed', b, request[b].organization) \in request[b].held
    BY <1>1 DEF Asks, Allowed, authority
  <1> QED BY <1>1, <1>2, <1>3, <1>4, AsksStands

\* The authority moved on: whatever each account becomes is added to what it was.
LEMMA WitnessedKeeps ==
  ASSUME AccessIInv, UNCHANGED <<rows, begun>>, roles' \in [Accounts -> [Organizations -> Roles]], signed' \subseteq Accounts,
         request' = Witnessed(roles', signed')
  PROVE  AccessIInv'
  <1>1. AccessTypeOK /\ RowsStand /\ RowsStand' /\ RowsMove /\ BegunMove
    BY RowsKept, BegunKept DEF AccessIInv, rows
  <1> DEFINE h(a) == IF request[a].pc \notin {"idle", "done"}
                       THEN request[a].held \cup {Standing(roles', signed', a, request[a].organization)}
                       ELSE request[a].held
  <1>2. ASSUME NEW a \in Accounts
        PROVE  /\ request'[a] = [request[a] EXCEPT !.held = h(a)]
               /\ request'[a] \in RequestRecords /\ request'[a].pc = request[a].pc
               /\ request'[a].status = request[a].status
    <2>1. request[a] \in RequestRecords /\ Asks(a)
      BY RequestIs
    <2>2. request[a].pc \notin {"idle", "done"} => request[a].organization \in Organizations
      BY <2>1, RequestIs DEF Asks, Names, RequestRecords
    <2>3. request[a].pc \notin {"idle", "done"} =>
            Standing(roles', signed', a, request[a].organization) \in Roles \cup {"out"}
      BY <2>2 DEF Standing
    <2>4. h(a) \in SUBSET (Roles \cup {"out"})
      BY <2>1, <2>3 DEF RequestRecords
    <2>5. request'[a] = [request[a] EXCEPT !.held = h(a)]
      BY <2>1 DEF Witnessed, RequestRecords
    <2> HIDE DEF h
    <2> QED BY <2>1, <2>4, <2>5 DEF RequestRecords
  <1>3. \A a \in Accounts : request'[a] \in RequestRecords /\ request'[a].pc = request[a].pc
                            /\ request'[a].status = request[a].status
    BY <1>2
  <1>4. request' \in [Accounts -> RequestRecords]
    BY <1>3 DEF Witnessed
  <1>5. AccessTypeOK'
    BY <1>1, <1>3, <1>4 DEF AccessTypeOK, BegunMove, rows
  <1>6. ASSUME NEW a \in Accounts PROVE Asks(a)'
    <2>1. Asks(a) /\ request[a] \in RequestRecords
      BY RequestIs
    <2>2. request[a].pc = "idle" => h(a) = {}
      BY <2>1 DEF Asks, Names, NoRequest
    <2>3. request[a].held \subseteq h(a)
      OBVIOUS
    <2>4. request[a].pc \in {"authorize", "handle", "act", "watch"} =>
            Standing(roles', signed', a, request[a].organization) \in h(a)
      OBVIOUS
    <2> HIDE DEF h
    <2> QED BY <1>1, <1>2, <2>1, <2>2, <2>3, <2>4, AsksStands
  <1> QED BY <1>1, <1>5, <1>6 DEF AccessIInv, BegunMove

\* The browser returns to a flow: a mailbox is made beside every request.
LEMMA RedirectedKeeps ==
  ASSUME AccessIInv, NEW e \in Ids, Redirected(e)
  PROVE  AccessIInv'
  <1>1. owner[e] \in Organizations /\ UNCHANGED <<authority, request, begun>> /\ AccessTypeOK
    BY DEF Redirected, AccessIInv, AccessTypeOK
  <1>2. RowTypes' /\ RowsStand' /\ RowsMove /\ BegunMove
    BY <1>1, MailboxMade DEF Redirected
  <1>3. AccessTypeOK'
    BY <1>1, <1>2 DEF AccessTypeOK, RowTypes, BegunMove, authority
  <1>4. ASSUME NEW a \in Accounts PROVE Asks(a)'
    <2>1. /\ Asks(a) /\ request[a] \in RequestRecords
      BY RequestIs
    <2>2. request'[a] = [request[a] EXCEPT !.held = request[a].held]
      BY <1>1, <2>1 DEF RequestRecords
    <2>3. request[a].pc = "idle" => request[a].held = {}
      BY <2>1 DEF Asks, Names, NoRequest
    <2>4. request[a].pc \in {"authorize", "handle", "act", "watch"} =>
            Standing(roles', signed', a, request[a].organization) \in request[a].held
      BY <1>1, <2>1 DEF Asks, Allowed, authority
    <2> QED BY <1>1, <1>2, <2>1, <2>2, <2>3, <2>4, AsksStands
  <1> QED BY <1>2, <1>3, <1>4 DEF AccessIInv, BegunMove

LEMMA StepAccessIInv == AccessIInv /\ [AccessNext]_accessVars => AccessIInv'
  <1> SUFFICES ASSUME AccessIInv, [AccessNext]_accessVars PROVE AccessIInv'
    OBVIOUS
  <1>1. ASSUME NEW a \in Accounts, Step(a) PROVE AccessIInv'
    BY <1>1, StepKeeps, OtherStands DEF Keeps, AccessIInv, BegunMove
  <1>2. ASSUME NEW a \in Sessions, SignInOrOut(a) PROVE AccessIInv'
    <2>1. roles' = roles /\ signed' \subseteq Accounts /\ UNCHANGED <<rows, begun>>
      BY <1>2, AccessAssumption DEF SignInOrOut, AccessIInv, AccessTypeOK
    <2>2. request' = Witnessed(roles', signed')
      BY <1>2, <2>1 DEF SignInOrOut
    <2> QED BY <2>1, <2>2, WitnessedKeeps DEF AccessIInv, AccessTypeOK
  <1>3. ASSUME NEW given \in Offered, Give(given[1], given[2], given[3]) PROVE AccessIInv'
    <2>1. given[1] \in Accounts /\ given[2] \in Organizations /\ given[3] \in Roles
      BY AccessAssumption
    <2>2. /\ roles' \in [Accounts -> [Organizations -> Roles]] /\ signed' = signed /\ signed \subseteq Accounts
          /\ UNCHANGED <<rows, begun>>
      BY <1>3, <2>1 DEF Give, AccessIInv, AccessTypeOK
    <2>3. request' = Witnessed(roles', signed')
      BY <1>3, <2>2 DEF Give
    <2> QED BY <2>2, <2>3, WitnessedKeeps
  <1>4. CASE UNCHANGED accessVars
    <2>1. RowsMove /\ AccessTypeOK' /\ RowsStand' /\ BegunStand'
      BY <1>4, RowsKept DEF accessVars, rows, AccessIInv, AccessTypeOK, BegunStand
    <2>2. \A a \in Accounts : Asks(a)'
      BY <1>4 DEF accessVars, AccessIInv, Asks, Names, Allowed, Owned, RefusedTruly, Consents
    <2> QED BY <2>1, <2>2 DEF AccessIInv
  <1>5. ASSUME NEW e \in Ids, Redirected(e) PROVE AccessIInv'
    BY <1>5, RedirectedKeeps
  <1> QED BY <1>1, <1>2, <1>3, <1>4, <1>5 DEF AccessNext

LEMMA AlwaysAccessIInv == AccessSpec => []AccessIInv
  BY InitAccessIInv, StepAccessIInv, PTL DEF AccessSpec

-----------------------------------------------------------------------------
(* Access: theorems. *)

\* The rows, the authority and the requests of the HTTP API have their types:
\* a row that is made is under a mailbox, under itself where it is one or of the
\* organization itself, and a request is answered exactly when it is done.
THEOREM AccessTypeCorrect == AccessSpec => []AccessTypeOK
  <1>1. AccessIInv => AccessTypeOK
    BY DEF AccessIInv
  <1> QED BY <1>1, AlwaysAccessIInv, PTL

\* auth.rs and every handler: for any accounts, organizations, rows and requests
\* at once, what a request reads, writes and makes is of the organization it
\* names, and a row is of its mailbox's organization.
THEOREM EachActsForItsOwn == AccessSpec => []ActsForItsOrganization
  <1>1. AccessIInv => ActsForItsOrganization
    BY DEF AccessIInv, Asks, Owned, RowsStand, ActsForItsOrganization
  <1> QED BY <1>1, AlwaysAccessIInv, PTL

\* require_auth and require_role: whatever the authority says and takes back
\* meanwhile, what is answered, written or declared was asked by an account that
\* held a role for it, and what an account declares without an administrator's
\* role is the mailbox of a flow one of its organization's administrators began.
THEOREM NothingIsUnauthorized == AccessSpec => []AuthorityAllowedIt
  <1>1. ASSUME AccessIInv, NEW a \in Accounts,
               request[a].status = "ok" \/ request[a].touched # {} \/ request[a].declared
        PROVE  /\ request[a].held \cap Supported # {}
               /\ request[a].route.handler \in Administrative => Administered(request[a])
               /\ request[a].declared =>
                    Administered(request[a]) \/ <<request[a].named, request[a].organization>> \in begun
    <2>1. /\ request[a].role \in request[a].held \cap Supported /\ Permits(request[a].role, request[a].route.needs)
          /\ Fit(request[a].route) /\ Consents(request[a])
      BY <1>1, RequestIs DEF Asks, Allowed, Names
    <2>2. request[a].route.handler \in Administrative => request[a].route.needs = "admin"
      BY <2>1 DEF Fit, Reserved
    <2>3. request[a].route.needs = "admin" => Administered(request[a])
      BY <2>1 DEF Permits, Supported, Administered
    <2> QED BY <2>1, <2>2, <2>3 DEF Consents
  <1>2. AccessIInv => AuthorityAllowedIt
    BY <1>1 DEF AuthorityAllowedIt
  <1> QED BY <1>2, AlwaysAccessIInv, PTL

\* The API's refusals: a 401, a 403 and a 404 say what was so while the request
\* was under way.
THEOREM RefusedForACause == AccessSpec => []RefusalsAreTrue
  <1>1. AccessIInv => RefusalsAreTrue
    BY DEF AccessIInv, Asks, RefusedTruly, RefusalsAreTrue
  <1> QED BY <1>1, AlwaysAccessIInv, PTL

=============================================================================
