------------------------------ MODULE MCAccess ------------------------------
(* An account that asks anything and an administrator that deletes a mailbox *)
(* or begins a flow meanwhile.                                               *)
EXTENDS Access

MCIds == {"m1", "x1", "s1", "d1", "e1", "m2", "d2", "e2", "new m", "new s", "new d", "new e", "new f"}

MCKindOf ==
  [i \in MCIds |-> CASE i \in {"m1", "m2", "new m"} -> "mailbox"
                     [] i = "x1" -> "message"
                     [] i \in {"s1", "new s"} -> "sent"
                     [] i \in {"d1", "d2", "new d"} -> "draft"
                     [] i = "new f" -> "flow"
                     [] OTHER -> "entry"]

MCFirstOwner ==
  [i \in MCIds |-> CASE i \in {"m1", "x1", "s1", "d1", "e1"} -> "o1"
                     [] i \in {"m2", "d2", "e2"} -> "o2"
                     [] OTHER -> None]

MCFirstUnder ==
  [i \in MCIds |-> CASE i \in {"x1", "s1", "d1", "e1"} -> "m1"
                     [] i = "d2" -> "m2"
                     [] i \in {"m1", "m2", "e2"} -> i
                     [] OTHER -> None]

\* The first account owns one of the organizations; the authority says of it
\* in the other what the API knows no role for.  The second administers the first.
MCFirstRoles ==
  {[a \in Accounts |-> [o \in Organizations |->
      CASE a = "a" -> IF o = own THEN "owner" ELSE IF o = "o1" THEN "viewer" ELSE "none"
        [] OTHER -> IF o = "o1" THEN "admin" ELSE "none"]] : own \in Organizations}

MCOffered == {<<"a", "o1", "member">>}

\* One handler stands for those alike but for their name.
Alike == {[r EXCEPT !.handler = "any"] : r \in Routes}

Representatives == {(CHOOSE r \in Routes : [r EXCEPT !.handler = "any"] = alike).handler : alike \in Alike}

MCMayAsk ==
  [a \in Accounts |-> IF a = "a" THEN Representatives \cup Administrative ELSE {"delete_mailbox", "start_gmail_oauth"}]
=============================================================================
