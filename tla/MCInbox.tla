------------------------------ MODULE MCInbox ------------------------------
(* Two messages of a conversation are stored and the reply that names only the *)
(* second arrives; another mailbox holds one that names the first's Message-ID. *)
EXTENDS Inbox

MCMailboxOf == <<"A", "A", "B", "A">>
MCSenderOf == <<"s", "u", "s", "u">>
MCIdentitiesOf == <<{"i"}, {"i", "j"}, {"i"}, {"j", "k"}>>
MCCovers == [e \in Entries |-> IF e = "s" THEN {"s"} ELSE {"s", "u"}]

MCBodies == {[tag |-> "t", mailbox |-> Unset, sender |-> "u"], [tag |-> "u", mailbox |-> Unset, sender |-> "u"],
             [tag |-> "u", mailbox |-> "A", sender |-> Unset]}

MCPlain ==
  [mailbox |-> Unset, tag |-> Unset, sender |-> Unset, untagged |-> FALSE, noted |-> FALSE,
   include_blocked |-> FALSE, include_snoozed |-> FALSE, include_muted |-> FALSE,
   snoozed |-> FALSE, muted |-> FALSE, answered |-> FALSE, unanswered |-> FALSE,
   oldest_first |-> FALSE]
MCFilters ==
  {MCPlain, [MCPlain EXCEPT !.mailbox = "A", !.oldest_first = TRUE],
   [MCPlain EXCEPT !.include_blocked = TRUE, !.include_snoozed = TRUE, !.include_muted = TRUE],
   [MCPlain EXCEPT !.muted = TRUE], [MCPlain EXCEPT !.snoozed = TRUE],
   [MCPlain EXCEPT !.unanswered = TRUE],
   [MCPlain EXCEPT !.tag = "t"], [MCPlain EXCEPT !.tag = "t", !.untagged = TRUE]}

MCRetags == {[add |-> {"t"}, remove |-> {}], [add |-> {}, remove |-> {"t"}]}
MCFirstRules == [r \in RuleIds |-> IF r = 1 THEN Rule([tag |-> "t", mailbox |-> Unset, sender |-> "u"]) ELSE NoRule]
MCFirstViews == [v \in ViewNames |-> IF v = "inbox" THEN View([MCPlain EXCEPT !.sender = "u"]) ELSE NoView]
MCSymmetry == Permutations(Operators)
=============================================================================
