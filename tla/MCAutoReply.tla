----------------------------- MODULE MCAutoReply -----------------------------
(* Two messages of one sender; a reply with an open end, one with a short      *)
(* window, and two that are refused.                                           *)
EXTENDS AutoReply, TLC

CONSTANTS first, second, writer

MCSenderOf == [m \in {first, second} |-> writer]

Row(starts, ends, span) == [starts |-> starts, ends |-> ends, span |-> span]
Alike == Permutations({first, second})

MCAsked == {Row(1, 3, 2), Row(1, 2, 1), Row(2, 2, 1), Row(1, 3, 0)}
=============================================================================
