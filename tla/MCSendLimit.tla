---------------------------- MODULE MCSendLimit ----------------------------
(* A small instance of SendLimit: a limit of one send, a warm-up whose last *)
(* step to its ceiling is partial, and one whose growth reaches its ceiling *)
(* exactly and passes the largest count a day later.                        *)
EXTENDS SendLimit, TLC

Limit(per_day, grow_by, up_to) == [per_day |-> per_day, grow_by |-> grow_by, up_to |-> up_to]

MCSettable ==
  {Limit(1, 0, 0), Limit(1, 2, 2), Limit(1, 2, 3)}

Symmetry == Permutations(Claims \ Clicks)
=============================================================================
