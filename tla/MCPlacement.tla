----------------------------- MODULE MCPlacement ----------------------------
(***************************************************************************)
(* Small instances of Placement. The hash functions prefer one pod for     *)
(* everything, spread the targets, or tie everywhere.                      *)
(***************************************************************************)
EXTENDS Placement

Favourite == [t \in Names |-> [p \in PodIdx |-> IF p = 1 THEN 2 ELSE p]]
Spread == [t \in Names |-> [p \in PodIdx |-> (t + 2 * p) % 3]]
Ties == [t \in Names |-> [p \in PodIdx |-> 0]]
MCScores == {Favourite, Spread, Ties}
=============================================================================
