----------------------------- MODULE VoteWeights -----------------------------
(***************************************************************************)
(* What the vote-graph promises (spec.md sections 3 and 8): after any      *)
(* sequence of inserts, the weight recorded for a block is the sum of the  *)
(* votes cast on blocks whose chain contains it.  The state is that weight *)
(* for every block at or above the graph's base; an insert of vote w on   *)
(* hash h adds w to h and to every ancestor of h down to the base.        *)
(***************************************************************************)
EXTENDS Naturals, Chain

CONSTANTS
    BaseHash,       \* the base of the graph
    VoteValue       \* the vote values an insert may carry

\* The blocks whose weight the graph can report.
Tracked == {b \in Block : IsEqualOrDescendentOf(BaseHash, b)}

VARIABLE weight

Init == weight = [b \in Tracked |-> 0]

\* A vote of w on h counts for every block on h's chain down to the base.
Insert(h, w) ==
    weight' = [b \in Tracked |->
                 IF IsEqualOrDescendentOf(b, h) THEN weight[b] + w ELSE weight[b]]

Next == \E h \in Tracked, w \in VoteValue : Insert(h, w)

Spec == Init /\ [][Next]_weight
=============================================================================
