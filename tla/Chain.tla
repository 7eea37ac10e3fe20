-------------------------------- MODULE Chain --------------------------------
(***************************************************************************)
(* The block tree the vote-graph and the voting round consult: the chain  *)
(* oracle of the tests in src/src/vote_graph.rs (DummyChain), generalised *)
(* to a fixed tree given by a parent function.                            *)
(***************************************************************************)
EXTENDS Naturals, Sequences

CONSTANTS
    Block,          \* the hashes of all blocks of the tree
    Parent,         \* Parent[b]: the parent hash of b, NullHash for genesis
    GenesisNumber,  \* the number of the block whose parent is NullHash
    NullHash        \* DummyChain's NULL_HASH, not a block

ASSUME /\ NullHash \notin Block
       /\ Parent \in [Block -> Block \cup {NullHash}]
       /\ GenesisNumber \in Nat

\* DummyChain::push_blocks: a block's number is its parent's plus one.
RECURSIVE BlockNumber(_)
BlockNumber(b) ==
    IF Parent[b] = NullHash THEN GenesisNumber ELSE BlockNumber(Parent[b]) + 1

\* The strict ancestors of b.
RECURSIVE AncestorsOf(_)
AncestorsOf(b) ==
    IF Parent[b] = NullHash THEN {} ELSE {Parent[b]} \cup AncestorsOf(Parent[b])

\* The ancestor sets, computed once per model.
AncestorTable == [b \in Block |-> AncestorsOf(b)]
NumberTable == [b \in Block |-> BlockNumber(b)]

\* Environment::is_equal_or_descendent_of(base, b).
IsEqualOrDescendentOf(base, b) == base = b \/ base \in AncestorTable[b]

\* DummyChain::ancestry returns Some only for strict descendents of base.
HasAncestry(base, b) == base \in AncestorTable[b]

\* DummyChain::ancestry(base, b): the hashes from b's parent down to base,
\* base included.  Defined where HasAncestry(base, b).
RECURSIVE Ancestry(_, _)
Ancestry(base, b) ==
    IF Parent[b] = base THEN <<base>>
    ELSE <<Parent[b]>> \o Ancestry(base, Parent[b])
=============================================================================
