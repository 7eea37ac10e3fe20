------------------------------ MODULE VoteGraph ------------------------------
(***************************************************************************)
(* The vote-graph of src/src/vote_graph.rs: a sparse tree of vote-nodes   *)
(* over the block tree, each keeping the hashes on its edge down to the   *)
(* nearest vote-node below it ("ancestors", parent first, ending with that *)
(* vote-node), its child vote-nodes ("descendents") and the cumulative    *)
(* vote of every vote cast on a chain through it.  An insert is one       *)
(* synchronous call (&mut self, no await): one atomic step.               *)
(***************************************************************************)
EXTENDS Naturals, Sequences, FiniteSets, FiniteSetsExt, Chain

CONSTANTS
    BaseHash,       \* base_hash passed to VoteGraph::new
    VoteValue,      \* the vote values an insert may carry (V = Nat here)
    MaxInserts,     \* bound on the number of inserts of a behaviour
    NumberSkew      \* how far the number an insert carries may be off the chain's

VARIABLES
    entries,        \* HashMap<H, Entry>: a function on the tracked hashes
    heads,          \* HashSet<H>
    inserts,        \* number of inserts done so far (bound only)
    panicked        \* an unwrap or expect of insert has failed

vars == <<entries, heads, inserts, panicked>>

\* Hashes an insert may carry: Round only inserts blocks at or above its
\* base (voting_round.rs filters the others out before importing).  The
\* base is never removed and ends every such ancestry, so on this fixed
\* chain append's panics (AppendPanics) are out of reach.
Insertable == {b \in Block : IsEqualOrDescendentOf(BaseHash, b)}

\* The numbers an insert of h may carry: the caller passes the message's
\* target_number, which no code checks against the chain.
ClaimedNumbers(h) == {BlockNumber(h) + s : s \in NumberSkew}

Entry == [number : Nat, ancestors : Seq(Block),
          descendents : SUBSET Block, cumulative_vote : Nat]

-----------------------------------------------------------------------------
(* Entry::in_direct_ancestry: "none" when the walk must go further back    *)
(* (number too high, or offset past the edge), otherwise whether the hash  *)
(* on e's edge at that height is h.                                        *)
InDirectAncestry(e, h, n) ==
    IF n >= e.number THEN "none"
    ELSE LET offset == e.number - n - 1
         IN  IF offset >= Len(e.ancestors) THEN "none"
             ELSE IF e.ancestors[offset + 1] = h THEN "true" ELSE "false"

\* Entry::ancestor_node: the last hash of the edge, if any.
HasAncestorNode(e) == e.ancestors # <<>>
AncestorNode(e) == e.ancestors[Len(e.ancestors)]

\* VoteGraph::find_containing_nodes, for a hash not yet tracked: from every
\* head walk back through the ancestor nodes while in_direct_ancestry says
\* "none"; a node answering "true" contains h.  The visited set of the code
\* only stops walks that an earlier head already made, so the result is
\* the union of the walks.
RECURSIVE WalkBack(_, _, _, _)
WalkBack(ents, x, h, n) ==
    LET answer == InDirectAncestry(ents[x], h, n)
    IN  IF answer = "true" THEN {x}
        ELSE IF answer = "none" /\ HasAncestorNode(ents[x])
             THEN WalkBack(ents, AncestorNode(ents[x]), h, n)
             ELSE {}

FindContainingNodes(ents, hds, h, n) ==
    UNION {WalkBack(ents, x, h, n) : x \in hds \cap DOMAIN ents}

\* Mutant: the new vote-node does not inherit its descendents' votes.
IntroduceBranchNoInherit(ents, containing, first, h, n) ==
    [x \in DOMAIN ents \cup {h} |->
        IF x = h THEN [number |-> n,
                       ancestors |-> SubSeq(ents[first].ancestors, ents[first].number - n + 1,
                                            Len(ents[first].ancestors)),
                       descendents |-> containing, cumulative_vote |-> 0]
        ELSE IF x \in containing
             THEN [ents[x] EXCEPT !.ancestors = SubSeq(@, 1, ents[x].number - n)]
             ELSE ents[x]]

\* VoteGraph::introduce_branch: split the edge of every containing node d
\* at h.  d keeps the first d.number - n hashes; the new entry takes the
\* drained tail of the first d folded over (`first`), has the containing
\* nodes as descendents and inherits the sum of their cumulative votes.
\* The former ancestor node of the containing nodes is left as it was.
IntroduceBranch(ents, containing, first, h, n) ==
    LET tail(d) == SubSeq(ents[d].ancestors, ents[d].number - n + 1,
                          Len(ents[d].ancestors))
        newEntry == [number |-> n,
                     ancestors |-> tail(first),
                     descendents |-> containing,
                     cumulative_vote |->
                        MapThenSumSet(LAMBDA d : ents[d].cumulative_vote, containing)]
    IN  [x \in DOMAIN ents \cup {h} |->
           IF x = h THEN newEntry
           ELSE IF x \in containing
                THEN [ents[x] EXCEPT !.ancestors = SubSeq(@, 1, ents[x].number - n)]
                ELSE ents[x]]

\* VoteGraph::append: attach h to the first tracked hash of its ancestry
\* from the base, keep the ancestry up to that hash as h's edge, and make h
\* a head in place of that hash.
AppendIndex(ents, h) ==
    LET anc == Ancestry(BaseHash, h)
    IN  CHOOSE i \in 1..Len(anc) :
            /\ anc[i] \in DOMAIN ents
            /\ \A j \in 1..(i - 1) : anc[j] \notin DOMAIN ents

\* append panics: chain.ancestry(base, h) is None (the unwrap), or no hash
\* of the ancestry is tracked (the "base is kept" expect).
AppendPanics(ents, h) ==
    \/ ~HasAncestry(BaseHash, h)
    \/ \A i \in 1..Len(Ancestry(BaseHash, h)) : Ancestry(BaseHash, h)[i] \notin DOMAIN ents

\* Mutant: the appended entry takes the number of the node it hangs from.
AppendEntriesWrongNumber(ents, h, n) ==
    LET anc == Ancestry(BaseHash, h)
        i   == AppendIndex(ents, h)
    IN  [x \in DOMAIN ents \cup {h} |->
           IF x = h THEN [number |-> ents[anc[i]].number, ancestors |-> SubSeq(anc, 1, i),
                          descendents |-> {}, cumulative_vote |-> 0]
           ELSE IF x = anc[i] THEN [ents[x] EXCEPT !.descendents = @ \cup {h}]
           ELSE ents[x]]

AppendEntries(ents, h, n) ==
    LET anc == Ancestry(BaseHash, h)
        i   == AppendIndex(ents, h)
    IN  [x \in DOMAIN ents \cup {h} |->
           IF x = h THEN [number |-> n, ancestors |-> SubSeq(anc, 1, i),
                          descendents |-> {}, cumulative_vote |-> 0]
           ELSE IF x = anc[i] THEN [ents[x] EXCEPT !.descendents = @ \cup {h}]
           ELSE ents[x]]

\* Mutant: the node appended to stays a head.
AppendHeadsKeepAncestor(ents, hds, h) == hds \cup {h}

AppendHeads(ents, hds, h) ==
    (hds \ {Ancestry(BaseHash, h)[AppendIndex(ents, h)]}) \cup {h}

\* The vote-nodes from h down to the base, following ancestor_node.
RECURSIVE NodeChain(_, _)
NodeChain(ents, x) ==
    {x} \cup IF HasAncestorNode(ents[x]) THEN NodeChain(ents, AncestorNode(ents[x]))
             ELSE {}

\* The weight loop at the end of VoteGraph::insert.
AddVote(ents, h, w) ==
    LET path == NodeChain(ents, h)
    IN  [x \in DOMAIN ents |->
           IF x \in path THEN [ents[x] EXCEPT !.cumulative_vote = @ + w]
           ELSE ents[x]]

-----------------------------------------------------------------------------
\* VoteGraph::new(base_hash, base_number).
Init ==
    /\ entries = [x \in {BaseHash} |->
                    [number |-> BlockNumber(BaseHash), ancestors |-> <<>>,
                     descendents |-> {}, cumulative_vote |-> 0]]
    /\ heads = {BaseHash}
    /\ inserts = 0
    /\ panicked = FALSE

\* VoteGraph::insert(hash, number, vote, chain): structure first (nothing
\* when the hash is tracked, append when no node contains it, branch
\* otherwise), then the vote on every vote-node down to the base.
Insert(h, n, w) ==
    LET containing == FindContainingNodes(entries, heads, h, n)
    IN  /\ ~panicked /\ inserts < MaxInserts
        /\ inserts' = inserts + 1
        /\ \/ /\ h \in DOMAIN entries
              /\ entries' = AddVote(entries, h, w)
              /\ UNCHANGED <<heads, panicked>>
           \/ /\ h \notin DOMAIN entries
              /\ containing = {}
              /\ panicked' = AppendPanics(entries, h)
              /\ IF panicked' THEN UNCHANGED <<entries, heads>>
                 ELSE /\ entries' = AddVote(AppendEntries(entries, h, n), h, w)
                      /\ heads' = AppendHeads(entries, heads, h)
           \/ /\ h \notin DOMAIN entries
              /\ containing # {}
              /\ \E first \in containing :
                    entries' = AddVote(IntroduceBranch(entries, containing, first, h, n), h, w)
              /\ UNCHANGED <<heads, panicked>>

Next == \E h \in Insertable, w \in VoteValue : \E n \in ClaimedNumbers(h) : Insert(h, n, w)

Spec == Init /\ [][Next]_vars

-----------------------------------------------------------------------------
(* Properties.                                                             *)

\* Every vote-node carries its block's number in the chain: "number must
\* match the chain's notion of hash's number; mismatch ... reject with an
\* error" (spec.md 4.1).  in_direct_ancestry and introduce_branch compute
\* edge offsets from these numbers.
EntryNumbersMatchChain == \A x \in DOMAIN entries : entries[x].number = BlockNumber(x)

TypeOK ==
    /\ DOMAIN entries \subseteq Block
    /\ BaseHash \in DOMAIN entries
    /\ EntryNumbersMatchChain
    /\ \A x \in DOMAIN entries :
          /\ entries[x] \in Entry
          /\ entries[x].descendents \subseteq DOMAIN entries
    /\ heads \subseteq DOMAIN entries
    /\ inserts \in 0..MaxInserts
    /\ panicked \in BOOLEAN

\* The weight a vote-graph reports for any block at or above the base: a
\* vote-node's cumulative vote, otherwise the sum over the vote-nodes
\* whose edge passes through the block.
GraphWeight(b) ==
    IF b \in DOMAIN entries THEN entries[b].cumulative_vote
    ELSE MapThenSumSet(LAMBDA x : entries[x].cumulative_vote,
                       {x \in DOMAIN entries :
                           InDirectAncestry(entries[x], b, BlockNumber(b)) = "true"})

\* Refinement: the insert algorithm (append, branch splitting, weight walk)
\* implements VoteWeights: after any sequence of inserts, in any order, the
\* graph reports for every block the sum of the votes on chains containing
\* it (spec.md section 8, the monoid-sum invariant and order independence).
Abstract == INSTANCE VoteWeights WITH weight <- [b \in Insertable |-> GraphWeight(b)]
RefinesVoteWeights == Abstract!Spec

\* heads is exactly the set of vote-nodes with no child vote-node
\* (spec.md section 3).
HeadsAreLeaves ==
    heads = {x \in DOMAIN entries : entries[x].descendents = {}}

\* The ancestor node of every non-base vote-node lists it among its
\* descendents (spec.md sections 3 and 8).
AncestorListsDescendent ==
    \A x \in DOMAIN entries \ {BaseHash} :
        HasAncestorNode(entries[x]) => x \in entries[AncestorNode(entries[x])].descendents
=============================================================================
