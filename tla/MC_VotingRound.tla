--------------------------- MODULE MC_VotingRound ---------------------------
(***************************************************************************)
(* A block tree G - B1 - B2 with forks B2 - C3 - C4 and B2 - D3, a round  *)
(* based at B1, and a previous round whose estimate moves down from C3 to *)
(* B2 while its finalized block moves up from B1 to B2.                   *)
(***************************************************************************)
EXTENDS VotingRound

MC_Block == {"G", "B1", "B2", "C3", "C4", "D3"}

MC_Parent == [b \in MC_Block |->
                CASE b = "G"  -> "NULL"
                  [] b = "B1" -> "G"
                  [] b = "B2" -> "B1"
                  [] b = "C3" -> "B2"
                  [] b = "C4" -> "C3"
                  [] b = "D3" -> "B2"]

\* Previous round: prevote-GHOST C4, estimate C3, finalized B1; later more
\* precommits move the estimate down to B2 and finalize B2.
MC_PrevStates ==
    << [prevote_ghost |-> "C4", estimate |-> "C3", finalized |-> "B1"],
       [prevote_ghost |-> "C4", estimate |-> "B2", finalized |-> "B2"] >>

\* One voter set of three with the local voter the primary, and one of
\* four (local voter not primary) where three others make a supermajority.
MC_Voters3 == {"L", "V1", "V2"}
MC_Voters4 == {"L", "V1", "V2", "V3"}

\* The smaller tree and a single previous-round state, for the liveness
\* runs: G - B1 - B2 forking into C3 and D3, previous estimate B2 not yet
\* finalized.
MC_BlockSmall == {"G", "B1", "B2", "C3", "D3"}
MC_ParentSmall == [b \in MC_BlockSmall |->
                     CASE b = "G"  -> "NULL"
                       [] b = "B1" -> "G"
                       [] b \in {"C3", "D3"} -> "B2"
                       [] b = "B2" -> "B1"]
MC_PrevStatesSmall ==
    << [prevote_ghost |-> "C3", estimate |-> "B2", finalized |-> "B1"] >>
\* For the primary: its previous estimate moves down from C3 to B2, neither
\* finalized, so a proposal is due in every Start iteration.
MC_PrevStatesPrimary ==
    << [prevote_ghost |-> "C3", estimate |-> "C3", finalized |-> "B1"],
       [prevote_ghost |-> "C3", estimate |-> "B2", finalized |-> "B1"] >>
MC_Voters3Observed == {"V1", "V2", "V3"}

\* The chain B1 - B2 - C3 alone, for the four-voter liveness run.
MC_BlockLine == {"B1", "B2", "C3"}
MC_ParentLine == [b \in MC_BlockLine |->
                    CASE b = "B1" -> "NULL" [] b = "B2" -> "B1" [] b = "C3" -> "B2"]

\* The fork B1 - C2, B1 - D2 with the previous estimate C2 not yet
\* finalized, later moving down to B1: D2 has C2's number, so only
\* ancestry tells them apart.
MC_BlockFork == {"B1", "C2", "D2"}
MC_ParentFork == [b \in MC_BlockFork |-> IF b = "B1" THEN "NULL" ELSE "B1"]
MC_PrevStatesFork ==
    << [prevote_ghost |-> "C2", estimate |-> "C2", finalized |-> "B1"],
       [prevote_ghost |-> "C2", estimate |-> "B1", finalized |-> "B1"] >>

MC_PrevStatesFork1 == << MC_PrevStatesFork[1] >>

\* Four voters, one of them Faulty: a supermajority of three needs one of
\* the honest environment voters and the local voter.
MC_VotersByz == {"L", "V1", "V2", "F"}

\* The chain B1 - B2 with the previous estimate B2 not yet finalized: the
\* honest voters have one block to vote for, so the liveness runs explore
\* the orders of messages, timers and previous-round updates alone.
MC_BlockPair == {"B1", "B2"}
MC_ParentPair == [b \in MC_BlockPair |-> IF b = "B1" THEN "NULL" ELSE "B1"]
MC_PrevStatesPair ==
    << [prevote_ghost |-> "B2", estimate |-> "B2", finalized |-> "B1"],
       [prevote_ghost |-> "B2", estimate |-> "B2", finalized |-> "B2"] >>

=============================================================================
