---------------------------- MODULE MC_VoteGraph ----------------------------
(***************************************************************************)
(* The chain of the tests of src/src/vote_graph.rs: genesis(1) - A - B - C *)
(* then two forks C - D1 - E1 - F1 and C - D2 - E2 - F2.                  *)
(***************************************************************************)
EXTENDS VoteGraph

MC_Block == {"genesis", "A", "B", "C", "D1", "E1", "F1", "D2", "E2", "F2"}

MC_Parent == [b \in MC_Block |->
                CASE b = "genesis" -> "NULL"
                  [] b = "A"  -> "genesis"
                  [] b = "B"  -> "A"
                  [] b = "C"  -> "B"
                  [] b = "D1" -> "C"
                  [] b = "E1" -> "D1"
                  [] b = "F1" -> "E1"
                  [] b = "D2" -> "C"
                  [] b = "E2" -> "D2"
                  [] b = "F2" -> "E2"]
=============================================================================
