---------------------------- MODULE VoterProtocol ----------------------------
(***************************************************************************)
(* What a voting round promises about the local voter's own messages      *)
(* (spec.md 4.3): it goes through the phases init, prevoted, precommitted *)
(* and completed in that order; it casts at most one prevote, in the step *)
(* that leaves init, and at most one precommit, in the step that leaves   *)
(* prevoted, each for a chain through a previous-round estimate it has    *)
(* seen; only the primary proposes, once, while still in init, the        *)
(* estimate itself; nothing is sent after completion.  A voter may fail   *)
(* instead (run returns an error): it stops for good, and the message it  *)
(* was sending when it failed may or may not have gone out.  A vote       *)
(* records the estimate it was built on (est).                            *)
(***************************************************************************)
EXTENDS Chain

CONSTANTS
    Locals,         \* the nodes running a voting round
    PrimaryVoter,   \* the round's primary
    PrevStates      \* the previous round's successive states

VARIABLES
    phase,          \* phase[v]: "init", "prevoted", "precommitted", "completed", "failed"
    votes           \* the messages the nodes have sent, with their estimate

Estimates == {PrevStates[i].estimate : i \in DOMAIN PrevStates}

Cast(v, type, target, e) ==
    votes' = votes \cup {[type |-> type, target |-> target, id |-> v, est |-> e]}

Init ==
    /\ phase = [v \in Locals |-> "init"]
    /\ votes = {}

\* The primary's one proposal of its estimate.
ProposeVote(v) ==
    /\ v = PrimaryVoter
    /\ ~\E m \in votes : m.id = v /\ m.type = "propose"
    /\ \E e \in Estimates : Cast(v, "propose", e, e)

Propose(v) ==
    /\ phase[v] = "init"
    /\ ProposeVote(v)
    /\ UNCHANGED phase

\* Leaving a phase casts its vote, or none (an inactive voter).
CastIn(v, type) ==
    \/ UNCHANGED votes
    \/ \E e \in Estimates, b \in Block : IsEqualOrDescendentOf(e, b) /\ Cast(v, type, b, e)

Prevote(v) ==
    /\ phase[v] = "init"
    /\ phase' = [phase EXCEPT ![v] = "prevoted"]
    /\ CastIn(v, "prevote")

Precommit(v) ==
    /\ phase[v] = "prevoted"
    /\ phase' = [phase EXCEPT ![v] = "precommitted"]
    /\ CastIn(v, "precommit")

Complete(v) ==
    /\ phase[v] = "precommitted"
    /\ phase' = [phase EXCEPT ![v] = "completed"]
    /\ UNCHANGED votes

\* The failing step's own message may have gone out: a proposal or the
\* prevote from init, the precommit from prevoted.
Fail(v) ==
    /\ phase[v] \in {"init", "prevoted", "precommitted"}
    /\ phase' = [phase EXCEPT ![v] = "failed"]
    /\ \/ phase[v] = "init" /\ (CastIn(v, "prevote") \/ ProposeVote(v))
       \/ phase[v] = "prevoted" /\ CastIn(v, "precommit")
       \/ UNCHANGED votes

Next == \E v \in Locals :
            Propose(v) \/ Prevote(v) \/ Precommit(v) \/ Complete(v) \/ Fail(v)

Spec == Init /\ [][Next]_<<phase, votes>>
=============================================================================
