----------------------------- MODULE VotingRound -----------------------------
(***************************************************************************)
(* The voting round of src/src/voter/voting_round.rs: the run loop's State *)
(* machine (Start, Proposed, Prevoted, Precommitted), its select over      *)
(* incoming messages, previous-round state updates and the active timer,  *)
(* and the prevote, precommit and exit decisions.  The Round it feeds (not *)
(* under src/) is modelled from spec.md 4.1-4.2 over vote weights, which   *)
(* VoteGraph is shown to implement.                                        *)
(*                                                                         *)
(* Every voter of Locals runs this code, each with its own VotingRound and *)
(* Round (rs[v]); they share the gossip network.  The other voters are    *)
(* the environment: honest ones vote on chains through the previous       *)
(* estimate, Faulty ones send any votes, equivocations included.  The     *)
(* previous round and the chain are the environment too.                  *)
(*                                                                         *)
(* A loop iteration has three steps, one per suspension point of the code *)
(* (pc): primary_propose (Start only), handle_inputs!, then the decision. *)
(***************************************************************************)
EXTENDS Naturals, FiniteSets, Chain

CONSTANTS
    Voters,         \* the round's voter set, every voter of weight 1
    PrimaryVoter,   \* round.primary_voter()
    Locals,         \* the ids of the nodes running VotingRound (maybe not voters)
    Faulty,         \* voters that send arbitrary votes
    RoundBase,      \* round.base()
    PrevStates,     \* the previous round's successive states, oldest first
    ProposalTargets,\* targets a PrimaryPropose of another voter may carry
    MaxProposals,   \* bound on PrimaryPropose messages of other voters
    MaxFaultyVotes, \* bound on the votes of the Faulty voters
    BestChainMayFail, \* whether best_chain_containing may return None
    MayFail,        \* whether the environment's calls may return Err
    NoBlock         \* None

ASSUME /\ PrimaryVoter \in Voters
       /\ Faulty \subseteq Voters /\ Faulty \cap Locals = {}
       /\ RoundBase \in Block
       /\ NoBlock \notin Block
       /\ PrevStates # <<>>
       /\ \A i \in DOMAIN PrevStates :
             PrevStates[i] \in [prevote_ghost : Block, estimate : Block, finalized : Block]

\* The honest voters whose code is not modelled.
Others == Voters \ (Locals \cup Faulty)
Ids == Voters \cup Locals
MaybeBlock == Block \cup {NoBlock}
RoundBlocks == {b \in Block : IsEqualOrDescendentOf(RoundBase, b)}
Running == {"Start", "Proposed", "Prevoted", "Precommitted"}

\* Supermajority threshold T - f with f = (T - 1) \div 3 (spec.md 4.1).
TotalWeight == Cardinality(Voters)
Threshold == TotalWeight - (TotalWeight - 1) \div 3

Message == [type : {"prevote", "precommit", "propose"}, target : Block, id : Ids]

\* The fields of a VotingRound (and the vote maps of its Round).
Local == [state : Running \cup {"Completed", "Failed"}, \* run returned Ok / Err
          pc : {"propose", "inputs", "vote"},   \* where the loop iteration is
          proposed : BOOLEAN,        \* what primary_propose returned this iteration
          timerReady : BOOLEAN,      \* what handle_inputs! returned this iteration
          prevoteTimer : {"pending", "fired"},  \* the fused timers
          precommitTimer : {"pending", "fired"},
          voting : {"No", "Yes", "Primary"},
          primaryBlock : MaybeBlock,
          prevIdx : Nat,             \* previous_round_state = PrevStates[prevIdx]
          prevotes : [Voters -> MaybeBlock],    \* the Round's first vote of each voter
          precommits : [Voters -> MaybeBlock],
          delivered : SUBSET Message]           \* what incoming has yielded

VARIABLES
    rs,             \* rs[v]: the VotingRound of local node v
    produced,       \* snapshots the previous round has pushed into the channel
    network,        \* every message broadcast to this round so far
    sent            \* history: local messages with the estimate they were built on

vars == <<rs, produced, network, sent>>

-----------------------------------------------------------------------------
(* The Round (spec.md 4.1-4.2), derived from the imported votes.          *)

Weight(votes, b) ==
    Cardinality({v \in Voters : votes[v] # NoBlock /\ IsEqualOrDescendentOf(b, votes[v])})

CastWeight(votes) == Cardinality({v \in Voters : votes[v] # NoBlock})

\* The highest block at or above the base with supermajority weight.
GhostOf(votes) ==
    LET S == {b \in RoundBlocks : Weight(votes, b) >= Threshold}
    IN  IF S = {} THEN NoBlock
        ELSE CHOOSE b \in S : \A c \in S : NumberTable[c] <= NumberTable[b]

PrevoteGhost(v) == GhostOf(rs[v].prevotes)
Finalized(v) == GhostOf(rs[v].precommits)

\* A block could still get supermajority precommits.
PossibleToPrecommit(v, b) ==
    Weight(rs[v].precommits, b) + (TotalWeight - CastWeight(rs[v].precommits)) >= Threshold

Estimate(v) ==
    IF PrevoteGhost(v) = NoBlock THEN NoBlock
    ELSE IF CastWeight(rs[v].precommits) < Threshold THEN PrevoteGhost(v)
    ELSE LET S == {b \in RoundBlocks : IsEqualOrDescendentOf(b, PrevoteGhost(v))
                                        /\ PossibleToPrecommit(v, b)}
         IN  CHOOSE b \in S : \A c \in S : NumberTable[c] <= NumberTable[b]

Completable(v) ==
    /\ PrevoteGhost(v) # NoBlock
    /\ CastWeight(rs[v].precommits) >= Threshold
    /\ \/ Estimate(v) # PrevoteGhost(v)
       \/ ~\E d \in RoundBlocks : d # PrevoteGhost(v)
                                /\ IsEqualOrDescendentOf(PrevoteGhost(v), d)
                                /\ PossibleToPrecommit(v, d)

\* Round::import_prevote / import_precommit: a voter's first vote counts;
\* a later one (a duplicate or an equivocation) changes no weight.
Import(votes, m) ==
    IF m.id \in Voters /\ votes[m.id] = NoBlock
    THEN [votes EXCEPT ![m.id] = m.target] ELSE votes

-----------------------------------------------------------------------------
(* VotingRound helpers.                                                    *)

PrevState(v) == PrevStates[rs[v].prevIdx]

IsActive(v) == rs[v].voting \in {"Yes", "Primary"}

\* Mutant: no ancestry check, a primary block below the previous
\* prevote-GHOST is always taken.
FindDescendentOfNoAncestryCheck(v) ==
    LET est   == PrevState(v).estimate
        ghost == PrevState(v).prevote_ghost
        pb    == rs[v].primaryBlock
    IN  IF pb = NoBlock THEN est
        ELSE IF pb = ghost THEN pb
        ELSE IF NumberTable[pb] >= NumberTable[ghost] THEN est
        ELSE pb

\* The block construct_prevote asks the best chain of.
FindDescendentOf(v) ==
    LET est   == PrevState(v).estimate
        ghost == PrevState(v).prevote_ghost
        pb    == rs[v].primaryBlock
    IN  IF pb = NoBlock THEN est
        ELSE IF pb = ghost THEN pb
        ELSE IF NumberTable[pb] >= NumberTable[ghost] THEN est
        ELSE IF ~HasAncestry(est, ghost) THEN est   \* Err(NotDescendent)
        ELSE LET anc    == Ancestry(est, ghost)
                 offset == IF NumberTable[ghost] < NumberTable[pb] + 1 THEN 0
                           ELSE NumberTable[ghost] - (NumberTable[pb] + 1)
             IN  IF offset < Len(anc) /\ anc[offset + 1] = pb THEN pb ELSE est

\* Environment::best_chain_containing: some block of a chain through b,
\* None when b has disappeared, or Err.
BestChainContaining(b) ==
    {c \in Block : IsEqualOrDescendentOf(b, c)}
        \cup (IF BestChainMayFail THEN {NoBlock} ELSE {})
        \cup (IF MayFail THEN {"Err"} ELSE {})

\* Mutant: a prevote that could not be constructed leaves voting as it was.
CeaseVotingDropped(voting, target) == voting

\* prevote: "when we can't construct a prevote [best_chain_containing gave
\* None], we should cease voting for the rest of the round".
CeaseVoting(voting, target) == IF target = NoBlock THEN "No" ELSE voting

\* Mutant: precommit without waiting for the estimate to be below the GHOST.
EstimateBelowGhostDropped(v) == TRUE

\* The precommit gate: the previous estimate is the prevote-GHOST or below it.
EstimateBelowGhost(v) ==
    /\ PrevoteGhost(v) # NoBlock
    /\ \/ PrevoteGhost(v) = PrevState(v).estimate
       \/ IsEqualOrDescendentOf(PrevState(v).estimate, PrevoteGhost(v))

\* Mutant: exit without checking the previous estimate is finalized.
IsCompletableNoPrevCheck(v) == Completable(v) /\ Finalized(v) # NoBlock

\* Mutant: the previous estimate must be strictly below the finalized block.
IsCompletableStrict(v) ==
    /\ Completable(v)
    /\ Finalized(v) # NoBlock
    /\ \/ NumberTable[PrevState(v).estimate] < NumberTable[PrevState(v).finalized]
       \/ NumberTable[PrevState(v).estimate] < NumberTable[Finalized(v)]

\* VotingRound::is_completable (number comparisons, as in the code).
IsCompletable(v) ==
    /\ Completable(v)
    /\ Finalized(v) # NoBlock
    /\ \/ NumberTable[PrevState(v).estimate] <= NumberTable[PrevState(v).finalized]
       \/ NumberTable[PrevState(v).estimate] <= NumberTable[Finalized(v)]

\* The results of outgoing.send(message).await: Ok, Err before the sink
\* took the message, or Err from flushing after it took it.
SendResults == IF MayFail THEN {"Ok", "ErrBefore", "ErrAfter"} ELSE {"Ok"}

\* Mutant: a failed send is ignored and the loop stays where it was, so it
\* may vote again.
AfterSendRetry(st, r, next) == IF r = "Ok" THEN next ELSE st

\* The `?` after a send: on Err run returns it, and the VotingRound, its
\* state left at State::Poisoned, is dropped.
AfterSend(st, r, next) == IF r = "Ok" THEN next ELSE "Failed"

\* outgoing.send: unless the sink refused it, the message reaches the
\* network (and so comes back on every incoming stream, the sender's own
\* included) and the history.
Send(v, type, target, r) ==
    IF r = "ErrBefore" THEN UNCHANGED <<network, sent>>
    ELSE /\ network' = network \cup {[type |-> type, target |-> target, id |-> v]}
         /\ sent' = sent \cup {[type |-> type, target |-> target, id |-> v,
                                est |-> PrevState(v).estimate]}

-----------------------------------------------------------------------------
\* VotingRound::new: Voting from the voter id, State::Start with both timers.
Init ==
    /\ rs = [v \in Locals |->
               [state |-> "Start", pc |-> "propose",
                proposed |-> FALSE, timerReady |-> FALSE,
                prevoteTimer |-> "pending", precommitTimer |-> "pending",
                voting |-> IF v = PrimaryVoter THEN "Primary"
                           ELSE IF v \in Voters THEN "Yes" ELSE "No",
                primaryBlock |-> NoBlock, prevIdx |-> 1,
                prevotes |-> [u \in Voters |-> NoBlock],
                precommits |-> [u \in Voters |-> NoBlock],
                delivered |-> {}]]
    /\ produced = 1
    /\ network = {}
    /\ sent = {}

\* primary_propose, at the top of every Start iteration: the primary sends
\* the previous estimate unless it is already finalized (by number).
PrimaryPropose(v) ==
    /\ rs[v].state = "Start" /\ rs[v].pc = "propose"
    /\ LET should == /\ rs[v].voting = "Primary"
                     /\ NumberTable[PrevState(v).estimate] > NumberTable[PrevState(v).finalized]
       IN  \E r \in IF should THEN SendResults ELSE {"Ok"} :
              /\ rs' = [rs EXCEPT ![v].proposed = should, ![v].pc = "inputs",
                                  ![v].state = AfterSend(@, r, @)]
              /\ IF should THEN Send(v, "propose", PrevState(v).estimate, r)
                 ELSE UNCHANGED <<network, sent>>
    /\ UNCHANGED produced

\* handle_inputs!, incoming branch: handle_incoming_message.  Messages
\* below the round base are ignored; a PrimaryPropose counts only from the
\* primary.
HandleIncomingMessage(v, m) ==
    /\ rs[v].state \in Running /\ rs[v].pc = "inputs"
    /\ m \in network \ rs[v].delivered
    /\ LET relevant == IsEqualOrDescendentOf(RoundBase, m.target)
       IN  rs' = [rs EXCEPT
                    ![v].delivered = @ \cup {m},
                    ![v].prevotes = IF relevant /\ m.type = "prevote" THEN Import(@, m) ELSE @,
                    ![v].precommits = IF relevant /\ m.type = "precommit" THEN Import(@, m) ELSE @,
                    ![v].primaryBlock = IF relevant /\ m.type = "propose" /\ m.id = PrimaryVoter
                                        THEN m.target ELSE @,
                    ![v].timerReady = FALSE, ![v].pc = "vote"]
    /\ UNCHANGED <<produced, network, sent>>

\* Mutant: the update branch reads the channel without an item in it.
HandlePreviousRoundStateUnguarded(v) ==
    /\ rs[v].state \in Running /\ rs[v].pc = "inputs"
    /\ rs[v].prevIdx < Len(PrevStates)
    /\ rs' = [rs EXCEPT ![v].prevIdx = @ + 1, ![v].timerReady = FALSE, ![v].pc = "vote"]
    /\ UNCHANGED <<produced, network, sent>>

\* handle_inputs!, previous-round branch: replace the snapshot.
HandlePreviousRoundState(v) ==
    /\ rs[v].state \in Running /\ rs[v].pc = "inputs"
    /\ rs[v].prevIdx < produced
    /\ rs' = [rs EXCEPT ![v].prevIdx = @ + 1, ![v].timerReady = FALSE, ![v].pc = "vote"]
    /\ UNCHANGED <<produced, network, sent>>

\* handle_inputs!, timer branch: the fused timer completes once.
PrevoteTimerFires(v) ==
    /\ rs[v].state \in {"Start", "Proposed"} /\ rs[v].pc = "inputs"
    /\ rs[v].prevoteTimer = "pending"
    /\ rs' = [rs EXCEPT ![v].prevoteTimer = "fired", ![v].timerReady = TRUE, ![v].pc = "vote"]
    /\ UNCHANGED <<produced, network, sent>>

PrecommitTimerFires(v) ==
    /\ rs[v].state = "Prevoted" /\ rs[v].pc = "inputs"
    /\ rs[v].precommitTimer = "pending"
    /\ rs' = [rs EXCEPT ![v].precommitTimer = "fired", ![v].timerReady = TRUE, ![v].pc = "vote"]
    /\ UNCHANGED <<produced, network, sent>>

\* Mutant: a Proposed iteration that does not prevote falls back to Start
\* (the transition of the Start arm), so primary_propose runs again.
PrevoteProposedToStart(v) ==
    /\ rs[v].state \in {"Start", "Proposed"} /\ rs[v].pc = "vote"
    /\ \/ /\ ~(rs[v].timerReady \/ Completable(v))
          /\ LET next == IF ~rs[v].proposed THEN "Start" ELSE "Proposed"
             IN  rs' = [rs EXCEPT ![v].state = next,
                                  ![v].pc = IF next = "Start" THEN "propose" ELSE "inputs",
                                  ![v].proposed = FALSE, ![v].timerReady = FALSE]
          /\ UNCHANGED <<network, sent>>
       \/ /\ rs[v].timerReady \/ Completable(v)
          /\ \E target \in IF IsActive(v) THEN BestChainContaining(FindDescendentOf(v))
                           ELSE {"inactive"} :
             \E r \in IF target \in Block THEN SendResults ELSE {"Ok"} :
                /\ rs' = [rs EXCEPT ![v].state = IF target = "Err" THEN "Failed"
                                                 ELSE AfterSend(@, r, "Prevoted"),
                                    ![v].pc = "inputs",
                                    ![v].proposed = FALSE, ![v].timerReady = FALSE,
                                    ![v].voting = CeaseVoting(@, target)]
                /\ IF target \in Block THEN Send(v, "prevote", target, r)
                   ELSE UNCHANGED <<network, sent>>
    /\ UNCHANGED produced

\* prevote(timer_ready) and the Start / Proposed transition after it; the
\* iteration's locals (proposed, timer_ready) end with it.
Prevote(v) ==
    /\ rs[v].state \in {"Start", "Proposed"} /\ rs[v].pc = "vote"
    /\ \/ /\ ~(rs[v].timerReady \/ Completable(v))
          /\ LET next == IF rs[v].state = "Start" /\ ~rs[v].proposed THEN "Start" ELSE "Proposed"
             IN  rs' = [rs EXCEPT ![v].state = next,
                                  ![v].pc = IF next = "Start" THEN "propose" ELSE "inputs",
                                  ![v].proposed = FALSE, ![v].timerReady = FALSE]
          /\ UNCHANGED <<network, sent>>
       \/ /\ rs[v].timerReady \/ Completable(v)
          /\ \E target \in IF IsActive(v) THEN BestChainContaining(FindDescendentOf(v))
                           ELSE {"inactive"} :
             \E r \in IF target \in Block THEN SendResults ELSE {"Ok"} :
                /\ rs' = [rs EXCEPT ![v].state = IF target = "Err" THEN "Failed"
                                                 ELSE AfterSend(@, r, "Prevoted"),
                                    ![v].pc = "inputs",
                                    ![v].proposed = FALSE, ![v].timerReady = FALSE,
                                    ![v].voting = CeaseVoting(@, target)]
                /\ IF target \in Block THEN Send(v, "prevote", target, r)
                   ELSE UNCHANGED <<network, sent>>
    /\ UNCHANGED produced

\* construct_precommit: the prevote-GHOST, or the base when there is none.
PrecommitTarget(v) == IF PrevoteGhost(v) # NoBlock THEN PrevoteGhost(v) ELSE RoundBase

\* Mutant: after precommitting the state stays Prevoted.
PrecommitStaysPrevoted(v) ==
    /\ rs[v].state = "Prevoted" /\ rs[v].pc = "vote"
    /\ LET should == EstimateBelowGhost(v) /\ (rs[v].timerReady \/ Completable(v))
       IN  \E r \in IF should /\ IsActive(v) THEN SendResults ELSE {"Ok"} :
              /\ rs' = [rs EXCEPT ![v].state = AfterSend(@, r, @),
                                  ![v].pc = "inputs", ![v].timerReady = FALSE]
              /\ IF should /\ IsActive(v) THEN Send(v, "precommit", PrecommitTarget(v), r)
                 ELSE UNCHANGED <<network, sent>>
    /\ UNCHANGED produced

\* precommit(timer_ready) and the Prevoted transition after it.
Precommit(v) ==
    /\ rs[v].state = "Prevoted" /\ rs[v].pc = "vote"
    /\ LET should == EstimateBelowGhost(v) /\ (rs[v].timerReady \/ Completable(v))
       IN  \E r \in IF should /\ IsActive(v) THEN SendResults ELSE {"Ok"} :
              /\ rs' = [rs EXCEPT ![v].state = AfterSend(@, r, IF should THEN "Precommitted"
                                                                 ELSE "Prevoted"),
                                  ![v].pc = "inputs", ![v].timerReady = FALSE]
              /\ IF should /\ IsActive(v) THEN Send(v, "precommit", PrecommitTarget(v), r)
                 ELSE UNCHANGED <<network, sent>>
    /\ UNCHANGED produced

\* The Precommitted iteration: leave the loop once is_completable holds.
CheckCompletable(v) ==
    /\ rs[v].state = "Precommitted" /\ rs[v].pc = "vote"
    /\ rs' = [rs EXCEPT ![v].state = IF IsCompletable(v) THEN "Completed" ELSE "Precommitted",
                        ![v].pc = "inputs", ![v].timerReady = FALSE]
    /\ UNCHANGED <<produced, network, sent>>

\* handle_inputs!: the incoming stream yields an Err, or the Round refuses
\* to import the message (`?`): run returns the error.
InputFails(v) ==
    /\ MayFail
    /\ rs[v].state \in Running /\ rs[v].pc = "inputs"
    /\ rs' = [rs EXCEPT ![v].state = "Failed"]
    /\ UNCHANGED <<produced, network, sent>>

LocalStep(v) ==
    \/ PrimaryPropose(v)
    \/ \E m \in network : HandleIncomingMessage(v, m)
    \/ HandlePreviousRoundState(v)
    \/ PrevoteTimerFires(v)
    \/ PrecommitTimerFires(v)
    \/ Prevote(v)
    \/ Precommit(v)
    \/ CheckCompletable(v)
    \/ InputFails(v)

-----------------------------------------------------------------------------
(* Environment: the honest voters outside Locals (they vote on chains     *)
(* through the latest previous estimate and precommit at or below the     *)
(* prevote-GHOST of everything prevoted), the Faulty voters (any vote,    *)
(* equivocations included), PrimaryPropose messages and the previous      *)
(* round.                                                                  *)

LatestEstimate == PrevStates[produced].estimate

HasVoted(v, type) == \E m \in network : m.type = type /\ m.id = v

VotesIn(type) ==
    [v \in Voters |-> IF HasVoted(v, type)
                      THEN (CHOOSE m \in network : m.type = type /\ m.id = v).target
                      ELSE NoBlock]

OtherPrevote(v) ==
    /\ ~HasVoted(v, "prevote")
    /\ \E b \in Block :
          /\ IsEqualOrDescendentOf(LatestEstimate, b)
          /\ network' = network \cup {[type |-> "prevote", target |-> b, id |-> v]}
    /\ UNCHANGED <<rs, produced, sent>>

OtherPrecommit(v) ==
    /\ HasVoted(v, "prevote") /\ ~HasVoted(v, "precommit")
    /\ LET ghost == GhostOf(VotesIn("prevote"))
       IN  \E b \in Block :
              /\ ghost # NoBlock
              /\ IsEqualOrDescendentOf(LatestEstimate, b)
              /\ IsEqualOrDescendentOf(b, ghost)
              /\ network' = network \cup {[type |-> "precommit", target |-> b, id |-> v]}
    /\ UNCHANGED <<rs, produced, sent>>

FaultyVote(v) ==
    /\ Cardinality({m \in network : m.id \in Faulty}) < MaxFaultyVotes
    /\ \E t \in {"prevote", "precommit"}, b \in RoundBlocks :
          network' = network \cup {[type |-> t, target |-> b, id |-> v]}
    /\ UNCHANGED <<rs, produced, sent>>

OtherPropose(v) ==
    /\ Cardinality({m \in network : m.type = "propose" /\ m.id \notin Locals}) < MaxProposals
    /\ \E b \in ProposalTargets :
          network' = network \cup {[type |-> "propose", target |-> b, id |-> v]}
    /\ UNCHANGED <<rs, produced, sent>>

PreviousRoundUpdate ==
    /\ produced < Len(PrevStates)
    /\ produced' = produced + 1
    /\ UNCHANGED <<rs, network, sent>>

\* Every run has returned, Ok or Err; nothing changes any more.
Finished ==
    /\ \A v \in Locals : rs[v].state \in {"Completed", "Failed"}
    /\ UNCHANGED vars

Next ==
    \/ \E v \in Locals : LocalStep(v)
    \/ \E v \in Others : OtherPrevote(v) \/ OtherPrecommit(v)
    \/ \E v \in Faulty : FaultyVote(v)
    \/ \E v \in Voters \ Locals : OtherPropose(v)
    \/ PreviousRoundUpdate
    \/ Finished

\* Each run task is polled whenever one of its inputs is ready; the honest
\* voters eventually vote (every such step is one of finitely many, so
\* fairness on their union makes each of them happen); the previous round
\* keeps publishing its state.  Faulty voters and proposals get none.
Fairness ==
    /\ \A v \in Locals : WF_vars(LocalStep(v))
    /\ WF_vars(\E v \in Others : OtherPrevote(v) \/ OtherPrecommit(v))
    /\ WF_vars(PreviousRoundUpdate)

Spec == Init /\ [][Next]_vars
FairSpec == Spec /\ Fairness

-----------------------------------------------------------------------------
(* Properties.                                                             *)

TypeOK ==
    /\ rs \in [Locals -> Local]
    /\ \A v \in Locals : rs[v].prevIdx \in 1..produced /\ rs[v].delivered \subseteq network
    /\ produced \in 1..Len(PrevStates)
    /\ network \subseteq Message
    /\ sent \subseteq [type : {"prevote", "precommit", "propose"}, target : Block,
                       id : Locals, est : Block]

\* A local node precommits only if it prevoted: when best_chain_containing
\* returns None, prevote sends nothing and sets voting to No, yet the loop
\* still moves to Prevoted; the precommit decided there, once the others'
\* prevotes make a GHOST and the timer fires, must then send nothing.
PrecommitOnlyAfterPrevote ==
    \A m \in sent : m.type = "precommit" =>
        \E p \in sent : p.type = "prevote" /\ p.id = m.id

\* Every local prevote is for a chain through the previous-round estimate it
\* was built on, whatever primary block was proposed (construct_prevote).
PrevoteExtendsEstimate ==
    \A m \in sent : m.type = "prevote" => IsEqualOrDescendentOf(m.est, m.target)

\* When run returns, the previous round's estimate as this round last saw
\* it is finalized: an ancestor of, or equal to, the block finalized in the
\* previous or in this round ("make sure that the previous round estimate
\* has been finalized", is_completable).
ExitAfterEstimateFinalized ==
    \A v \in Locals :
        rs[v].state = "Completed" =>
            \/ IsEqualOrDescendentOf(PrevState(v).estimate, PrevState(v).finalized)
            \/ /\ Finalized(v) # NoBlock
               /\ IsEqualOrDescendentOf(PrevState(v).estimate, Finalized(v))

\* Refinement: seen through the run loop's State, every local node behaves
\* as VoterProtocol allows: phases only move forward, each phase change
\* casts at most its own vote on a chain through a seen estimate, only the
\* primary proposes and only before prevoting, and nothing is sent once run
\* has returned.
PhaseOf(st) ==
    CASE st \in {"Start", "Proposed"} -> "init"
      [] st = "Prevoted"              -> "prevoted"
      [] st = "Precommitted"          -> "precommitted"
      [] st = "Completed"             -> "completed"
      [] st = "Failed"                -> "failed"
Protocol == INSTANCE VoterProtocol
                WITH phase <- [v \in Locals |-> PhaseOf(rs[v].state)], votes <- sent
ImplementsVoterProtocol == Protocol!Spec

\* Every local round eventually completes: run returns a CompletableRound.
EventuallyCompleted == \A v \in Locals : <>(rs[v].state = "Completed")
=============================================================================
