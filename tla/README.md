# TLA+ models of finality-grandpa's vote-graph and voting round

This directory holds TLA+ specifications of the two source files of this
repository and the TLC configurations that check them:

- `src/src/vote_graph.rs`: the vote-graph, a sparse tree of vote-nodes that
  accumulates vote weight over a block tree.
- `src/src/voter/voting_round.rs`: the voting round, the async state machine
  that drives one GRANDPA round for the local voter.

## 1. Inventory

### Parts of the system and how they interact

| Part | Source | State | Operations |
|---|---|---|---|
| Chain oracle | `Chain` trait, `DummyChain` (vote_graph.rs 243-291) | a fixed block tree | `ancestry(base, b)` |
| VoteGraph | vote_graph.rs 26-233 | `entries` (hash → Entry{number, ancestors, descendents, cumulative_vote}), `heads`, `base` | `new`, `insert` (with `find_containing_nodes`, `introduce_branch`, `append` and the weight walk) |
| Round | not under src/ (spec.md 4.1-4.2) | prevotes, precommits, with a VoteGraph for each | `import_prevote`, `import_precommit`, `prevote_ghost`, `estimate`, `finalized`, `completable` |
| VotingRound | voting_round.rs 28-512 | `state` (Start/Proposed/Prevoted/Precommitted/Poisoned, owning the two fused timers), `voting`, `primary_block`, `previous_round_state`, the embedded Round | `new`, `run` (its loop and `handle_inputs!` select), `handle_incoming_message`, `primary_propose`, `prevote` / `construct_prevote`, `precommit` / `construct_precommit`, `is_completable` |
| Environment | trait, outside the repository | timers, gossip streams, outgoing sink, best chain | `round_data`, `best_chain_containing`, `ancestry`, `is_equal_or_descendent_of`; every call may return `Err` |
| CompletableRound, outer Voter | not in the repository | | the handoff after `run` returns |

Incoming signed messages and previous-round-state updates feed VotingRound.
VotingRound imports votes into its Round, and the Round keeps its weights in
VoteGraphs. Timer completions, or the round becoming completable, trigger the
prevote and precommit decisions. Those decisions consult the chain and the
previous round's snapshot.

### Hard behaviours (the hazards in PROJECT.json)

- **VoteGraph.**
  - Branch splitting at the right offset, across several containing nodes.
  - Vote inheritance by the new branch node.
  - The upkeep of `heads`.
  - The relinking of the former ancestor node, which the code omits (see the findings).
  - All of these depend on the order of inserts.
  - `append` panics on a hash the chain gives no ancestry from the base for. Only the Round's caller filters such hashes out. On a fixed chain that never happens (see Not modelled).
  - `insert` trusts the number passed with the hash, and every edge offset is computed from it.
- **VotingRound.**
  - Three event sources interleave: messages, previous-round updates and a timer.
  - The snapshot of the previous round can change between decisions.
  - A fused timer fires once.
  - In Precommitted, the exit check only runs after another input arrives.
  - A primary proposal may arrive before or after the previous-round update it is checked against.
  - A best chain of `None` switches voting off, but the loop still moves to Prevoted and later decides a precommit.
  - `is_completable` compares block numbers only.
  - Every `?` ends `run` with an error, the round left Poisoned. A send can fail after the sink took the message, so the vote may be out although the call failed.

### Properties per part

| Part | Properties |
|---|---|
| VoteGraph | heads are the leaves (`HeadsAreLeaves`); ancestors list their children (`AncestorListsDescendent`); reported weights equal the abstract vote sum, in any insert order (`RefinesVoteWeights`) |
| VotingRound | prevotes on chains through the estimate they were built on, whatever the primary proposed (`PrevoteExtendsEstimate`); no precommit from a node that could not prevote (`PrecommitOnlyAfterPrevote`); exit only once the previous estimate is finalized (`ExitAfterEstimateFinalized`); the round eventually returns (`EventuallyCompleted`); the node refines the abstract `VoterProtocol` (`ImplementsVoterProtocol`), with or without Environment errors |

## 2. Modules

| Module | Models | Notes |
|---|---|---|
| `Chain` | `DummyChain`: `push_blocks` numbering and `ancestry` | Constants `Block`, `Parent`, `GenesisNumber`, `NullHash`. The ancestor sets and numbers are computed once (`AncestorTable`, `NumberTable`). |
| `VoteWeights` | the abstract vote-graph (spec.md 3, 8) | One variable, `weight`. An insert of `w` on `h` adds `w` to every block from `h` down to the base. |
| `VoteGraph` | vote_graph.rs | `entries` is a function on the tracked hashes, and `heads` a set. `Insert(h, n, w)` is all of `VoteGraph::insert`, with `n` the number the caller claims (`ClaimedNumbers`: the chain's number, off by a skew from `NumberSkew`). It it does nothing to the structure for a tracked hash, calls `append` when no node contains `h`, or calls `introduce_branch` over the containing nodes (`first` is the node whose drained tail the fold keeps). Then it walks the weight down to the base. The node order of the Vec is abstracted to a choice of `first`. The two panics of `append` (the `ancestry` unwrap and the "base is kept" expect, `AppendPanics`) set `panicked` and stop the graph. No run reaches them: the base is always tracked and ends every ancestry of an `Insertable` hash. `Abstract == INSTANCE VoteWeights WITH weight <- ...` is the refinement mapping. |
| `VoterProtocol` | what a round promises about the voter's own messages (spec.md 4.3) | Variables `phase` (init, prevoted, precommitted, completed, failed) and `votes`. Phases only move forward. Leaving init casts at most one prevote, and leaving prevoted at most one precommit, each on a chain through a seen previous estimate. Only the primary proposes, once, in init. `Fail` ends the round from any running phase. It may carry the message of the step that failed: the proposal or the prevote from init, the precommit from prevoted. |
| `VotingRound` | voting_round.rs, with the Round from spec.md | Each node of the constant `Locals` runs the code, with its own VotingRound and Round in the record `rs[v]` (fields named after the struct: `state`, `voting`, `primaryBlock`, `prevIdx` for `previous_round_state`, the two fused timers, the Round's vote maps and what `incoming` has yielded). Each loop iteration of `run` is split at its suspension points: `pc` is "propose", then "inputs" (one `handle_inputs!` branch wins: `HandleIncomingMessage`, `HandlePreviousRoundState`, `PrevoteTimerFires` or `PrecommitTimerFires`), then "vote" (`Prevote`, `Precommit` or `CheckCompletable`, with the State transition that follows). The other voters are the environment: honest ones (`OtherPrevote`, `OtherPrecommit`), `Faulty` ones that send any prevote or precommit, equivocations included (`FaultyVote`, as the Byzantine replicas of PBFT models do), proposals (`OtherPropose`), and the previous round (`PreviousRoundUpdate`). With `MayFail`, every `?` of `run` has its Err path, and the state becomes "Failed":
  - `outgoing.send` in `PrimaryPropose`, `Prevote` and `Precommit` returns Ok, or Err before the sink took the message (`ErrBefore`), or Err after it (`ErrAfter`, the message is on the network). This is `SendResults`, and `AfterSend` is the `?`.
  - `best_chain_containing` returns Err.
  - `InputFails` covers the incoming stream and the Round's import.

`Protocol == INSTANCE VoterProtocol WITH phase <- ..., votes <- sent` maps the run loop's State onto the abstract phases. Every run checks one local node; the per-node structure is what a composition of several nodes would use (section 5). |
| `MC_VoteGraph` | the test chain of vote_graph.rs (genesis, A, B, C, then the forks D1-F1 and D2-F2) | |
| `MC_VotingRound` | small trees, voter sets and previous-round snapshot sequences | |

Round is not under src/. Its prevote-GHOST, estimate, finalized block and
completable predicate are written from spec.md 4.1-4.2 over per-voter vote
maps, with every voter of weight 1. These operators are marked
`spec_modelled` in the map. VoteGraph is checked separately to implement the
weight function they rely on.

## 3. Runs

| Run | Config | Expect | What it shows |
|---|---|---|---|
| vote_graph | `MC_VoteGraph.cfg` | pass | Every order of up to 3 inserts on any tracked block (vote 1 or 2) keeps heads right, and the graph refines `VoteWeights`. A split one hash off, or an append to a node other than the nearest, makes some block's weight wrong, so the refinement also checks the edges. |
| vote_graph_numbers | `MC_VoteGraph_numbers.cfg` | violation | A vote on B that claims number 4 instead of 3 is stored with that number, so `in_direct_ancestry` reads one slot off on B's edge. The graph then reports A's weight without that vote, and `RefinesVoteWeights` fails. |
| vote_graph_descendents | `MC_VoteGraph_descendents.cfg` | violation | Insert B, then A: `introduce_branch` makes A the ancestor node of B, but genesis still lists B and not A as a descendent. |
| voting_round_safety | `MC_VotingRound.cfg` | pass | There are 3 voters and the local voter is not primary. The previous round publishes two successive snapshots: its estimate moves from C3 to B2, and its finalized block from B1 to B2. The primary may propose C3 (in the previous GHOST's ancestry, so it is taken) or D3 (on the other fork, so it is refused), and the best chain may return None. Under all of these, the local voter prevotes on chains through its estimate, and returns only once that estimate is finalized. |
| voting_round_byzantine | `MC_VotingRound_byz.cfg` | pass | 4 voters; the primary F is Faulty: it proposes B1, C2 or D2 and casts two arbitrary votes, equivocations included. The tree is the fork B1 - C2, B1 - D2, where C2 (the previous estimate) and D2 have the same number. The local voter exits only once the estimate is finalized, although `is_completable` and `construct_prevote` compare numbers only. The run reaches the `NotDescendent` fallback of `construct_prevote`. Seen through its State, the node refines `VoterProtocol` (`ImplementsVoterProtocol`), which also rules out a second vote of either kind and a vote off the seen estimates' chains. |
| voting_round_primary | `MC_VotingRound_primary.cfg` | pass | The local voter is primary, and its previous estimate moves from C3 to B2, neither finalized. It refines `VoterProtocol`, which allows one proposal, before prevoting, however many Start and Proposed iterations happen. |
| voting_round_cease | `MC_VotingRound_cease.cfg` | pass | There are 4 voters, so the three others make a prevote-GHOST without the local voter, and the best chain may return None. A local voter that could not construct its prevote never precommits (`PrecommitOnlyAfterPrevote`), although its loop moves to Prevoted and its precommit timer fires. `VoterProtocol` allows such a precommit, so only this property checks that `voting` is switched off. |
| voting_round_live | `MC_VotingRound_live.cfg` | pass | There are 4 voters, honest fair peers and fair scheduling. The chain is B1 - B2, and the previous estimate B2 is finalized only by the previous round's second state, which may come at any time. `run` eventually returns. |
| voting_round_faults | `MC_VotingRound_faults.cfg` | pass | The local voter is primary, and every Environment call may fail: sends before or after the message went out, the incoming stream, `best_chain_containing`. The node still refines `VoterProtocol`. A failure ends the round for good, and at most the message of the failing step went out. |
| voting_round_timer | `MC_VotingRound_timer.cfg` | violation | With 3 voters, the fused precommit timer can fire before the GHOST reaches the estimate. It is then never selected again, and the round never completes. |
| voting_round_observer | `MC_VotingRound_observer.cfg` | violation | A non-voter that enters Precommitted after the last input never re-checks `is_completable`, and hangs. |

Every property of a passing run has a mutant in PROJECT.json: a plausible
bug in the modelled code that TLC must catch under that run's config.
Examples are a drain offset one off, a dropped ancestry check, a dropped
precommit gate, and a `<` in place of `<=`.

### Bounds and why they are enough

- **VoteGraph: 3 inserts on the 10-block test tree.**
  - Three inserts reach every structural case: append on a line, a branch below a node, a branch shared by two nodes, and an insert on a tracked hash.
  - They cover both forks and every insert order. A fourth insert only repeats these shapes.
  - The numbers run lets a claimed number be one too high. Two inserts already show the damage.
- **VotingRound safety: T = 3, two snapshots, one foreign proposal.**
  - The snapshot sequence lets the estimate move down after a prevote (the stale-state case).
  - The proposal targets are C3 and D3. Both are below the previous GHOST C4, so `construct_prevote` looks them up in its ancestry. C3 is found there and is taken; D3 has C3's number but is on the other fork, and is refused.
  - More targets (G below the base, B1) multiply the states without reaching another branch of `construct_prevote`. T = 4 gives the same verdicts but took ten minutes. So the checked config uses T = 3 and two targets.
- **Byzantine: T = 4 with f = 1, one snapshot, two faulty votes and one faulty proposal.** A second snapshot or a third faulty vote takes TLC past ten million states. Two faulty votes already make a precommit equivocation, or a prevote on the other fork followed by a precommit.
- **Primary: T = 3, two unfinalized snapshots,** so that a second `primary_propose` would carry a different estimate.
- **Cease: T = 4 with the local voter not primary, on the line B1 - B2 - C3.** With T = 3 the GHOST needs the local prevote, so a node without one never reaches the precommit decision; with 4 voters the three others reach the threshold alone.
- **Liveness: T = 4 on the 2-block line B1 - B2**, so that one voter may be slow while the others still reach the threshold. The previous round finalizes B2 only in its second state, so the exit waits either for that update or for this round's finalization. A longer line only adds vote targets, with no new order of events. It made the liveness graph too large to check alongside the others.
- **Faults: T = 3 on the 3-block line B1 - B2 - C3, local primary.** The best chain offers B2 or C3. A second prevote after a failed send would therefore be a visible equivocation, rather than a duplicate of the first.

### Fairness

Each node's `run` is a task polled whenever an input is ready. So there is `WF(LocalStep(v))` for every node `v` of `Locals`: an enabled step of its loop eventually happens.

Gossip delivers every message eventually, and honest peers vote, so there is
weak fairness on the union of the other voters' prevote and precommit steps.
Those steps are finitely many, so each enabled one eventually happens.

The previous round keeps publishing, so there is `WF(PreviousRoundUpdate)`.

Proposals of other voters and the votes of Faulty voters have no fairness: the code must not rely on them.

The safety, liveness and fault runs turn deadlock checking off. A loop that waits for input that never comes, and a run that returned Err, are states the program really reaches. `EventuallyCompleted` is what rules out a stuck round where one must not happen.

## 4. Findings

1. **`introduce_branch` never updates the former ancestor node's `descendents`** (vote_graph.rs:195). `HeadsAreLeaves` and the weights are unaffected, because the weight walk follows `ancestors`. Any code that walks `descendents` from the base, such as a GHOST search, misses the new branch node.
2. **The fused precommit timer is consumed by a refused precommit** (voting_round.rs:445). This is the `voting_round_timer` run.
3. **Precommitted waits for an input before its first exit check** (voting_round.rs:496). This is the `voting_round_observer` run.
4. **`VoteGraph::insert` does not check the number it is given** (vote_graph.rs:85). spec.md 4.1 asks for a mismatch to be rejected with an error, but the code stores it. A vote's `target_number` comes from the sender, so a single faulty message misplaces weight in the graph. This is the `vote_graph_numbers` run.

## 5. Not modelled, and the plan for later work

Not modelled yet:

- The panics of `expect` and `unreachable!` (the Poisoned state). They are unreachable here: every previous-round state of the model has an estimate and a prevote-GHOST, which is what the `expect` messages assume, and the loop never reads a Poisoned state.
- What the caller does with an Err from `run`: it is outside the repository.
- A chain that changes under the graph. `append` unwraps `chain.ancestry(base, hash)` and expects a tracked hash in it. On the fixed chain of the model the base is always tracked and ends every ancestry of a hash at or above it, so these panics cannot happen, and a property saying so would hold whatever `insert` did. They would need a chain that forgets or does not yet know a block between the caller's filter and the insert.
- The equivocation records of imports. As spec.md 4.2 says, the Round counts a voter's first vote only. The record of a later distinct vote is dropped by VotingRound (a TODO in the code), so the model does not keep it.
- The Round keeping its weights in VoteGraphs. Its operators work on vote maps. VoteGraph is checked on its own to report the same weights (`RefinesVoteWeights`). The GHOST search over the graph (`find_ghost`) is not in this repository.
- Cancellation of the task.
- Vote weights other than 1.
- The outer Voter and the CompletableRound handoff, which are not in the repository.

Plan:

1. **Round over VoteGraph.** Compute prevote-GHOST and estimate from a `VoteGraph` instance rather than vote maps, and check that the two agree.
2. **Several VotingRound nodes over one network.** `Locals` allows it. A first attempt had two code nodes, one honest voter and one Faulty voter on a 3-block fork. It took 11 million states and over 6 minutes. Its agreement property ("two nodes never see conflicting blocks finalized") also holds whatever the round code does: honest nodes cast one vote of each kind, and first-vote views keep quorum intersection. So it was left out.
3. **Liveness under errors.** With `MayFail`, `EventuallyCompleted` fails trivially. Its counterpart, "run eventually returns Ok or Err", is not checked separately. An Err is final, so the counterpart adds nothing over `EventuallyCompleted` on runs without errors.
