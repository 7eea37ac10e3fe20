CONSTANTS
    Block <- MC_BlockPair
    Parent <- MC_ParentPair
    GenesisNumber = 1
    NullHash = "NULL"
    NoBlock = "None"
    Voters <- MC_Voters4
    PrimaryVoter = "V1"
    Locals = {"L"}
    Faulty = {}
    MaxFaultyVotes = 0
    RoundBase = "B1"
    PrevStates <- MC_PrevStatesPair
    ProposalTargets = {"B2"}
    MaxProposals = 0
    BestChainMayFail = FALSE
    MayFail = FALSE
SPECIFICATION FairSpec
PROPERTIES
    EventuallyCompleted
\* The run loop may wait for input forever (a stuck round is a state the
\* program really reaches); EventuallyCompleted is what rules it out.
CHECK_DEADLOCK FALSE
