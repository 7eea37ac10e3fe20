CONSTANTS
    Block <- MC_BlockLine
    Parent <- MC_ParentLine
    GenesisNumber = 1
    NullHash = "NULL"
    NoBlock = "None"
    Voters <- MC_Voters3Observed
    PrimaryVoter = "V1"
    Locals = {"O"}
    Faulty = {}
    MaxFaultyVotes = 0
    RoundBase = "B1"
    PrevStates <- MC_PrevStatesSmall
    ProposalTargets = {"C3"}
    MaxProposals = 0
    BestChainMayFail = FALSE
    MayFail = FALSE
SPECIFICATION FairSpec
PROPERTIES
    EventuallyCompleted
CHECK_DEADLOCK FALSE
