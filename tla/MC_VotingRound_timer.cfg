CONSTANTS
    Block <- MC_BlockSmall
    Parent <- MC_ParentSmall
    GenesisNumber = 1
    NullHash = "NULL"
    NoBlock = "None"
    Voters <- MC_Voters3
    PrimaryVoter = "V1"
    Locals = {"L"}
    Faulty = {}
    MaxFaultyVotes = 0
    RoundBase = "B1"
    PrevStates <- MC_PrevStatesSmall
    ProposalTargets = {"C3"}
    MaxProposals = 0
    BestChainMayFail = FALSE
    MayFail = FALSE
SPECIFICATION FairSpec
PROPERTIES
    EventuallyCompleted
CHECK_DEADLOCK FALSE
