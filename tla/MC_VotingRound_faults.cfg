CONSTANTS
    Block <- MC_BlockLine
    Parent <- MC_ParentLine
    GenesisNumber = 1
    NullHash = "NULL"
    NoBlock = "None"
    Voters <- MC_Voters3
    PrimaryVoter = "L"
    Locals = {"L"}
    Faulty = {}
    MaxFaultyVotes = 0
    RoundBase = "B1"
    PrevStates <- MC_PrevStatesSmall
    ProposalTargets = {"B2"}
    MaxProposals = 0
    BestChainMayFail = FALSE
    MayFail = TRUE
SPECIFICATION Spec
PROPERTIES
    ImplementsVoterProtocol
\* A failed run stops for good.
CHECK_DEADLOCK FALSE
