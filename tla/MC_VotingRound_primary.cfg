CONSTANTS
    Block <- MC_BlockSmall
    Parent <- MC_ParentSmall
    GenesisNumber = 1
    NullHash = "NULL"
    NoBlock = "None"
    Voters <- MC_Voters3
    PrimaryVoter = "L"
    Locals = {"L"}
    Faulty = {}
    MaxFaultyVotes = 0
    RoundBase = "B1"
    PrevStates <- MC_PrevStatesPrimary
    ProposalTargets = {"C3"}
    MaxProposals = 0
    BestChainMayFail = TRUE
    MayFail = FALSE
SPECIFICATION Spec
PROPERTIES
    ImplementsVoterProtocol
CHECK_DEADLOCK FALSE
