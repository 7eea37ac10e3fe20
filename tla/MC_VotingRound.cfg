CONSTANTS
    Block <- MC_Block
    Parent <- MC_Parent
    GenesisNumber = 1
    NullHash = "NULL"
    NoBlock = "None"
    Voters <- MC_Voters3
    PrimaryVoter = "V1"
    Locals = {"L"}
    Faulty = {}
    MaxFaultyVotes = 0
    RoundBase = "B1"
    PrevStates <- MC_PrevStates
    ProposalTargets = {"C3", "D3"}
    MaxProposals = 1
    BestChainMayFail = TRUE
    MayFail = FALSE
SPECIFICATION Spec
INVARIANTS
    TypeOK
    PrevoteExtendsEstimate
    ExitAfterEstimateFinalized
CHECK_DEADLOCK FALSE
