CONSTANTS
    Block <- MC_BlockLine
    Parent <- MC_ParentLine
    GenesisNumber = 1
    NullHash = "NULL"
    NoBlock = "None"
    Voters <- MC_Voters4
    PrimaryVoter = "V1"
    Locals = {"L"}
    Faulty = {}
    MaxFaultyVotes = 0
    RoundBase = "B1"
    PrevStates <- MC_PrevStatesSmall
    ProposalTargets = {"C3"}
    MaxProposals = 0
    BestChainMayFail = TRUE
    MayFail = FALSE
SPECIFICATION Spec
INVARIANTS
    PrecommitOnlyAfterPrevote
CHECK_DEADLOCK FALSE
