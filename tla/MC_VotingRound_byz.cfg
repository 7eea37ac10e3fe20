CONSTANTS
    Block <- MC_BlockFork
    Parent <- MC_ParentFork
    GenesisNumber = 1
    NullHash = "NULL"
    NoBlock = "None"
    Voters <- MC_VotersByz
    PrimaryVoter = "F"
    Locals = {"L"}
    Faulty = {"F"}
    MaxFaultyVotes = 2
    RoundBase = "B1"
    PrevStates <- MC_PrevStatesFork1
    ProposalTargets = {"B1", "C2", "D2"}
    MaxProposals = 1
    BestChainMayFail = FALSE
    MayFail = FALSE
SPECIFICATION Spec
INVARIANTS
    ExitAfterEstimateFinalized
PROPERTIES
    ImplementsVoterProtocol
CHECK_DEADLOCK FALSE
