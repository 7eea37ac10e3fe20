CONSTANTS
    Block <- MC_Block
    Parent <- MC_Parent
    GenesisNumber = 1
    NullHash = "NULL"
    BaseHash = "genesis"
    VoteValue = {1, 2}
    MaxInserts = 2
    NumberSkew = {0, 1}
SPECIFICATION Spec
PROPERTIES
    RefinesVoteWeights
CHECK_DEADLOCK FALSE
