CONSTANTS
    Block <- MC_Block
    Parent <- MC_Parent
    GenesisNumber = 1
    NullHash = "NULL"
    BaseHash = "genesis"
    VoteValue = {1, 2}
    MaxInserts = 3
    NumberSkew = {0}
SPECIFICATION Spec
INVARIANTS
    TypeOK
    HeadsAreLeaves
PROPERTIES
    RefinesVoteWeights
CHECK_DEADLOCK FALSE
