SPECIFICATION FairSpec
CONSTANTS
    MaxGeneration = 6
    MaxLegacy = 2
INVARIANTS
    TypeOK
    OneChain
PROPERTIES
    StaleTicksStayDead
    ChainRefinement
    ChainKeepsSweeping
