SPECIFICATION FairSpec
CONSTANTS
    Port <- ThreePorts
    MaxForeign = 1
    MaxFaults = 1
    MaxBundles = 1
INVARIANTS
    ExecutableWorks
PROPERTIES
    CommandsSound
    CommandEnds
CHECK_DEADLOCK FALSE
