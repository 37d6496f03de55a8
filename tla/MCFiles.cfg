SPECIFICATION Spec
CONSTANTS
    MountPoints <- SomeMounts
    ReadOnly <- SomeReadOnly
    InitialTree <- ATree
    Programs <- SomePrograms
    OwnPid = "7"
    Scripts = {2}
    Interpreters <- SomeInterpreters
    FileIds = {1, 2}
    MaxLen = 1
    Homes <- SomeHomes
    MaxHops = 2
    MaxNodes = 4
    Limit = 1
    Paths <- SomePaths
    Probes <- SomeProbes
    Targets <- SomeTargets
    OpenFlags <- SomeFlags
VIEW StateOnly
INVARIANTS TypeOK ProgramsStay ResolutionIsAWalk ListingAgreesWithLookup
PROPERTIES ReadOnlyStays RefusedCallsChangeNothing FilesKeepTheirNames
