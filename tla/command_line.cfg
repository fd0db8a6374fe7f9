SPECIFICATION Spec
CONSTANTS
    unnamed = unnamed
    noLevel = noLevel
    Unnamed = unnamed
    NoLevel = noLevel
    Configs <- MCConfigs
    Entries <- MCEntries
    Modules <- MCModules
    Stems <- MCStems
    MaxEdits = 1
INVARIANTS
    CleanExitStopsAll
    OneRunsPerName
    
PROPERTY SignalEnds
CHECK_DEADLOCK FALSE
