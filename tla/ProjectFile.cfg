SPECIFICATION Spec
CONSTANTS
    Uris <- MCUris
    InitialFiles <- MCInitialFiles
    MaxEdits = 1
    MaxWrites = 1
INVARIANTS
    
    
    FiltersKeepSettings
CHECK_DEADLOCK FALSE
