CONSTANTS
    jsonMarshaller = jsonMarshaller
    Nil = Nil
    MaxTicks = 4
    MaxSignals = 2
    Configs <- MCConfigs

SPECIFICATION FairSpec

\* The example programs return from main, or are killed by a signal.
CHECK_DEADLOCK FALSE

INVARIANTS
    TypeOK
    HostMatchesConfig
    
    HostClosedOnExit

PROPERTIES
    InterruptEndsProgram
