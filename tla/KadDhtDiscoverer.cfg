CONSTANTS
    c1 = c1
    c2 = c2
    c3 = c3
    NoCaller = NoCaller
    Callers <- MCCallers
    Args <- MCArgs
    MinInterval <- MCMinInterval

SPECIFICATION Spec

PROPERTIES
    BootstrapReturns
    BackgroundLoopsStop
    ImplementsAbstract

CHECK_DEADLOCK FALSE
