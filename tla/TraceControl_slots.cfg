SPECIFICATION Spec
CONSTANTS
    c1 = c1
    c2 = c2
    k1 = k1
    Looper = Looper
    None = None
    Callers <- TwoCallers
    Keys <- OneKey
    StartArgs <- WellFormed
    StopOps <- StopOnly
    MaxTraces = 2
    MAX_TRACES = 2
SYMMETRY CallerSymmetry
INVARIANTS
    NothingThrown
    MaskMatchesSlots
    
