CONSTANTS
    Params = 3
    Weights <- MCWeights
    Values <- MCValues
    None = None
    Constraints <- MCConstraints
    Arguments <- MCArguments
    Callers <- MCBothCallers
    Obligations <- MCObligations
    MaxStored = 3
    MaxNodes = 4
    MaxEdges = 7
SPECIFICATION Spec
INVARIANTS
    ClosureSound
    EntailmentSound
    AtomsDecided
    InstanceSound
CHECK_DEADLOCK FALSE
