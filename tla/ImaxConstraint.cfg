CONSTANTS
    Params = 3
    Weights <- MCWeights
    Values <- MCValues
    None = None
    Constraints <- MCImaxConstraints
    Arguments <- MCArguments
    Callers <- MCBareCaller
    Obligations <- MCObligations
    MaxStored = 1
    MaxNodes = 4
    MaxEdges = 7
SPECIFICATION Spec
INVARIANT InstanceSound
CHECK_DEADLOCK FALSE
