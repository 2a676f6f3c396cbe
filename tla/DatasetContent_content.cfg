SPECIFICATION DiffsSpec
CONSTANTS
    Stems = {a, b}
    Images = {"good", "corrupt", "locked", "twins"}
    Labels <- MCLabels
    ClassFiles <- MCClassFiles
    Overrides <- MCOverrides
    Fallbacks <- MCFallbacks
    Ratios <- MCRatios
    Predicted <- MCPredicted
    IouThreshold = 5
SYMMETRY StemSymmetry
INVARIANTS
    BuiltIsTrainable
    ReadyFolderBuilds
    LabelsCompare
    PairsAreStable
PROPERTIES
    AcceptedOverrideCovers
    RescanAgrees
CHECK_DEADLOCK FALSE
