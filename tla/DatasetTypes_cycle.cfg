SPECIFICATION Spec
CONSTANTS
    Types = {"t1", "t2", "t3"}
    Names = {"a", "b"}
    Roots <- MCRoots
    Admins = {"x", "y"}
    MaxDepth = 3
    MaxVersion = 3
INVARIANTS
    TypesFormATree
CHECK_DEADLOCK FALSE
