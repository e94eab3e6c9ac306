SPECIFICATION Spec
CONSTANTS
    Property = {"p", "q"}
    Parameter = {}
    Literal = {}
    Names = {"A", "B", "C", "D"}
    Digest <- Collide
    Programs <- ParentNamesChild
    MaxRequests = 3
CHECK_DEADLOCK FALSE
INVARIANT ParentIsCopied
