SPECIFICATION Spec
CONSTANTS
    Property = {"p", "q"}
    Parameter = {}
    Literal = {}
    Names = {"A", "B", "C", "D"}
    Digest <- Collide
    Programs <- AllPrograms
    MaxRequests = 3
CHECK_DEADLOCK FALSE
INVARIANTS NotEnteredTwice NothingHalfBuilt OneIdPerContent MembersNameTheirTypes UnionsAreWhole InheritsFromOthers SoundIsResolved
PROPERTY RequestsEnd
