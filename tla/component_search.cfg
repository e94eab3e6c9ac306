CONSTANTS
    a = a
    b = b
    c = c
    d = d
    Graphs <- SmallGraphs
SPECIFICATION FairSccSpec
INVARIANT LayersAreDepths
PROPERTIES OrderSpec SearchEnds
CHECK_DEADLOCK TRUE
