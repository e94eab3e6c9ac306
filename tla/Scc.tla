---------------------------------- MODULE Scc ----------------------------------
(***************************************************************************)
(* The iterative component search and the layering of src/src/scc.rs: one  *)
(* action per turn of its loops.  Nodes and a node's dependencies are      *)
(* lists there, in an order the caller chooses; here the next of either is *)
(* any one that is left, so every order is covered.                        *)
(***************************************************************************)
EXTENDS Digraphs, SequencesExt

CONSTANT Graphs  \* the graphs a search may be given

ASSUME GraphsAssumption ==
    \A graph \in Graphs :
        IsFiniteSet(Nodes(graph)) /\ graph \in [Nodes(graph) -> SUBSET Nodes(graph)]

VARIABLES
    dependencies,  \* the graph
    found,     \* the components emitted so far, in order
    order,     \* order: the visited nodes and when each was first seen
    lowLink,   \* low_link
    stack,     \* stack, whose members are the nodes on_stack
    frames,    \* a node and the dependencies it has not looked at
    depth,     \* layers: the depth of each component, 0 until it is placed
    placed,    \* how many components have been placed
    layers     \* layers

(* What the search promises; its stacks are not part of it.                *)
Order == INSTANCE ComponentOrder WITH dependencies <- dependencies, found <- found

search == <<order, lowLink, stack, frames, found>>
vars == <<dependencies, search, depth, placed, layers>>

Visited == DOMAIN order

OnStack == ToSet(stack)

Unvisited == Nodes(dependencies) \ Visited

Less(m, n) == IF m < n THEN m ELSE n

SccInit ==
    /\ dependencies \in Graphs
    /\ found = << >>
    /\ order = << >> /\ lowLink = << >>
    /\ stack = << >> /\ frames = << >>
    /\ depth = << >> /\ placed = 0 /\ layers = << >>

(* A node seen for the first time goes on both stacks.                     *)
Visit(node, waiting) ==
    LET now == Cardinality(Visited)
        seen(f) == [m \in Visited \cup {node} |-> IF m = node THEN now ELSE f[m]]
    IN  /\ order' = seen(order)
        /\ lowLink' = seen(lowLink)
        /\ stack' = Append(stack, node)
        /\ frames' = Append(waiting, [node |-> node, left |-> dependencies[node]])
        /\ UNCHANGED <<dependencies, found, depth, placed, layers>>

StartRoot ==
    /\ frames = << >>
    /\ \E root \in Unvisited : Visit(root, frames)

(* The frame on top, and the frames once it has looked at next.            *)
Top == Last(frames)

Looked(next) == Append(Front(frames), [Top EXCEPT !.left = @ \ {next}])

Descend ==
    /\ frames # << >>
    /\ \E next \in Top.left \cap Unvisited : Visit(next, Looked(next))

(* Mistake: the count of dependencies looked at is not advanced.           *)
LookAgain ==
    /\ frames # << >>
    /\ \E next \in Top.left \cap Visited :
          lowLink' = IF next \in OnStack
                     THEN [lowLink EXCEPT ![Top.node] = Less(@, order[next])] ELSE lowLink
    /\ UNCHANGED <<dependencies, order, stack, frames, found, depth, placed, layers>>

(* Mistake: on_stack is not asked.                                         *)
LookAtAny ==
    /\ frames # << >>
    /\ \E next \in Top.left \cap Visited :
          /\ lowLink' = [lowLink EXCEPT ![Top.node] = Less(@, order[next])]
          /\ frames' = Looked(next)
    /\ UNCHANGED <<dependencies, order, stack, found, depth, placed, layers>>

(* A dependency that was seen before counts while it is on the stack.      *)
LookAtVisited ==
    /\ frames # << >>
    /\ \E next \in Top.left \cap Visited :
          /\ lowLink' = IF next \in OnStack
                        THEN [lowLink EXCEPT ![Top.node] = Less(@, order[next])] ELSE lowLink
          /\ frames' = Looked(next)
    /\ UNCHANGED <<dependencies, order, stack, found, depth, placed, layers>>

(* The frame is done: its parent takes over its low link, and a node that  *)
(* reaches nothing older closes its component.                             *)
Finish ==
    /\ frames # << >>
    /\ Top.left = {}
    /\ frames' = Front(frames)
    /\ lowLink' = IF Len(frames) = 1 THEN lowLink
                  ELSE [lowLink EXCEPT ![Last(Front(frames)).node] = Less(@, lowLink[Top.node])]
    /\ LET from == CHOOSE i \in DOMAIN stack : stack[i] = Top.node
       IN  IF lowLink[Top.node] = order[Top.node]
           THEN /\ found' = Append(found, {stack[i] : i \in from .. Len(stack)})
                /\ stack' = SubSeq(stack, 1, from - 1)
           ELSE UNCHANGED <<found, stack>>
    /\ UNCHANGED <<dependencies, order, depth, placed, layers>>

-----------------------------------------------------------------------------
(* layers: the components in the order they were found.                    *)

SearchDone == frames = << >> /\ Unvisited = {}

PositionOf(m) == CHOOSE i \in DOMAIN found : m \in found[i]

DepthAt(position) == IF position \in DOMAIN depth THEN depth[position] ELSE 0

(* Mistake: the last dependency decides, not the deepest.                  *)
LastLevel(position) ==
    LET others == {PositionOf(d) : d \in UNION {dependencies[m] : m \in found[position]}}
                  \ {position}
    IN  IF others = {} THEN 0
        ELSE DepthAt(CHOOSE other \in others : \A o \in others : o <= other) + 1

(* One more than the deepest other component this one depends on.          *)
Level(position) ==
    LET others == {PositionOf(d) : d \in UNION {dependencies[m] : m \in found[position]}}
                  \ {position}
        levels == {DepthAt(other) + 1 : other \in others}
    IN  CHOOSE level \in levels \cup {0} : \A other \in levels : other <= level

(* layers, lengthened by empty ones as far as level asks.                  *)
LayerAt(i) == IF i \in DOMAIN layers THEN layers[i] ELSE {}

PlaceComponent ==
    /\ SearchDone
    /\ placed < Len(found)
    /\ LET position == placed + 1
           level == Level(position)
           length == IF Len(layers) <= level THEN level + 1 ELSE Len(layers)
       IN  /\ placed' = position
           /\ depth' = Append(depth, level)
           /\ layers' = [i \in 1 .. length |->
                            IF i = level + 1 THEN LayerAt(i) \cup found[position] ELSE LayerAt(i)]
    /\ UNCHANGED <<dependencies, search>>

AllPlaced == SearchDone /\ placed = Len(found)

Done == AllPlaced /\ UNCHANGED vars

SccNext == StartRoot \/ Descend \/ LookAtVisited \/ Finish \/ PlaceComponent \/ Done

SccSpec == SccInit /\ [][SccNext]_vars

FairSccSpec == SccSpec /\ WF_vars(StartRoot \/ Descend \/ LookAtVisited \/ Finish \/ PlaceComponent)

-----------------------------------------------------------------------------
(* The layers the search's components give are those of the definition: a  *)
(* node is in the layer of the longest chain of components below it, so a  *)
(* file is never checked before what it imports nor later than it must be. *)
LayersAreDepths == AllPlaced => layers = LayersOf(dependencies)

(* Components are emitted whole, each once, and each only after every      *)
(* component it depends on: the search implements ComponentOrder.          *)
OrderSpec == Order!OrderSpec

(* Every graph is searched to the end.                                     *)
SearchEnds == <>AllPlaced
=============================================================================
