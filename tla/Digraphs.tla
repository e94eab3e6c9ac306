------------------------------- MODULE Digraphs -------------------------------
(***************************************************************************)
(* What the component search of src/src/scc.rs promises, by definition.    *)
(* A graph is the function that gives every node the set of nodes it       *)
(* depends on.                                                             *)
(***************************************************************************)
EXTENDS Naturals, FiniteSets

Nodes(graph) == DOMAIN graph

(* No dependency leads out of a closed set.                                *)
Closed(graph, nodes) == \A m \in nodes : graph[m] \subseteq nodes

(* The nodes each node reaches through its dependencies, itself included:  *)
(* those in every closed set it is in.                                     *)
Reachable(graph) ==
    LET closed == {nodes \in SUBSET Nodes(graph) : Closed(graph, nodes)}
    IN  [m \in Nodes(graph) |->
            {n \in Nodes(graph) : \A nodes \in closed : m \in nodes => n \in nodes}]

(* The strongly connected component of each node.                          *)
ComponentOf(graph) ==
    LET reach == Reachable(graph)
    IN  [m \in Nodes(graph) |-> {n \in reach[m] : m \in reach[n]}]

(* The nodes of cycles: they share a component or depend on themselves.    *)
OnCycle(graph) ==
    LET component == ComponentOf(graph)
    IN  {m \in Nodes(graph) : component[m] # {m} \/ m \in graph[m]}

(* The length of the longest chain of components below a node's.           *)
Depth(graph) ==
    LET component == ComponentOf(graph)
        below == [m \in Nodes(graph) |->
                    (UNION {graph[n] : n \in component[m]}) \ component[m]]
        D[n \in 0 .. Cardinality(Nodes(graph))] ==
            IF n = 0 THEN [m \in Nodes(graph) |-> 0]
            ELSE LET lower == D[n - 1]
                 IN  [m \in Nodes(graph) |->
                        CHOOSE d \in 0 .. Cardinality(Nodes(graph)) :
                            /\ \A b \in below[m] : lower[b] < d
                            /\ d = 0 \/ \E b \in below[m] : lower[b] = d - 1]
    IN  D[Cardinality(Nodes(graph))]

(* The nodes of each depth, in order.                                      *)
LayersOf(graph) ==
    LET depth == Depth(graph)
        depths == {depth[m] : m \in Nodes(graph)}
    IN  [i \in {d + 1 : d \in depths} |-> {m \in Nodes(graph) : depth[m] = i - 1}]
=============================================================================
