---------------------------- MODULE ComponentOrder ----------------------------
(***************************************************************************)
(* What the component search promises while it runs: it emits components   *)
(* whole, each once, and each only after every component it depends on.    *)
(***************************************************************************)
EXTENDS Digraphs, Sequences

CONSTANT Graphs  \* the graphs Init chooses from

VARIABLES dependencies,  \* the graph
          found          \* the components emitted so far, in order

Emitted == UNION {found[i] : i \in DOMAIN found}

(* A component that is ready: everything it depends on has been emitted.   *)
Ready(component) ==
    /\ component \cap Emitted = {}
    /\ \A m \in component : dependencies[m] \subseteq component \cup Emitted

OrderInit ==
    /\ dependencies \in Graphs
    /\ found = << >>

Emit ==
    /\ \E m \in Nodes(dependencies) :
          LET component == ComponentOf(dependencies)[m]
          IN  Ready(component) /\ found' = Append(found, component)
    /\ UNCHANGED dependencies

OrderSpec == OrderInit /\ [][Emit]_<<dependencies, found>>
=============================================================================
