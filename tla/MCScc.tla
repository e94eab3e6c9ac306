-------------------------------- MODULE MCScc --------------------------------
(***************************************************************************)
(* Every graph of three nodes, loops included, and graphs of four built on *)
(* a path or a ring.                                                       *)
(***************************************************************************)
EXTENDS Scc

CONSTANTS a, b, c, d

AllOfThree == [{a, b, c} -> SUBSET {a, b, c}]

(* Four nodes, three or all on a path, or on a ring, with any two more     *)
(* dependencies.                                                           *)
OfFour ==
    LET base == {[n \in {a, b, c, d} |-> CASE n = a -> {b} [] n = b -> {c} [] n = c -> next
                                           [] n = d -> back] : next \in {{}, {d}}, back \in {{}, {a}}}
        extra == {a, b, c, d} \X {a, b, c, d}
    IN  {[n \in {a, b, c, d} |-> (g[n] \cup {e[2] : e \in {x \in {p, q} : x[1] = n}})] :
            g \in base, p \in extra, q \in extra}

SmallGraphs == AllOfThree \cup OfFour
=============================================================================
