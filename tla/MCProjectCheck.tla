--------------------------- MODULE MCProjectCheck ---------------------------
(***************************************************************************)
(* Projects for ProjectCheck in which what a file is told depends on when  *)
(* the files next to it in its layer publish: cycles that settle and one   *)
(* that never does, augmentations, ambient modules, a global, crashes.     *)
(***************************************************************************)
EXTENDS ProjectCheck, MCLayeredCheck

CONSTANTS w1, w2  \* workers

RacingProjects ==
    {Oscillating} \cup RingProjects \cup LateGlobal \cup CrashedBlock
    \cup {p \in AugmentProjects : p.fault[a] = "none" /\ p.role[a] = "source"}
    \cup {p \in AmbientProjects : p.ambient[b] # {} /\ p.ambient[c] # {}}
    \cup {Three([Importing(b, x) EXCEPT !.decls = {x}],
                [Starring(<<c, a>>) EXCEPT !.froms = {From(c, x, y)}], u, TRUE) :
            u \in {Starring(<<b, a>>), [Declaring({x}) EXCEPT !.froms = {From(b, y, x)}]}}

=============================================================================
