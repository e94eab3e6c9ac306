---------------------------- MODULE QueryProperties ----------------------------
(***************************************************************************)
(* What the arena and its queries promise, against the values a type has.  *)
(***************************************************************************)
EXTENDS TypeQueries, TypeMeaning

CONSTANT Value   \* [kind, and literal | fields | elements]

-----------------------------------------------------------------------------
(* Types the value semantics speaks of.                                    *)
Reached(id) == Reach(space.arena, id, {})

Plain(id) ==
    \A i \in Reached(id) :
        LET node == Get(space.arena, i)
        IN  node.kind # "function" /\ ~Named(node, {"any", "error"})

Compared(a, b) == Comparable(space.arena, Reached(a), Reached(b))

Settled_ == \A slot \in Slots(space.arena) : space.arena.decls[slot].state = "resolved"

(* No step of the arena looks at a table or an answer: every arena that is *)
(* reached is reached before the first question too, and a property of it  *)
(* is evaluated there.                                                     *)
Fresh == asks = 0

-----------------------------------------------------------------------------

(* Every answer, remembered or not, is what the types say at the moment it *)
(* is given (queries.rs:29-35, arena.rs:885-907), in an arena every id of  *)
(* which is there; and what the tables of the arena hold, which other      *)
(* walks read, is current at every moment.                                 *)
AnswersAreCurrent ==
    /\ TypeOK
    /\ \A id \in DOMAIN empties : empties[id] = ReducesToNever(space.arena, id)
    /\ \A pair \in DOMAIN equalities :
          equalities[pair] = StructurallyEqual(space.arena, pair[1], pair[2])
    /\ \A id \in DOMAIN mentions : mentions[id] = Mentions(space.arena, id)
    /\ answer.said =
           CASE answer.ask = "subtype" -> Subtype(space.arena, answer.of[1], answer.of[2])
             [] answer.ask = "disjoint" -> Disjoint(space.arena, answer.of[1], answer.of[2])
             [] answer.ask = "equal" -> StructurallyEqual(space.arena, answer.of[1], answer.of[2])
             [] answer.ask = "empty" -> ReducesToNever(space.arena, answer.of[1])
             [] answer.ask = "mentions" -> Mentions(space.arena, answer.of[1])
             [] OTHER -> answer.said

(* A type read while the declarations it names were unfinished has, once   *)
(* they are finished, the values of what is written: unions and            *)
(* intersections lost, cancelled or distributed nothing on the way, and a  *)
(* generic declaration was applied to its arguments.                       *)
MeansWhatIsWritten ==
    Fresh /\ Settled_ =>
        \A i \in DOMAIN roots : (roots[i] # NoType /\ Plain(roots[i])) =>
            \A v \in Value : Has(space.arena, v, roots[i])
                             <=> Denotes(scenario.program, v, scenario.written[i], << >>)

(* is_subtype: a value of the subtype can be used as the other, which asks *)
(* for no optional property; is_disjoint: true only when no value has both *)
(* types; structurally_equal, if it says so both ways round: both have the *)
(* same.  No answer is ever a guess, in an arena where reading and opening *)
(* types comes to an end.                                                  *)
RelationsAreSound ==
    LET arena == space.arena
        related == UNION {{<<a, b>> : b \in {id \in Roots : Compared(a, id) /\ Subtype(arena, a, id)}}
                             : a \in Roots}
        apart == UNION {{<<a, b>> : b \in {id \in Roots : Disjoint(arena, a, id)}} : a \in Roots}
        equal == UNION {{<<a, b>> : b \in {id \in Roots : StructurallyEqual(arena, a, id)}} : a \in Roots}
    IN  Fresh =>
          /\ IsReadable(arena) /\ IsGrounded(arena)
          /\ \A v \in Value :
                LET of == {a \in Roots : Has(arena, v, a)}
                IN  /\ \A pair \in related : pair[1] \in of => pair[2] \in of
                    /\ \A pair \in apart : ~(pair[1] \in of /\ pair[2] \in of)
                    /\ \A pair \in equal :
                          <<pair[2], pair[1]>> \in equal => (pair[1] \in of <=> pair[2] \in of)

(* The rules with the assumptions of the walk say what the rules say: the  *)
(* largest relation that its own unfolding allows.                         *)
Greatest(arena, ids) ==
    LET shrink[held \in SUBSET (ids \X ids)] ==
            LET relates == [pair \in IdPairs(arena) |-> pair \in held]
                next(kept) == IF kept = held THEN held ELSE shrink[kept]
            IN  next({pair \in held : \/ Trivial(arena, pair[1], pair[2])
                                     \/ Rules(arena, relates, pair[1], pair[2])})
    IN  shrink[ids \X ids]

SubtypeIsGreatest ==
    LET greatest == Greatest(space.arena, UNION {Reached(id) : id \in Roots})
    IN  Fresh => \A a, b \in Roots : Subtype(space.arena, a, b) <=> <<a, b>> \in greatest

(* function_is_subtype_with: a function used as another takes every list   *)
(* of arguments the other takes; what is too many for it, it ignores.      *)
FunctionsSubstitutable ==
    Fresh => \A a, b \in Roots :
        LET f == Get(space.arena, a)
            g == Get(space.arena, b)
        IN  (f.kind = "function" /\ g.kind = "function" /\ Subtype(space.arena, a, b)) =>
              \A n \in 0 .. 2 : \A args \in [1 .. n -> {v \in Value : v.kind # "object"}] :
                  LET Holds(v, id) == Has(space.arena, v, id)
                  IN  TakesList(Holds, space.arena, g, args, FALSE) => TakesList(Holds, space.arena, f, args, TRUE)
=============================================================================
