------------------------------ MODULE TypeQueries ------------------------------
(***************************************************************************)
(* What the checker remembers about types while declarations are still     *)
(* being resolved: the relation cache of src/src/semantic/queries.rs and   *)
(* the three tables of src/src/arena.rs that answer a question twice.      *)
(***************************************************************************)
EXTENDS Annotations

CONSTANTS Scenarios,   \* files: [program, written, asked], declarations,
                       \* annotations, [ask, a, b] about annotations
          MaxAsks,     \* questions asked
          Followed     \* the files another file is checked after

VARIABLES file,        \* the file being checked
          space,       \* its namespace and the arena
          open,        \* declarations begun and not finished, outermost first
          roots,       \* the types of the annotations read so far, in order
          generation,  \* TypeArena::generation
          relations,   \* RelationCache
          equalities,  \* equality_cache
          empties,     \* empty_intersections
          mentions,    \* param_scan
          answer,      \* the last question and what was answered
          asks, clears \* bounds

tables == <<generation, relations, equalities, empties, mentions>>

vars == <<file, space, open, roots, tables, answer, asks, clears>>

scenario == Scenarios[file]

NoAnswer == [ask |-> "none", of |-> << >>, said |-> FALSE]

NewRelations == [generation |-> 0, values |-> << >>]

TypeOK ==
    /\ file \in DOMAIN Scenarios
    /\ IsArena(space.arena)
    /\ \A i \in DOMAIN open : open[i] \in DOMAIN scenario.program
    /\ roots \in Seq(Ids(space.arena) \cup {NoType})
    /\ Len(roots) <= Len(scenario.written)
    /\ generation \in Nat /\ relations.generation \in 0 .. generation
    /\ DOMAIN empties \cup DOMAIN mentions \subseteq Ids(space.arena)
    /\ asks \in 0 .. MaxAsks /\ clears \in 0 .. 1

Init ==
    /\ file \in DOMAIN Scenarios
    /\ space = NewNamespace(scenario.program)
    /\ open = << >> /\ roots = << >>
    /\ generation = 0 /\ relations = NewRelations
    /\ equalities = << >> /\ empties = << >> /\ mentions = << >>
    /\ answer = NoAnswer /\ asks = 0 /\ clears = 0

-----------------------------------------------------------------------------
(* The arena grows, and references get bodies.                             *)

ResolvedSlots(arena) == {slot \in Slots(arena) : arena.decls[slot].state = "resolved"}

(* Mistake: the tables of the arena are emptied, the generation stays.     *)
KeepGeneration(new) ==
    LET none == ResolvedSlots(new) = ResolvedSlots(space.arena)
    IN  /\ equalities' = IF none THEN equalities ELSE << >>
        /\ empties' = IF none THEN empties ELSE << >>
        /\ mentions' = IF none THEN mentions ELSE << >>
        /\ UNCHANGED <<relations, generation>>

(* resolve_ref: the generation moves and the tables of the arena are       *)
(* emptied; neither happens for a new type or a failed reference.          *)
Forget(new) ==
    LET resolved == ResolvedSlots(new) \ ResolvedSlots(space.arena)
    IN  /\ generation' = generation + Cardinality(resolved)
        /\ equalities' = IF resolved = {} THEN equalities ELSE << >>
        /\ empties' = IF resolved = {} THEN empties ELSE << >>
        /\ mentions' = IF resolved = {} THEN mentions ELSE << >>
        /\ UNCHANGED relations

(* The names a written type mentions.                                      *)
RECURSIVE NamesIn(_)
NamesIn(written) ==
    CASE written.kind = "name" -> {written.name} \cup UNION {NamesIn(arg) : arg \in Range(written.args)}
      [] written.kind = "array" -> NamesIn(written.of)
      [] written.kind \in {"union", "intersection"} -> UNION {NamesIn(of) : of \in Range(written.of)}
      [] written.kind = "object" -> UNION {NamesIn(member.of) : member \in Range(written.members)}
      [] written.kind = "function" ->
           NamesIn(written.returns) \cup UNION {NamesIn(param.of) : param \in Range(written.params)}
      [] OTHER -> {}

(* A declaration is begun: the file asks for it, or the one being read.    *)
Enter(name) ==
    /\ open # << >> => name \in NamesIn(scenario.program[Last(open)].body)
    /\ space.entries[name].resolved = NoType /\ ~space.entries[name].resolving
    /\ name \notin Range(open)
    /\ space' = Begin(space, name)
    /\ open' = Append(open, name)
    /\ answer' = NoAnswer
    /\ UNCHANGED <<file, roots, tables, asks, clears>>

(* The innermost declaration is read and finished, everything its body     *)
(* asks for with it.                                                       *)
Complete ==
    /\ open # << >>
    /\ space' = Finish(ReadBody(space, space.entries[Last(open)].decl), Last(open))
    /\ open' = Front(open)
    /\ Forget(space'.arena)
    /\ answer' = NoAnswer
    /\ UNCHANGED <<file, roots, asks, clears>>

(* The next annotation of the file is read: while a declaration is open it *)
(* stands for one inside it, and applies nothing.                          *)
Write ==
    /\ Len(roots) < Len(scenario.written)
    /\ open # << >> => \A name \in NamesIn(scenario.written[Len(roots) + 1]) :
                          scenario.program[name].params = << >>
    /\ space' = Read(space, scenario.written[Len(roots) + 1])
    /\ roots' = Append(roots, space'.id)
    /\ Forget(space'.arena)
    /\ answer' = NoAnswer
    /\ UNCHANGED <<file, open, asks, clears>>

NextFile == (file % Len(Scenarios)) + 1

(* The file is read; of what came of it only a file something was asked    *)
(* about, and something can still be asked after, is followed further.     *)
FileRead ==
    /\ open = << >> /\ Len(roots) = Len(scenario.written)
    /\ file \in Followed /\ clears = 0 /\ asks \in 1 .. MaxAsks - 1

(* clear: the arena starts over for the next file.                         *)
Clear ==
    /\ FileRead
    /\ file' = NextFile
    /\ space' = NewNamespace(Scenarios[NextFile].program)
    /\ roots' = << >> /\ clears' = clears + 1 /\ answer' = NoAnswer
    /\ generation' = generation + 1
    /\ equalities' = << >> /\ empties' = << >> /\ mentions' = << >>
    /\ UNCHANGED <<open, relations, asks>>

-----------------------------------------------------------------------------
(* Questions.                                                              *)

Answered(ask, of, said) ==
    /\ asks < MaxAsks
    /\ asks' = asks + 1
    /\ answer' = [ask |-> ask, of |-> of, said |-> said]
    /\ UNCHANGED <<file, space, open, roots, generation, clears>>

(* prepare: answers of an older generation are dropped.                    *)
Prepared ==
    IF relations.generation = generation THEN relations
    ELSE [generation |-> generation, values |-> << >>]

(* The walk from a to b asks of a, if it is an intersection, whether it is *)
(* empty, and of those it comes to before it knows its answer: any of what *)
(* a and b are made of.                                                    *)
Intersections(ids) == {id \in ids : Get(space.arena, id).kind = "intersection"}

MayMeet(a, b) ==
    LET first == IF Named(Get(space.arena, b), {"unknown"}) THEN {} ELSE Intersections({a})
        others == Intersections(Reach(space.arena, a, {}) \cup Reach(space.arena, b, {}))
    IN  {first \cup more : more \in SUBSET (others \ first)}

(* intersection_reduces_to_never remembers the answer.                     *)
WithEmpties(met) ==
    [id \in DOMAIN empties \cup met |->
        IF id \in DOMAIN empties THEN empties[id] ELSE ReducesToNever(space.arena, id)]

(* is_subtype: what needs no walk is not stored.  The walk takes from the  *)
(* table of empty intersections what it would find out itself, as long as  *)
(* that table is current.                                                  *)
AskSubtype(a, b) ==
    LET key == <<"subtype", a, b>>
        trivial == Trivial(space.arena, a, b)
        known == key \in DOMAIN Prepared.values
        said == IF trivial THEN TRUE ELSE IF known THEN Prepared.values[key]
                ELSE Subtype(space.arena, a, b)
    IN  /\ Answered("subtype", <<a, b>>, said)
        /\ relations' = IF trivial THEN Prepared
                        ELSE [Prepared EXCEPT !.values = With(@, key, said)]
        /\ \E met \in IF trivial \/ known THEN {{}} ELSE MayMeet(a, b) : empties' = WithEmpties(met)
        /\ UNCHANGED <<equalities, mentions>>

(* is_disjoint: one entry for a pair, whichever way round.                 *)
AskDisjoint(a, b) ==
    LET key == <<"disjoint", IF a <= b THEN a ELSE b, IF a <= b THEN b ELSE a>>
        said == IF key \in DOMAIN Prepared.values THEN Prepared.values[key]
                ELSE Disjoint(space.arena, a, b)
    IN  /\ Answered("disjoint", <<a, b>>, said)
        /\ relations' = [Prepared EXCEPT !.values = With(@, key, said)]
        /\ UNCHANGED <<equalities, empties, mentions>>

(* structurally_equal_cached.                                              *)
AskEqual(a, b) ==
    LET key == <<IF a <= b THEN a ELSE b, IF a <= b THEN b ELSE a>>
        said == IF key \in DOMAIN equalities THEN equalities[key]
                ELSE StructurallyEqual(space.arena, a, b)
    IN  /\ a # b
        /\ Answered("equal", <<a, b>>, said)
        /\ equalities' = With(equalities, key, said)
        /\ UNCHANGED <<relations, empties, mentions>>

(* intersection_reduces_to_never.                                          *)
AskEmpty(a) ==
    LET said == IF a \in DOMAIN empties THEN empties[a] ELSE ReducesToNever(space.arena, a)
    IN  /\ Get(space.arena, a).kind = "intersection"
        /\ Answered("empty", <<a>>, said)
        /\ empties' = With(empties, a, said)
        /\ UNCHANGED <<relations, equalities, mentions>>

(* contains_type_param: the walk stops at what is known to mention none,   *)
(* and everything it reaches is settled with it.                           *)
AskMentions(a) ==
    LET known == {i \in DOMAIN mentions : ~mentions[i]}
        free == FreeParameters(space.arena, a, known)
        settled == [i \in DOMAIN free \cup DOMAIN mentions |->
                      IF i \in DOMAIN mentions THEN mentions[i] ELSE free[i] # {}]
    IN  /\ Answered("mentions", <<a>>,
                    IF a \in DOMAIN mentions THEN mentions[a] ELSE settled[a])
        /\ mentions' = IF a \in DOMAIN mentions THEN mentions ELSE settled
        /\ UNCHANGED <<relations, equalities, empties>>

Roots == Range(roots) \ {NoType}

(* A question of the file, about two of its annotations.                   *)
Ask ==
    \E question \in scenario.asked :
        /\ {question.a, question.b} \subseteq DOMAIN roots
        /\ NoType \notin {roots[question.a], roots[question.b]}
        /\ LET a == roots[question.a]
               b == roots[question.b]
           IN  \/ question.ask = "subtype" /\ AskSubtype(a, b)
               \/ question.ask = "disjoint" /\ AskDisjoint(a, b)
               \/ question.ask = "equal" /\ AskEqual(a, b)
               \/ question.ask = "empty" /\ AskEmpty(a)
               \/ question.ask = "mentions" /\ AskMentions(a)

Next ==
    \/ \E name \in DOMAIN scenario.program : Enter(name)
    \/ Complete
    \/ Write
    \/ Clear
    \/ Ask

Spec == Init /\ [][Next]_vars
=============================================================================
