------------------------------ MODULE TypeMeaning ------------------------------
(***************************************************************************)
(* The values a type has: of the arena, and of what is written.            *)
(***************************************************************************)
EXTENDS Annotations, TypeValues

(* A value of a type of the arena; given says which types its parameters   *)
(* stand for.                                                              *)
RECURSIVE HasUnder(_, _, _, _)
HasUnder(arena, v, id, given) ==
    LET Holds(w, part) == HasUnder(arena, w, part, given)
        Fills(w, p) == p \in DOMAIN given /\ HasUnder(arena, w, given[p], << >>)
    IN  HasNode(Holds, Fills, v, Get(arena, id))

Has(arena, v, id) == HasUnder(arena, v, id, << >>)

(* A written type under the arguments of the parameters in scope, each     *)
(* with the arguments it was written under.                                *)
RECURSIVE Denotes(_, _, _, _)
Denotes(program, value, written, scope) ==
    CASE written.kind = "primitive" -> OfPrimitive(value, written.name)
      [] written.kind = "literal" -> value.kind = written.base /\ value.literal = written.value
      [] written.kind = "array" ->
           value.kind = "array" /\ \A e \in value.elements : Denotes(program, e, written.of, scope)
      [] written.kind = "object" ->
           /\ HasFields(value, DOMAIN written.members)
           /\ \A i \in DOMAIN written.members :
                 LET member == written.members[i]
                 IN  IF value.kind = "object" /\ member.name \in DOMAIN value.fields
                     THEN Denotes(program, value.fields[member.name], member.of, scope)
                     ELSE member.optional
      [] written.kind = "union" ->
           \E i \in DOMAIN written.of : Denotes(program, value, written.of[i], scope)
      [] written.kind = "intersection" ->
           \A i \in DOMAIN written.of : Denotes(program, value, written.of[i], scope)
      [] written.kind = "name" ->
           IF written.name \in DOMAIN scope
           THEN LET argument == scope[written.name]
                IN  Denotes(program, value, argument.written, argument.scope)
           ELSE LET decl == program[written.name]
                    given[n \in 0 .. Len(decl.params)] ==
                        IF n = 0 THEN << >>
                        ELSE With(given[n - 1], decl.params[n].name,
                                  IF n <= Len(written.args)
                                  THEN [written |-> written.args[n], scope |-> scope]
                                  ELSE [written |-> decl.params[n].default, scope |-> given[n - 1]])
                IN  Denotes(program, value, decl.body, given[Len(decl.params)])
=============================================================================
