----------------------------- MODULE TypeRelations -----------------------------
(***************************************************************************)
(* The relations between types of src/src/subtyping.rs, as functions of an *)
(* arena: subtyping, disjointness, and the intersections that are empty.   *)
(***************************************************************************)
EXTENDS TypeArena

Named(node, names) == node.kind = "primitive" /\ node.name \in names

(* primitive_domain: the one kind of primitive value a type holds.         *)
NoDomain == "none"

PrimitiveDomain(node) ==
    IF node.kind = "literal" THEN node.base
    ELSE IF Named(node, {"string", "number", "boolean", "null", "undefined"}) THEN node.name
    ELSE IF Named(node, {"void"}) THEN "undefined" ELSE NoDomain

(* Types is_disjoint decides nothing about.                                *)
Undecidable(node) == Named(node, {"any", "unknown", "error"}) \/ node.kind = "parameter"

(* Primitives that share no value: of different domains, or two literals.  *)
ValuesApart(x, y) ==
    \/ PrimitiveDomain(x) # PrimitiveDomain(y)
    \/ x.kind = "literal" /\ y.kind = "literal" /\ x # y

(* is_disjoint: surely no value belongs to both; of two nodes, given which *)
(* of the ids below them are.                                              *)
NodesDisjoint(disjoint, a, b, x, y) ==
    IF a = b \/ Named(x, {"never"}) \/ Named(y, {"never"})
    THEN Named(x, {"never"}) \/ Named(y, {"never"})
    ELSE /\ ~Undecidable(x) /\ ~Undecidable(y)
         /\ IF x.kind = "union" THEN \A i \in DOMAIN x.members : disjoint[<<x.members[i], b>>]
            ELSE IF y.kind = "union" THEN \A i \in DOMAIN y.members : disjoint[<<a, y.members[i]>>]
            ELSE /\ NoDomain \notin {PrimitiveDomain(x), PrimitiveDomain(y)}
                 /\ ValuesApart(x, y)

Disjoint(arena, left, right) ==
    LET disjoint[pair \in IdPairs(arena)] ==
            NodesDisjoint(disjoint, pair[1], pair[2], Get(arena, pair[1]), Get(arena, pair[2]))
    IN  disjoint[<<left, right>>]

(* A literal, or a union with one among its members.                       *)
IsUnit(arena, id) ==
    LET unit(node) ==
            \/ node.kind = "literal"
            \/ /\ node.kind = "union"
               /\ \E i \in DOMAIN node.members : Get(arena, node.members[i]).kind = "literal"
    IN  unit(Get(arena, id))

(* intersection_reduces_to_never: two members give one discriminant types  *)
(* that cannot meet.                                                       *)
Clash(arena, x, y) ==
    /\ x.kind = "object" /\ y.kind = "object"
    /\ \E name \in DOMAIN x.properties \cap DOMAIN y.properties :
          /\ Disjoint(arena, x.properties[name].type, y.properties[name].type)
          /\ \E object \in {x, y} : IsUnit(arena, object.properties[name].type)

MembersClash(arena, node) ==
    /\ node.kind = "intersection"
    /\ \E i, j \in DOMAIN node.members :
          i < j /\ Clash(arena, Get(arena, node.members[i]), Get(arena, node.members[j]))

ReducesToNever(arena, id) == MembersClash(arena, Get(arena, id))

-----------------------------------------------------------------------------
(* One unfolding of subtyping, in a relation that answers for the parts.   *)

Required(params) ==
    Cardinality({i \in DOMAIN params : ~params[i].optional /\ ~params[i].rest})

NoParam == 0

(* param_type_at: a rest parameter stands for every position from its own. *)
ParamTypeAt(arena, params, i) ==
    LET last == Len(params)
        at == IF i <= last THEN i ELSE last
        element(node) == IF node.kind = "array" THEN node.element ELSE params[at].type
    IN  IF last = 0 \/ (i > last /\ ~params[last].rest) THEN NoParam
        ELSE IF params[at].rest THEN element(Get(arena, params[at].type))
        ELSE params[at].type

(* Mistake: parameters are compared the way results are.                   *)
CovariantFunctions(arena, relates, f, g, bivariant) ==
    /\ Required(f.params) <= Required(g.params)
    /\ \A i \in DOMAIN f.params \cup DOMAIN g.params :
          LET takes(p, q) == NoParam \in {p, q} \/ relates[<<p, q>>]
          IN  takes(ParamTypeAt(arena, f.params, i), ParamTypeAt(arena, g.params, i))
    /\ relates[<<f.returns, g.returns>>]

(* function_is_subtype_with.                                               *)
FunctionRelates(arena, relates, f, g, bivariant) ==
    /\ Required(f.params) <= Required(g.params)
    /\ \A i \in DOMAIN f.params \cup DOMAIN g.params :
          LET takes(p, q) == NoParam \in {p, q} \/ relates[<<q, p>>] \/ (bivariant /\ relates[<<p, q>>])
          IN  takes(ParamTypeAt(arena, f.params, i), ParamTypeAt(arena, g.params, i))
    /\ relates[<<f.returns, g.returns>>]

(* property_is_subtype: a method's parameters relate either way.           *)
PropertyRelates(arena, relates, type, wanted) ==
    IF wanted.method /\ \A id \in {type, wanted.type} : Get(arena, id).kind = "function"
    THEN FunctionRelates(arena, relates, Get(arena, type), Get(arena, wanted.type), TRUE)
    ELSE relates[<<type, wanted.type>>]

(* object_is_subtype.                                                      *)
ObjectRelates(arena, relates, x, y) ==
    \A name \in DOMAIN y.properties :
        IF name \in DOMAIN x.properties
        THEN /\ x.properties[name].optional => y.properties[name].optional
             /\ PropertyRelates(arena, relates, x.properties[name].type, y.properties[name])
        ELSE y.properties[name].optional

(* What the objects among some types say of a property.                    *)
Given(nodes, name) ==
    {node.properties[name] :
        node \in {n \in nodes : n.kind = "object" /\ name \in DOMAIN n.properties}}

(* Mistake: whichever member provides a property also decides whether it   *)
(* is required.                                                            *)
AnyProvides(arena, relates, members, y) ==
    \A name \in DOMAIN y.properties :
        \/ y.properties[name].optional
        \/ \E p \in Given({Get(arena, members[i]) : i \in DOMAIN members}, name) :
              PropertyRelates(arena, relates, p.type, y.properties[name])

(* intersection_satisfies_object: the members together.                    *)
Provided(arena, relates, given, wanted) ==
    /\ wanted.optional \/ (\E p \in given : ~p.optional)
    /\ given = {} \/ \E p \in given : PropertyRelates(arena, relates, p.type, wanted)

TogetherProvide(arena, relates, members, y) ==
    \A name \in DOMAIN y.properties :
        Provided(arena, relates, Given({Get(arena, members[i]) : i \in DOMAIN members}, name),
                 y.properties[name])

(* is_subtype_uncached, of two nodes and their ids.                        *)
NodesRelate(arena, relates, a, b, x, y) ==
    \/ Named(y, {"unknown"}) \/ Named(x, {"never"})
    \/ Named(x, {"undefined"}) /\ Named(y, {"void"})
    \/ MembersClash(arena, x)
    \/ x.kind = "literal" /\ (x = y \/ Named(y, {x.base}))
    \/ IF x.kind = "parameter" /\ x.bound # NoBound THEN relates[<<x.bound, b>>]
       ELSE IF x.kind = "union" THEN \A i \in DOMAIN x.members : relates[<<x.members[i], b>>]
       ELSE IF y.kind = "intersection"
       THEN \A i \in DOMAIN y.members : relates[<<a, y.members[i]>>]
       ELSE \/ y.kind = "union" /\ \E i \in DOMAIN y.members : relates[<<a, y.members[i]>>]
            \/ x.kind = "intersection" /\ \E i \in DOMAIN x.members : relates[<<x.members[i], b>>]
            \/ /\ x.kind = "intersection" /\ y.kind = "object"
               /\ TogetherProvide(arena, relates, x.members, y)
            \/ /\ x.kind = "function" /\ y.kind = "function"
               /\ FunctionRelates(arena, relates, x, y, FALSE)
            \/ x.kind = "array" /\ y.kind = "array" /\ relates[<<x.element, y.element>>]
            \/ x.kind = "object" /\ y.kind = "object" /\ ObjectRelates(arena, relates, x, y)

Rules(arena, relates, a, b) == NodesRelate(arena, relates, a, b, Get(arena, a), Get(arena, b))

(* is_trivial_subtype.                                                     *)
Trivial(arena, a, b) == a = b \/ \E id \in {a, b} : Named(Get(arena, id), {"any", "error"})

(* Mistake: a pair met again is taken to be unrelated.                     *)
InductiveSubtype(arena, sub, sup) ==
    LET related[seen \in SUBSET IdPairs(arena)] ==
            [pair \in IdPairs(arena) |->
                \/ Trivial(arena, pair[1], pair[2])
                \/ /\ pair \notin seen
                   /\ Rules(arena, related[seen \cup {pair}], pair[1], pair[2])]
    IN  related[{}][<<sub, sup>>]

(* is_subtype: a pair on the stack is assumed.                             *)
Subtype(arena, sub, sup) ==
    LET related[seen \in SUBSET IdPairs(arena)] ==
            [pair \in IdPairs(arena) |->
                \/ Trivial(arena, pair[1], pair[2])
                \/ pair \in seen
                \/ Rules(arena, related[seen \cup {pair}], pair[1], pair[2])]
    IN  related[{}][<<sub, sup>>]
=============================================================================
