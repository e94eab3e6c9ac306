----------------------------- MODULE Intersections -----------------------------
(***************************************************************************)
(* alloc_intersection of src/src/arena.rs: every intersection is built     *)
(* here, from what the ids and their wrappers show, never from the body    *)
(* behind a reference, which may not exist yet.                            *)
(***************************************************************************)
EXTENDS TypeRelations

CONSTANT MaxDistribution   \* MAX_INTERSECTION_DISTRIBUTION

(* shallow: through the wrappers, never through a reference.               *)
Shallow(arena, id) ==
    LET through[i \in Ids(arena)] ==
            LET node == arena.types[i]
            IN  IF node.kind = "named" THEN through[node.inner]
                ELSE IF node.kind = "app" THEN through[node.body]
                ELSE node
    IN  through[id]

ObjectLike(arena, id) ==
    Shallow(arena, id).kind \in {"object", "function", "array", "ref"}

(* Read from the node itself, never through a wrapper.                     *)
AnonymousEmpty(arena, id) == arena.types[id] = EmptyObject

(* primitives_cancel, its answer: two primitives that share no value, or   *)
(* null or undefined next to a type it is not in.                          *)
NoValue(x, y) ==
    LET Meets(allowed) == y.kind \in {"parameter", "union"} \/ Named(y, allowed)
    IN  \/ Named(x, {"null"}) /\ ~Meets({"null"})
        \/ Named(x, {"undefined"}) /\ ~Meets({"undefined", "void"})

Cancel(arena, flat) ==
    \E i, j \in DOMAIN flat :
       \/ /\ i < j
          /\ NoDomain \notin {PrimitiveDomain(Shallow(arena, flat[k])) : k \in {i, j}}
          /\ Disjoint(arena, flat[i], flat[j])
       \/ NoValue(Shallow(arena, flat[i]), Shallow(arena, flat[j]))

(* primitives_cancel, what it leaves: a literal without its primitive,     *)
(* undefined without void.                                                 *)
MoreSpecific(arena, flat) ==
    LET shown == {Shallow(arena, flat[i]) : i \in DOMAIN flat}
        bases == {node.base : node \in {n \in shown : n.kind = "literal"}}
    IN  SelectSeq(flat, LAMBDA id :
            /\ ~Named(Shallow(arena, id), {"string", "number", "boolean"} \cap bases)
            /\ ~(PrimitiveNode("undefined") \in shown /\ Named(Shallow(arena, id), {"void"})))

(* A nested intersection gives its members, in place; unknown is dropped.  *)
FlatMembers(arena, members) ==
    LET opened(id, node) == IF node.kind = "intersection" THEN node.members ELSE <<id>>
    IN  SelectSeq(FlattenSeq([i \in DOMAIN members |->
                                opened(members[i], Shallow(arena, members[i]))]),
                  LAMBDA id : ~Named(Shallow(arena, id), {"unknown"}))

(* {} says nothing next to another object-like member; each id once.       *)
Settled(arena, flat) ==
    LET other == \E i \in DOMAIN flat :
                    ObjectLike(arena, flat[i]) /\ ~AnonymousEmpty(arena, flat[i])
        once(kept) ==
            LET firsts == {i \in DOMAIN kept : \A j \in 1 .. i - 1 : kept[j] # kept[i]}
            IN  [n \in 1 .. Cardinality(firsts) |->
                   kept[CHOOSE i \in firsts : Cardinality({j \in firsts : j <= i}) = n]]
    IN  once(IF other THEN SelectSeq(flat, LAMBDA id : ~AnonymousEmpty(arena, id)) ELSE flat)

(* No id: distributing would make too many members.                        *)
TooComplex == 0

Same(arena, id) == [arena |-> arena, id |-> id]

RECURSIVE AllocIntersection(_, _)

(* One choice of the union at a position, built after those before it.     *)
Distributed(arena, flat, at) ==
    LET alternatives == Shallow(arena, flat[at]).members
        added(before, new) == [arena |-> new.arena, ids |-> Append(before.ids, new.id)]
        built[n \in 0 .. Len(alternatives)] ==
            IF n = 0 THEN [arena |-> arena, ids |-> << >>]
            ELSE added(built[n - 1],
                       AllocIntersection(built[n - 1].arena, [flat EXCEPT ![at] = alternatives[n]]))
    IN  built[Len(alternatives)]

(* How many members distributing over every union would make.              *)
Product(arena, flat) ==
    LET size[n \in 0 .. Len(flat)] ==
            IF n = 0 THEN 1
            ELSE LET node == Shallow(arena, flat[n])
                 IN  size[n - 1] * (IF node.kind = "union" THEN Len(node.members) ELSE 1)
    IN  size[Len(flat)]

(* Distributing hands alloc_union the choices in reverse, since it         *)
(* reverses them again.                                                    *)
UnionOfChoices(choices) ==
    IF \E i \in DOMAIN choices.ids : choices.ids[i] = TooComplex THEN Same(choices.arena, TooComplex)
    ELSE AllocUnion(choices.arena, Reverse(choices.ids))

AllocSettled(arena, settled) ==
    IF settled = << >> THEN Same(arena, PrimitiveId("unknown"))
    ELSE IF Len(settled) = 1 THEN Same(arena, settled[1])
    ELSE Alloc(arena, IntersectionNode(settled))

(* What is left of the members: distributed over the first union, if any.  *)
AllocSpecific(arena, specific) ==
    LET unions == {i \in DOMAIN specific : Shallow(arena, specific[i]).kind = "union"}
    IN  IF unions = {} THEN AllocSettled(arena, Settled(arena, specific))
        ELSE IF Product(arena, specific) >= MaxDistribution THEN Same(arena, TooComplex)
        ELSE UnionOfChoices(Distributed(arena, specific,
                                        CHOOSE i \in unions : \A j \in unions : i <= j))

AllocFlat(arena, flat) ==
    LET Shows(names) == \E i \in DOMAIN flat : Named(Shallow(arena, flat[i]), names)
    IN  IF Shows({"error"}) THEN Same(arena, PrimitiveId("error"))
        ELSE IF Shows({"any"}) THEN Same(arena, PrimitiveId("any"))
        ELSE IF Cancel(arena, flat) THEN Same(arena, Never)
        ELSE AllocSpecific(arena, MoreSpecific(arena, flat))

(* alloc_intersection.                                                     *)
AllocIntersection(arena, members) ==
    IF \E i \in DOMAIN members : Named(Shallow(arena, members[i]), {"never"})
    THEN Same(arena, Never)
    ELSE AllocFlat(arena, FlatMembers(arena, members))
=============================================================================
