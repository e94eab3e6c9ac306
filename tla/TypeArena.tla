------------------------------- MODULE TypeArena -------------------------------
(***************************************************************************)
(* The type arena of src/src/arena.rs as a value: types by id, the state   *)
(* of declarations, the intern tables.  An operator that allocates returns *)
(* the new arena and the id it hands out.                                  *)
(***************************************************************************)
EXTENDS Naturals, FiniteSets, Sequences, SequencesExt

CONSTANTS Property,   \* the names of properties
          Parameter,  \* the identities of declared type parameters
          Literal,    \* the values written as types
          Digest(_)   \* content_hash, of a node or of a union's members

(* The fixed slots, in the order of TypeArena::new.                        *)
Primitives == <<"number", "string", "boolean", "null", "undefined",
                "any", "unknown", "error", "never", "void">>

PrimitiveNames == {Primitives[i] : i \in DOMAIN Primitives}

PrimitiveId(name) == CHOOSE i \in DOMAIN Primitives : Primitives[i] = name

Never == PrimitiveId("never")

IsPrimitive(id) == id \in DOMAIN Primitives

(* The types of types.rs.  A property is its type, whether it is optional  *)
(* and whether it is written as a method.                                  *)
Properties(ids) ==
    UNION {[names -> [type : ids, optional : BOOLEAN, method : BOOLEAN]] :
              names \in SUBSET Property}

NoBound == 0

(* What an application applies: a built-in, or a declaration of the file.  *)
Builtins == {"Promise", "Record"}

Applied == Builtins \cup {"declared"}

(* A type parameter a signature declares: its bound and its default.       *)
Binder(ids) == [id : Parameter, bound : ids \cup {NoBound}, default : ids \cup {NoBound}]

(* The types that mention given ids and declaration slots.                 *)
Node(ids, slots) ==
    [kind : {"primitive"}, name : PrimitiveNames]
    \cup [kind : {"array"}, element : ids]
    \cup [kind : {"object"}, properties : Properties(ids)]
    \cup [kind : {"union", "intersection"}, members : Seq(ids)]
    \cup [kind : {"literal"}, base : {"string", "number", "boolean"}, value : Literal]
    \cup [kind : {"function"}, params : Seq([type : ids, optional : BOOLEAN, rest : BOOLEAN]),
          returns : ids, binders : Seq(Binder(ids))]
    \cup [kind : {"parameter"}, id : Parameter, bound : ids \cup {NoBound}]
    \cup [kind : {"app"}, of : Applied, args : Seq(ids), body : ids]
    \cup [kind : {"ref"}, slot : slots]
    \cup [kind : {"named"}, inner : ids]

PrimitiveNode(name) == [kind |-> "primitive", name |-> name]
ArrayNode(element) == [kind |-> "array", element |-> element]
ObjectNode(properties) == [kind |-> "object", properties |-> properties]
UnionNode(members) == [kind |-> "union", members |-> members]
IntersectionNode(members) == [kind |-> "intersection", members |-> members]
LiteralNode(base, value) == [kind |-> "literal", base |-> base, value |-> value]
FunctionNode(params, returns, binders) ==
    [kind |-> "function", params |-> params, returns |-> returns, binders |-> binders]
ParameterNode(id, bound) == [kind |-> "parameter", id |-> id, bound |-> bound]
AppNode(of, args, body) == [kind |-> "app", of |-> of, args |-> args, body |-> body]
RefNode(slot) == [kind |-> "ref", slot |-> slot]
NamedNode(inner) == [kind |-> "named", inner |-> inner]

NoProperties == [name \in {} |-> <<>>]

(* What an unfinished declaration reads as.                                *)
EmptyObject == ObjectNode(NoProperties)

Ids(arena) == DOMAIN arena.types

IdPairs(arena) == Ids(arena) \X Ids(arena)

Slots(arena) == DOMAIN arena.decls

NoBody == 0

(* Every id and slot the arena mentions is one it handed out; a            *)
(* declaration has a body once it is resolved.                             *)
IsArena(arena) ==
    /\ \A i \in Ids(arena) : arena.types[i] \in Node(Ids(arena), Slots(arena))
    /\ \A slot \in Slots(arena) :
          \/ arena.decls[slot] \in [state : {"resolving", "failed"}, body : {NoBody}]
          \/ arena.decls[slot] \in [state : {"resolved"}, body : Ids(arena)]
    /\ \A digest \in DOMAIN arena.interned : arena.interned[digest] \in Seq(Ids(arena))
    /\ \A digest \in DOMAIN arena.unions : arena.unions[digest] \in Ids(arena)

NewArena ==
    [types |-> [i \in DOMAIN Primitives |-> PrimitiveNode(Primitives[i])],
     decls |-> << >>, interned |-> << >>, unions |-> << >>]

-----------------------------------------------------------------------------
(* Reading.                                                                *)

(* What a Named or App wrapper, or a reference that has a body, stands     *)
(* for; anything else stands for itself.                                   *)
Inner(arena, id, node) ==
    IF node.kind = "named" THEN node.inner
    ELSE IF node.kind = "app" THEN node.body
    ELSE IF node.kind = "ref" /\ arena.decls[node.slot].state = "resolved"
    THEN arena.decls[node.slot].body
    ELSE id

(* The id behind all of them.                                              *)
Behind(arena, id) ==
    LET through[i \in Ids(arena)] ==
            LET follow(next) == IF next = i THEN i ELSE through[next]
            IN  follow(Inner(arena, i, arena.types[i]))
    IN  through[id]

(* get: what an id reads as.                                               *)
Readable(node) == IF node.kind = "ref" THEN EmptyObject ELSE node

Get(arena, id) == Readable(arena.types[Behind(arena, id)])

(* An arena of finitely many types, none of which is hidden behind itself. *)
IsReadable(arena) ==
    /\ IsArena(arena) /\ IsFiniteSet(Ids(arena))
    /\ \A id \in Ids(arena) : Behind(arena, id) \in Ids(arena)

(* structurally_equal, of two nodes: equal answers for their parts, within *)
(* for the parts of two objects.                                           *)
SameProperties(within, x, y) ==
    /\ DOMAIN x.properties = DOMAIN y.properties
    /\ \A name \in DOMAIN x.properties :
          LET p == x.properties[name]
              q == y.properties[name]
          IN  p.optional = q.optional /\ p.method = q.method /\ within[<<p.type, q.type>>]

SameSignature(equal, f, g) ==
    /\ f.binders = g.binders /\ Len(f.params) = Len(g.params)
    /\ \A i \in DOMAIN f.params :
          LET p == f.params[i]
              q == g.params[i]
          IN  p.optional = q.optional /\ p.rest = q.rest /\ equal[<<p.type, q.type>>]
    /\ equal[<<f.returns, g.returns>>]

SameMembers(equal, x, y) ==
    /\ Len(x.members) = Len(y.members)
    /\ \A i \in DOMAIN x.members : \E j \in DOMAIN y.members :
          equal[<<x.members[i], y.members[j]>>]

Alike(equal, within, x, y) ==
    /\ x.kind = y.kind
    /\ \/ x.kind \in {"primitive", "literal"} /\ x = y
       \/ x.kind = "parameter" /\ x.id = y.id
       \/ x.kind = "array" /\ equal[<<x.element, y.element>>]
       \/ x.kind = "object" /\ SameProperties(within, x, y)
       \/ x.kind = "function" /\ SameSignature(equal, x, y)
       \/ x.kind \in {"union", "intersection"} /\ SameMembers(equal, x, y)

(* structurally_equal: objects being compared further up are taken to be   *)
(* equal.                                                                  *)
StructurallyEqual(arena, left, right) ==
    LET equal[seen \in SUBSET IdPairs(arena)] ==
            [pair \in IdPairs(arena) |->
                \/ pair[1] = pair[2]
                \/ pair \in seen
                \/ Alike(equal[seen], equal[seen \cup {pair}],
                         Get(arena, pair[1]), Get(arena, pair[2]))]
    IN  equal[{}][<<left, right>>]

-----------------------------------------------------------------------------
(* Allocating.                                                             *)

(* push appends; the id is the new type's position.                        *)
NewId(arena) == Len(arena.types) + 1

Push(arena, node) ==
    [arena |-> [arena EXCEPT !.types = Append(@, node)], id |-> NewId(arena)]

Shared(arena, digest) ==
    IF digest \in DOMAIN arena.interned THEN arena.interned[digest] ELSE << >>

With(table, key, value) ==
    [k \in DOMAIN table \cup {key} |-> IF k = key THEN value ELSE table[k]]

(* Mistake: only the first type of a digest is looked at.                  *)
AllocFirstOnly(arena, node) ==
    LET shared == Shared(arena, Digest(node))
        pushed == Push(arena, node)
    IN  IF shared # << >> /\ arena.types[Head(shared)] = node
        THEN [arena |-> arena, id |-> Head(shared)]
        ELSE [pushed EXCEPT !.arena.interned = With(@, Digest(node), Append(shared, pushed.id))]

(* alloc: equal content has one id.  interned holds the first type of a    *)
(* digest (the code's interned) and the others after it (collided).        *)
Alloc(arena, node) ==
    LET shared == Shared(arena, Digest(node))
        pushed == Push(arena, node)
    IN  IF \E i \in DOMAIN shared : arena.types[shared[i]] = node
        THEN [arena |-> arena,
              id |-> shared[CHOOSE i \in DOMAIN shared : arena.types[shared[i]] = node]]
        ELSE [pushed EXCEPT !.arena.interned = With(@, Digest(node), Append(shared, pushed.id))]

(* alloc_named: a primitive is not wrapped.  The wrapper's slot is a new   *)
(* one, so no other wrapper has its content.                               *)
AllocNamed(arena, inner) ==
    IF IsPrimitive(inner) THEN [arena |-> arena, id |-> inner] ELSE Push(arena, NamedNode(inner))

(* alloc_app: a built-in has one slot, so equal applications of it are one *)
(* id; a declaration is given a new slot at every application.             *)
AllocApp(arena, of, args, body) ==
    IF of \in Builtins THEN Alloc(arena, AppNode(of, args, body))
    ELSE Push(arena, AppNode(of, args, body))

(* The members alloc_union looks at, in its order: from the last, unions   *)
(* opened.                                                                 *)
Flattened(arena, members) ==
    LET opened(id, node) == IF node.kind = "union" THEN node.members ELSE <<id>>
    IN  Reverse(FlattenSeq([i \in DOMAIN members |->
                              opened(members[i], Get(arena, members[i]))]))

(* The first of each class of structurally equal members, never dropped.   *)
Distinct(arena, members) ==
    LET taken(before, id) ==
            /\ Get(arena, id) # PrimitiveNode("never")
            /\ \A i \in DOMAIN before : ~ StructurallyEqual(arena, before[i], id)
        kept[n \in 0 .. Len(members)] ==
            IF n = 0 THEN << >>
            ELSE LET before == kept[n - 1]
                 IN  IF taken(before, members[n]) THEN Append(before, members[n]) ELSE before
    IN  kept[Len(members)]

(* Mistake: a union is found by its digest alone.                          *)
TrustedUnion(arena, members) ==
    LET digest == Digest(members)
        pushed == Push(arena, UnionNode(members))
    IN  IF digest \in DOMAIN arena.unions
        THEN [arena |-> arena, id |-> arena.unions[digest]]
        ELSE [pushed EXCEPT !.arena.unions = With(@, digest, pushed.id)]

(* The id of a finished list of members: the table holds the first union   *)
(* of a digest, which is trusted only if it has the same members.          *)
SharedUnion(arena, members) ==
    LET digest == Digest(members)
        pushed == Push(arena, UnionNode(members))
    IN  IF digest \notin DOMAIN arena.unions
        THEN [pushed EXCEPT !.arena.unions = With(@, digest, pushed.id)]
        ELSE IF arena.types[arena.unions[digest]] = UnionNode(members)
             THEN [arena |-> arena, id |-> arena.unions[digest]]
             ELSE pushed

(* alloc_union.                                                            *)
AllocMembers(arena, flat) ==
    IF flat = << >> THEN [arena |-> arena, id |-> Never]
    ELSE IF Len(flat) = 1 THEN [arena |-> arena, id |-> flat[1]]
    ELSE SharedUnion(arena, flat)

AllocUnion(arena, members) == AllocMembers(arena, Distinct(arena, Flattened(arena, members)))

(* alloc_ref: a declaration about to be resolved.                          *)
AllocRef(arena) ==
    LET slot == Len(arena.decls) + 1
    IN  Push([arena EXCEPT !.decls = Append(@, [state |-> "resolving", body |-> NoBody])],
             RefNode(slot))

(* resolve_ref: the one place where what an id reads as changes.           *)
ResolveRef(arena, slot, body) ==
    [arena EXCEPT !.decls[slot] = [state |-> "resolved", body |-> body]]

(* fail_ref.                                                               *)
FailRef(arena, slot) == [arena EXCEPT !.decls[slot].state = "failed"]
=============================================================================
