------------------------------- MODULE Inference -------------------------------
(***************************************************************************)
(* The inference of type arguments, src/src/semantic/generics.rs and       *)
(* solver.rs.  A state t holds the arena, the types chosen so far for      *)
(* parameters, and the pairs of types already matched.                     *)
(***************************************************************************)
EXTENDS Annotations

Matching(arena) == [arena |-> arena, bindings |-> << >>, seen |-> {}]

(* widen.                                                                  *)
Widen(arena, id) ==
    LET widened(node) == IF node.kind = "literal" THEN PrimitiveId(node.base) ELSE id
    IN  widened(Get(arena, id))

Narrow(node) == node.kind = "literal" \/ Named(node, {"string", "number", "boolean"})

(* The members of a union; another type is its only member.                *)
MembersOf(arena, id) ==
    LET members(node) == IF node.kind = "union" THEN node.members ELSE <<id>>
    IN  members(Get(arena, id))

(* bound_keeps_literals: the bound is, or has, a primitive or a literal.   *)
KeepsLiterals(arena, bound) ==
    \E member \in Range(MembersOf(arena, bound)) : Narrow(Get(arena, member))

(* literal_base: the bases of a literal or of a union of nothing else.     *)
LiteralBases(arena, id) ==
    {IF node.kind = "literal" THEN node.base ELSE NoDomain :
       node \in {Get(arena, i) : i \in Range(MembersOf(arena, id))}}

SameLiteralBase(arena, a, b) ==
    \E base \in {"string", "number", "boolean"} :
        LiteralBases(arena, a) = {base} /\ LiteralBases(arena, b) = {base}

Bind(t, id, type) == [t EXCEPT !.bindings = With(@, id, type)]

(* Mistake: the first candidate is kept.                                   *)
MergeFirst(t, id, candidate, keeps) ==
    IF id \in DOMAIN t.bindings THEN t ELSE Bind(t, id, candidate)

(* merge_inference_candidate: the wider of two comparable candidates, the  *)
(* union of two literals of one primitive, otherwise the first.            *)
BindNew(t, id, new) == Bind([t EXCEPT !.arena = new.arena], id, new.id)

MergeWith(t, id, existing, candidate, keeps) ==
    IF Subtype(t.arena, candidate, existing) THEN t
    ELSE IF Subtype(t.arena, existing, candidate) THEN Bind(t, id, candidate)
    ELSE IF keeps /\ SameLiteralBase(t.arena, existing, candidate)
    THEN BindNew(t, id, AllocUnion(t.arena, <<existing, candidate>>))
    ELSE t

Merge(t, id, candidate, keeps) ==
    IF id \in DOMAIN t.bindings THEN MergeWith(t, id, t.bindings[id], candidate, keeps)
    ELSE Bind(t, id, candidate)

RECURSIVE Infer(_, _, _, _)

(* Pairs of a parameter's type and an argument's, one after the other.     *)
InferEach(t, pairs, locked) ==
    LET done[n \in 0 .. Len(pairs)] ==
            IF n = 0 THEN t ELSE Infer(done[n - 1], pairs[n][1], pairs[n][2], locked)
    IN  done[Len(pairs)]

Against(ids, argument) == [i \in DOMAIN ids |-> <<ids[i], argument>>]

Mentioning(arena, ids) == SelectSeq(ids, LAMBDA id : Mentions(arena, id))

(* The parameters of a union are inferred from what its other members do   *)
(* not account for.                                                        *)
NotAccountedFor(arena, members, argument) ==
    SelectSeq(MembersOf(arena, argument), LAMBDA m :
        \/ Named(Get(arena, m), {"any", "error"})
        \/ \A c \in Range(members) : Mentions(arena, c) \/ ~Subtype(arena, m, c))

TypeOfRest(arena, remaining) ==
    IF Len(remaining) = 1 THEN Same(arena, remaining[1]) ELSE AllocUnion(arena, remaining)

InferRest(t, members, rest, locked) ==
    InferEach([t EXCEPT !.arena = rest.arena], Against(Mentioning(t.arena, members), rest.id), locked)

InferUnion(t, members, remaining, locked) ==
    IF remaining = << >> THEN t ELSE InferRest(t, members, TypeOfRest(t.arena, remaining), locked)

(* A parameter that is up for inference takes the argument, widened unless *)
(* its bound has primitives or literals.                                   *)
InferParameter(t, id, argument, keeps) ==
    Merge(t, id, IF keeps THEN argument ELSE Widen(t.arena, argument), keeps)

BothHave(p, a) == SetToSeq(DOMAIN p.properties \cap DOMAIN a.properties)

InferNodes(t, p, a, argument, locked) ==
    CASE p.kind = "parameter" ->
           IF p.id \in locked THEN t
           ELSE InferParameter(t, p.id, argument,
                               p.bound # NoBound /\ KeepsLiterals(t.arena, p.bound))
      [] p.kind = "array" /\ a.kind = "array" -> Infer(t, p.element, a.element, locked)
      [] p.kind = "object" /\ a.kind = "object" ->
           InferEach(t, [i \in DOMAIN BothHave(p, a) |->
                           <<p.properties[BothHave(p, a)[i]].type, a.properties[BothHave(p, a)[i]].type>>],
                     locked)
      [] p.kind = "function" /\ a.kind = "function" ->
           InferEach(t, [i \in DOMAIN p.params \cap DOMAIN a.params |->
                           <<p.params[i].type, a.params[i].type>>] \o <<<<p.returns, a.returns>>>>,
                     locked \cup {binder.id : binder \in Range(p.binders)})
      [] p.kind = "intersection" ->
           InferEach(t, Against(Mentioning(t.arena, p.members), argument), locked)
      [] p.kind = "union" ->
           InferUnion(t, p.members, NotAccountedFor(t.arena, p.members, argument), locked)
      [] OTHER -> t

(* infer_type_param_bindings.                                              *)
Infer(t, param, argument, locked) ==
    IF <<param, argument>> \in t.seen THEN t
    ELSE InferNodes([t EXCEPT !.seen = @ \cup {<<param, argument>>}],
                    Get(t.arena, param), Get(t.arena, argument), argument, locked)

-----------------------------------------------------------------------------
(* A parameter with its bound, of those free in a type.                    *)
BoundsIn(arena, id) ==
    LET bounds(nodes) ==
            [p \in {n.id : n \in nodes} |-> (CHOOSE n \in nodes : n.id = p).bound]
    IN  bounds({n \in {Get(arena, i) : i \in Reach(arena, id, {})} :
                  /\ n.kind = "parameter" /\ n.bound # NoBound
                  /\ n.id \in FreeParameters(arena, id, {})[id]})

(* What one argument offers, merged into what those before it did.         *)
MergeInto(t, own, ids, bounds) ==
    LET keeps(id) == id \in DOMAIN bounds /\ KeepsLiterals(own.arena, bounds[id])
        merged[n \in 0 .. Len(ids)] ==
            IF n = 0 THEN [t EXCEPT !.arena = own.arena]
            ELSE Merge(merged[n - 1], ids[n], own.bindings[ids[n]], keeps(ids[n]))
    IN  merged[Len(ids)]

(* Mistake: a written type argument is one candidate among the others.     *)
OfferAll(t, own) == MergeInto(t, own, SetToSeq(DOMAIN own.bindings), << >>)

InferUnlocked(t, param, argument, locked) ==
    OfferAll(t, Infer(Matching(t.arena), param, argument, {}))

(* GenericInferenceSession.  All candidates of a call have one priority,   *)
(* so finish merges each of them.                                          *)
Offer(t, own, param, locked) ==
    MergeInto(t, own, SetToSeq(DOMAIN own.bindings \ locked), BoundsIn(own.arena, param))

InferArgument(t, param, argument, locked) ==
    Offer(t, Infer(Matching(t.arena), param, argument, locked), param, locked)

-----------------------------------------------------------------------------
(* instantiate_generic_source: a generic function used where a plain one   *)
(* is wanted is read with its parameters taken from those wanted.          *)

(* The parameters of both, position by position.                           *)
MatchParams(arena, f, g) ==
    LET pairs == [i \in 1 .. Len(f.params) + Len(g.params) |->
                    <<ParamTypeAt(arena, f.params, i), ParamTypeAt(arena, g.params, i)>>]
        both == SelectSeq(pairs, LAMBDA pair : NoParam \notin Range(pair))
        matched[n \in 0 .. Len(both)] ==
            IF n = 0 THEN Matching(arena)
            ELSE Infer([matched[n - 1] EXCEPT !.seen = {}], both[n][1], both[n][2], {})
    IN  matched[Len(both)]

(* What a type parameter of the source is read as.                         *)
Inferred(t, binder, inferred) ==
    IF binder.bound = NoBound \/ Subtype(t.arena, inferred, binder.bound) THEN inferred
    ELSE binder.bound

Fill(t, binder, loose) ==
    IF binder.id \in DOMAIN t.bindings THEN Inferred(t, binder, t.bindings[binder.id])
    ELSE IF loose THEN PrimitiveId("any")
    ELSE IF binder.default # NoBound THEN binder.default
    ELSE IF binder.bound # NoBound THEN binder.bound
    ELSE PrimitiveId("unknown")

FillAll(t, binders, loose) ==
    [id \in {binder.id : binder \in binders} |->
       Fill(t, CHOOSE binder \in binders : binder.id = id, loose)]

Plainly(f, read) ==
    Alloc(read.s.arena,
          FunctionNode([i \in DOMAIN f.params |-> [f.params[i] EXCEPT !.type = read.ids[i]]],
                       Last(read.ids), << >>))

InstantiateWith(source, f, t, loose) ==
    Plainly(f, RewriteAll(Rewriting(t.arena, source, FillAll(t, Range(f.binders), loose), TRUE),
                          [i \in DOMAIN f.params |-> f.params[i].type] \o <<f.returns>>))

InstantiateNode(arena, source, f, g) ==
    IF f.kind # "function" \/ g.kind # "function" THEN Same(arena, source)
    ELSE IF f.binders = << >> \/ g.binders # << >> THEN Same(arena, source)
    ELSE InstantiateWith(source, f, MatchParams(arena, f, g),
                         \E i \in DOMAIN g.params : g.params[i].type = PrimitiveId("any"))

InstantiateSource(arena, source, target) ==
    InstantiateNode(arena, source, Get(arena, source), Get(arena, target))
=============================================================================
