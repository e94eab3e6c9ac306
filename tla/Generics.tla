-------------------------------- MODULE Generics --------------------------------
(***************************************************************************)
(* Generic types, src/src/semantic/generics.rs and solver.rs: the free     *)
(* parameters of a type, substitution, and the inference of a call's type  *)
(* arguments.                                                              *)
(***************************************************************************)
EXTENDS Intersections

(* parts_of: the types a type is made of.                                  *)
PartsOf(node) ==
    LET Of(list, field) == {list[i][field] : i \in DOMAIN list}
    IN  CASE node.kind = "array" -> {node.element}
          [] node.kind = "function" ->
               Of(node.params, "type") \cup {node.returns}
               \cup ((Of(node.binders, "bound") \cup Of(node.binders, "default")) \ {NoBound})
          [] node.kind = "object" -> {node.properties[name].type : name \in DOMAIN node.properties}
          [] node.kind \in {"union", "intersection"} -> Range(node.members)
          [] OTHER -> {}

Parts(arena, id) == PartsOf(Get(arena, id))

(* reach: what a type is made of.  A type known to mention no parameter is *)
(* not looked into.                                                        *)
Reach(arena, id, known) ==
    LET from[found \in SUBSET Ids(arena)] ==
            LET Next(more) == IF more = found THEN found ELSE from[more]
            IN  Next(found \cup UNION {Parts(arena, i) : i \in found \ known})
    IN  from[{id}]

(* free_generic_params: for everything reached, the parameters no function *)
(* around them binds.                                                      *)
FreeParameters(arena, id, known) ==
    LET Own(node) == IF node.kind = "parameter" THEN {node.id} ELSE {}
        Bound(node) == IF node.kind = "function"
                       THEN {node.binders[i].id : i \in DOMAIN node.binders} ELSE {}
        Free(node, below) == (Own(node) \cup UNION below) \ Bound(node)
        Settle(nodes) ==
            LET settle[free \in [nodes -> SUBSET Parameter]] ==
                    LET Below(i) == {free[p] : p \in IF i \in known THEN {} ELSE Parts(arena, i)}
                        Next(more) == IF more = free THEN free ELSE settle[more]
                    IN  Next([i \in nodes |-> Free(Get(arena, i), Below(i))])
            IN  settle[[i \in nodes |-> {}]]
    IN  Settle(Reach(arena, id, known))

(* contains_type_param.                                                    *)
Mentions(arena, id) == FreeParameters(arena, id, {})[id] # {}

-----------------------------------------------------------------------------
(* Substitution.  A state holds the arena, what each parameter is replaced *)
(* by, the ids being rewritten (outermost first), what is rewritten for    *)
(* good, the ids found to reach themselves, the positions the rewrite of   *)
(* the last id was cut at, and its result.                                 *)

Without(table, key) == [k \in DOMAIN table \ {key} |-> table[k]]

Yield(s, id) == [s EXCEPT !.id = id]

Put(s, new) == [s EXCEPT !.arena = new.arena, !.id = new.id]

RECURSIVE Rewrite(_, _)

(* The ids of a sequence, one after the other; what is not there stays so. *)
RewriteAll(s, ids) ==
    LET added(before, new) == [s |-> new, ids |-> Append(before.ids, new.id)]
        rewritten(before, id) == IF id = NoBound THEN Yield(before, id) ELSE Rewrite(before, id)
        done[n \in 0 .. Len(ids)] ==
            IF n = 0 THEN [s |-> s, ids |-> << >>]
            ELSE added(done[n - 1], rewritten(done[n - 1].s, ids[n]))
    IN  done[Len(ids)]

(* The properties of an object, by name, with their types rewritten.       *)
WithTypes(properties, names, all) ==
    [s |-> all.s,
     properties |-> [name \in DOMAIN properties |->
                       [properties[name] EXCEPT
                          !.type = all.ids[CHOOSE i \in DOMAIN names : names[i] = name]]]]

RewriteProperties(s, properties) ==
    LET names == SetToSeq(DOMAIN properties)
    IN  WithTypes(properties, names, RewriteAll(s, [i \in DOMAIN names |-> properties[names[i]].type]))

(* A type of what was read or rewritten before it.                         *)
NewArray(of) == Put(of, Alloc(of.arena, ArrayNode(of.id)))

NewObject(all) == Put(all.s, Alloc(all.s.arena, ObjectNode(all.properties)))

NewUnion(all) == Put(all.s, AllocUnion(all.s.arena, all.ids))

OrTooComplex(new) == IF new.id = TooComplex THEN Same(new.arena, PrimitiveId("error")) ELSE new

NewIntersection(all) == Put(all.s, OrTooComplex(AllocIntersection(all.s.arena, all.ids)))

(* A function with other types: of its parameters, its result, the bounds  *)
(* and the defaults of its own type parameters.                            *)
TypesOf(node) ==
    [i \in DOMAIN node.params |-> node.params[i].type] \o <<node.returns>>
    \o [i \in DOMAIN node.binders |-> node.binders[i].bound]
    \o [i \in DOMAIN node.binders |-> node.binders[i].default]

WithAll(node, ids) ==
    LET n == Len(node.params)
        m == Len(node.binders)
    IN  FunctionNode([i \in 1 .. n |-> [node.params[i] EXCEPT !.type = ids[i]]], ids[n + 1],
                     [i \in 1 .. m |-> [node.binders[i] EXCEPT !.bound = ids[n + 1 + i],
                                                               !.default = ids[n + 1 + m + i]]])

NewFunction(node, all) == Put(all.s, Alloc(all.s.arena, WithAll(node, all.ids)))

(* rewrite_uncached.                                                       *)
RewriteNode(s, id, node) ==
    CASE node.kind = "parameter" ->
           Yield(s, IF node.id \in DOMAIN s.bindings THEN s.bindings[node.id]
                    ELSE IF s.keep THEN id ELSE PrimitiveId("unknown"))
      [] node.kind = "array" -> NewArray(Rewrite(s, node.element))
      [] node.kind = "function" -> NewFunction(node, RewriteAll(s, TypesOf(node)))
      [] node.kind = "object" -> NewObject(RewriteProperties(s, node.properties))
      [] node.kind = "union" -> NewUnion(RewriteAll(s, node.members))
      [] node.kind = "intersection" -> NewIntersection(RewriteAll(s, node.members))
      [] OTHER -> Yield(s, id)

(* rewrite_recursive: the copy has a reference of its own, known before    *)
(* the properties are walked, so the cycle closes on the copy.             *)
Copied(copy, body) ==
    [body EXCEPT !.arena = ResolveRef(@, copy.arena.types[copy.id].slot, body.id), !.id = copy.id]

RewriteRecursive(s, id) ==
    LET onto(copy) ==
            Copied(copy, NewObject(RewriteProperties(
                [s EXCEPT !.arena = copy.arena, !.rewritten = With(@, id, copy.id)],
                Get(s.arena, id).properties)))
    IN  onto(AllocRef(s.arena))

(* A type found to reach itself is rewritten once more.                    *)
OnceMore(first, id) ==
    IF id \in first.cyclic /\ Get(first.arena, id).kind = "object"
    THEN RewriteRecursive([first EXCEPT !.cuts = {}], id)
    ELSE first

(* A result is kept for the rest of the walk only if no cut below it       *)
(* reached an id further out.                                              *)
Kept(s, id, new) ==
    [new EXCEPT !.cuts = @ \cup s.cuts,
                !.rewritten = IF \A at \in new.cuts : at > Len(s.open)
                              THEN With(@, id, new.id) ELSE Without(@, id)]

(* rewrite.                                                                *)
Rewrite(s, id) ==
    IF id \in DOMAIN s.rewritten THEN Yield(s, s.rewritten[id])
    ELSE IF ~Mentions(s.arena, id) THEN Yield(s, id)
    ELSE IF Contains(s.open, id)
    THEN [s EXCEPT !.cuts = @ \cup {i \in DOMAIN s.open : s.open[i] = id},
                   !.cyclic = @ \cup {id}, !.id = id]
    ELSE Kept(s, id, OnceMore([RewriteNode([s EXCEPT !.open = Append(@, id), !.cuts = {}],
                                           id, Get(s.arena, id))
                               EXCEPT !.open = s.open], id))

(* substitute_impl: bindings give types to parameters; keep says whether a *)
(* parameter without one stays or becomes unknown.                         *)
Rewriting(arena, id, bindings, keep) ==
    [arena |-> arena, id |-> id, bindings |-> bindings, keep |-> keep,
     open |-> << >>, rewritten |-> << >>, cyclic |-> {}, cuts |-> {}]

ResultOf(s) == Same(s.arena, s.id)

Substitute(arena, id, bindings, keep) ==
    IF DOMAIN bindings = {} THEN Same(arena, id)
    ELSE ResultOf(Rewrite(Rewriting(arena, id, bindings, keep), id))
=============================================================================
