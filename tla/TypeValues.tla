------------------------------ MODULE TypeValues ------------------------------
(***************************************************************************)
(* The values a type of the arena has, and the types whose relations are   *)
(* relations between their values.  A value is [kind, and literal | fields *)
(* | elements].                                                            *)
(***************************************************************************)
EXTENDS TypeRelations

ValueKinds == {"string", "number", "boolean", "null", "undefined", "object", "array"}

(* Elements are a set: no property asks for their order.                   *)
ValueParts(v) ==
    CASE v.kind = "array" -> v.elements
      [] v.kind = "object" -> {v.fields[name] : name \in DOMAIN v.fields}
      [] OTHER -> {}

(* An array is a value of every object type that asks for no property.     *)
HasFields(v, required) == v.kind = "object" \/ (v.kind = "array" /\ required = {})

OfPrimitive(v, name) ==
    \/ name \in {"any", "unknown", "error"}
    \/ v.kind = IF name = "void" THEN "undefined" ELSE name

(* A value of a type, by the values of what both are made of: Holds says   *)
(* which values an id below has, Fills which ones a parameter stands for.  *)
HasNode(Holds(_, _), Fills(_, _), v, node) ==
    CASE node.kind = "primitive" -> OfPrimitive(v, node.name)
      [] node.kind = "literal" -> v.kind = node.base /\ v.literal = node.value
      [] node.kind = "array" -> v.kind = "array" /\ \A e \in v.elements : Holds(e, node.element)
      [] node.kind = "object" ->
           /\ HasFields(v, DOMAIN node.properties)
           /\ \A name \in DOMAIN node.properties :
                 IF v.kind = "object" /\ name \in DOMAIN v.fields
                 THEN Holds(v.fields[name], node.properties[name].type)
                 ELSE node.properties[name].optional
      [] node.kind = "union" -> \E i \in DOMAIN node.members : Holds(v, node.members[i])
      [] node.kind = "intersection" -> \A i \in DOMAIN node.members : Holds(v, node.members[i])
      [] node.kind = "parameter" -> Fills(v, node.id)
      [] OTHER -> FALSE

(* A list of arguments a function type takes, and one too long for it.     *)
TakesList(Holds(_, _), arena, f, args, extra) ==
    /\ \A i \in DOMAIN args :
          LET p == ParamTypeAt(arena, f.params, i)
          IN  IF p = NoParam THEN extra ELSE Holds(args[i], p)
    /\ Required(f.params) <= Len(args)

-----------------------------------------------------------------------------
(* Types compared value by value.                                          *)

(* What HasNode looks at, and what a parameter is bounded by.              *)
PartTypes(node) ==
    CASE node.kind = "array" -> {node.element}
      [] node.kind = "object" -> {node.properties[name].type : name \in DOMAIN node.properties}
      [] node.kind \in {"union", "intersection"} -> {node.members[i] : i \in DOMAIN node.members}
      [] node.kind = "parameter" -> {node.bound} \ {NoBound}
      [] OTHER -> {}

IsClosed(arena, ids) ==
    ids \subseteq Ids(arena) /\ \A id \in ids : PartTypes(Get(arena, id)) \subseteq ids

HasOptional(node) ==
    node.kind = "object" /\ \E name \in DOMAIN node.properties : node.properties[name].optional

NothingOptional(arena, ids) == \A id \in ids : ~HasOptional(Get(arena, id))

(* Types that are what their values say: no function, no any, and none     *)
(* that counts as empty for the sake of a property that may be missing.    *)
IsDefinite(arena, ids) ==
    \A id \in ids :
        LET node == Get(arena, id)
        IN  /\ node.kind # "function" /\ ~Named(node, {"any", "error"})
            /\ MembersClash(arena, node) => \A m \in PartTypes(node) : ~HasOptional(Get(arena, m))

(* An intersection without an object in it, which is_subtype takes for an  *)
(* object type that asks for nothing.                                      *)
IsBare(arena, id) ==
    LET node == Get(arena, id)
    IN  /\ node.kind = "intersection"
        /\ \A m \in PartTypes(node) : Get(arena, m).kind \notin {"object", "array"}

AsksNothing(node) == node.kind = "object" /\ DOMAIN node.properties = {}

(* Types of which is_subtype must not say more than inclusion of values.   *)
Comparable(arena, from, to) ==
    /\ IsDefinite(arena, from) /\ NothingOptional(arena, to)
    /\ (\E id \in from : IsBare(arena, id)) => \A id \in to : ~AsksNothing(Get(arena, id))

(* A union, an intersection and a parameter are made after their members   *)
(* and bound, so that none is reached from itself through such types only. *)
Wraps(node) == node.kind \in {"union", "intersection", "parameter"}

IsGrounded(arena) ==
    /\ Ids(arena) \subseteq Nat \ {0}
    /\ \A id \in Ids(arena) : Wraps(Get(arena, id)) =>
          \A part \in PartTypes(Get(arena, id)) :
             Wraps(Get(arena, part)) => Behind(arena, part) < Behind(arena, id)
=============================================================================
