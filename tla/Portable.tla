------------------------------- MODULE Portable -------------------------------
(***************************************************************************)
(* Declarations that leave their file: the walk of src/src/portable.rs     *)
(* that writes a declaration out as nodes without an arena, the stable     *)
(* hash it is identified by (src/src/stable_walk.rs, stable_hash.rs), the  *)
(* keys (src/src/keys.rs) and the choice of what leaves a file             *)
(* (src/src/bridge/exports.rs).                                            *)
(*                                                                         *)
(* A source is [types, values, exported, items]: declarations of types,    *)
(* [params, body, kind]; annotations of values; the exported names; the    *)
(* names in the order they are written.  The key of a declaration is its   *)
(* name, and a hash is the content it is computed over.                    *)
(***************************************************************************)
EXTENDS Annotations

(* The types a node names, each with the step that leads to it.            *)
Step(tag, index, id) == [at |-> <<tag, index>>, id |-> id]

Children(node) ==
    LET Each(tag, ids) == [i \in DOMAIN ids |-> Step(tag, i, ids[i])]
        If(tag, index, id) == IF id = NoBound THEN << >> ELSE <<Step(tag, index, id)>>
    IN  CASE node.kind = "array" -> <<Step("element", 0, node.element)>>
          [] node.kind = "object" ->
               LET names == SetToSeq(DOMAIN node.properties)
               IN  [i \in DOMAIN names |-> Step(names[i], 0, node.properties[names[i]].type)]
          [] node.kind \in {"union", "intersection"} -> Each("member", node.members)
          [] node.kind = "function" ->
               Each("param", [i \in DOMAIN node.params |-> node.params[i].type])
               \o <<Step("return", 0, node.returns)>>
               \o FlattenSeq([i \in DOMAIN node.binders |->
                                If("bound", i, node.binders[i].bound)
                                \o If("default", i, node.binders[i].default)])
          [] node.kind = "parameter" -> If("own bound", 0, node.bound)
          [] node.kind = "named" -> <<Step("inner", 0, node.inner)>>
          [] node.kind = "app" -> Each("argument", node.args) \o <<Step("body", 0, node.body)>>
          [] OTHER -> << >>

(* The node with something else for each type it names.                    *)
Mapped(node, to) ==
    CASE node.kind = "array" -> [node EXCEPT !.element = to[@]]
      [] node.kind = "object" ->
           ObjectNode([name \in DOMAIN node.properties |->
                         [node.properties[name] EXCEPT !.type = to[@]]])
      [] node.kind \in {"union", "intersection"} ->
           [node EXCEPT !.members = [i \in DOMAIN node.members |-> to[node.members[i]]]]
      [] node.kind = "function" ->
           FunctionNode([i \in DOMAIN node.params |-> [node.params[i] EXCEPT !.type = to[@]]],
                        to[node.returns],
                        [i \in DOMAIN node.binders |->
                           [node.binders[i] EXCEPT !.bound = to[@], !.default = to[@]]])
      [] node.kind = "parameter" -> [node EXCEPT !.bound = to[@]]
      [] node.kind = "app" ->
           [node EXCEPT !.args = [i \in DOMAIN node.args |-> to[node.args[i]]], !.body = to[@]]
      [] OTHER -> node

-----------------------------------------------------------------------------
(* Keys: of declarations by slot, of type parameters by identity.          *)

NoKeys == [slots |-> << >>, params |-> << >>]

(* A parameter's key: whose it is, down which path it is declared, and its *)
(* position.                                                               *)
TypeParamKey(owner, path, index) == <<owner, path, index>>

(* register_nested_signature_keys: the signatures inside a declaration get *)
(* the path down to them; a parameter that has a key keeps it.             *)
RECURSIVE Visit(_, _, _, _, _)

SignatureKeys(node, parent, path) ==
    IF node.kind # "function" THEN << >>
    ELSE [p \in {b.id : b \in Range(node.binders)} |->
            TypeParamKey(parent, path, CHOOSE i \in DOMAIN node.binders : node.binders[i].id = p)]

VisitBelow(walk, arena, parent, below, path) ==
    LET visited[n \in 0 .. Len(below)] ==
            IF n = 0 THEN walk
            ELSE Visit(visited[n - 1], arena, parent, below[n].id, Append(path, below[n].at))
    IN  visited[Len(below)]

VisitNode(walk, arena, parent, node, path) ==
    VisitBelow([walk EXCEPT !.keys.params = @ @@ SignatureKeys(node, parent, path)], arena, parent,
               SelectSeq(Children(node), LAMBDA child : child.at[1] # "body"), path)

Visit(walk, arena, parent, id, path) ==
    IF id \in walk.seen THEN walk
    ELSE VisitNode([walk EXCEPT !.seen = @ \cup {id}], arena, parent, arena.types[id], path)

(* Every declaration and every parameter a type names has a key; an        *)
(* application of a declaration has a slot of its own, which has none.     *)
RECURSIVE HasKeys(_, _, _)
HasKeys(keys, arena, id) ==
    LET node == arena.types[id]
    IN  /\ node.kind = "ref" => node.slot \in DOMAIN keys.slots
        /\ node.kind = "parameter" => node.id \in DOMAIN keys.params
        /\ node.kind = "function" => \A b \in Range(node.binders) : b.id \in DOMAIN keys.params
        /\ node.kind = "app" => node.of \in Builtins
        /\ \A child \in Range(Children(node)) : HasKeys(keys, arena, child.id)

-----------------------------------------------------------------------------
(* Hashing and writing out.                                                *)

DeclaredNode(key) == [kind |-> "declared", key |-> key]

(* Keys for slots and identities.                                          *)
Keyed(node, keys) ==
    CASE node.kind = "ref" -> DeclaredNode(keys.slots[node.slot])
      [] node.kind = "parameter" -> [node EXCEPT !.id = keys.params[@]]
      [] node.kind = "function" ->
           [node EXCEPT !.binders = [i \in DOMAIN node.binders |->
                                       [node.binders[i] EXCEPT !.id = keys.params[@]]]]
      [] OTHER -> node

NoHash == [kind |-> "none"]

(* The members of a union in the order of their hashes.                    *)
ByHash(members, hash) ==
    LET hashes == SetToSeq({hash[i] : i \in Range(members)})
    IN  [n \in DOMAIN hashes |-> CHOOSE i \in Range(members) : hash[i] = hashes[n]]

(* StableHasher::hash: an alias is what it stands for, a declaration is    *)
(* its key, an application its arguments, a parameter not its bound.       *)
InOrder(node, hash) ==
    IF node.kind = "union" THEN [node EXCEPT !.members = ByHash(@, hash)] ELSE node

HashNode(node, keys, hash) ==
    CASE node.kind = "named" -> hash[node.inner]
      [] node.kind = "parameter" -> [Keyed(node, keys) EXCEPT !.bound = NoHash]
      [] node.kind = "app" -> [Mapped(node, hash) EXCEPT !.body = NoHash]
      [] OTHER -> Keyed(Mapped(InOrder(node, hash), hash), keys)

RECURSIVE StableHash(_, _, _)
StableHash(keys, arena, id) ==
    HashNode(arena.types[id], keys,
             [i \in {child.id : child \in Range(Children(arena.types[id]))} \cup {NoBound} |->
                IF i = NoBound THEN NoHash ELSE StableHash(keys, arena, i)])

(* Mistake: the members of a union go out as they are stored.              *)
AsStored(keys, arena, node) == node

(* A union goes out in the order of its members' hashes.                   *)
Canonical(keys, arena, node) ==
    IF node.kind # "union" THEN node
    ELSE [node EXCEPT !.members =
            ByHash(node.members, [i \in Range(node.members) |-> StableHash(keys, arena, i)])]

Unwritten == [nodes |-> << >>, memo |-> << >>, at |-> 0]

(* emit: the nodes of a type, children first, one node for equal content.  *)
(* at is the position of the last type written out.                        *)
RECURSIVE Emit(_, _, _, _)

EmitBelow(out, keys, arena, below) ==
    LET with(before, id, new) == [out |-> new, at |-> With(before.at, id, new.at)]
        emitted[n \in 0 .. Len(below)] ==
            IF n = 0 THEN [out |-> out, at |-> [i \in {NoBound} |-> NoBound]]
            ELSE with(emitted[n - 1], below[n].id,
                      Emit(emitted[n - 1].out, keys, arena, below[n].id))
    IN  emitted[Len(below)]

EmitNew(nodes, memo, hash, node) ==
    [nodes |-> Append(nodes, node), memo |-> With(memo, hash, Len(nodes) + 1), at |-> Len(nodes) + 1]

EmitAfter(done, keys, hash, node) ==
    EmitNew(done.out.nodes, done.out.memo, hash, Keyed(Mapped(node, done.at), keys))

EmitNode(out, keys, arena, hash, node) ==
    IF hash \in DOMAIN out.memo THEN [out EXCEPT !.at = out.memo[hash]]
    ELSE EmitAfter(EmitBelow(out, keys, arena, Children(node)), keys, hash, node)

Emit(out, keys, arena, id) ==
    IF arena.types[id].kind = "named" THEN Emit(out, keys, arena, arena.types[id].inner)
    ELSE EmitNode(out, keys, arena, StableHash(keys, arena, id),
                  Canonical(keys, arena, arena.types[id]))

(* A part that may be missing.                                             *)
EmitPart(out, keys, arena, id) ==
    IF id = NoBound THEN [out EXCEPT !.at = 0] ELSE Emit(out, keys, arena, id)

HashPart(keys, arena, id) == IF id = NoBound THEN NoHash ELSE StableHash(keys, arena, id)

(* export_decl of [key, kind, body, params], whose parameters have a name, *)
(* a bound and a default: the nodes, and the signature, in which other     *)
(* declarations appear by key.                                             *)
ParamParts(params) == FlattenSeq([i \in DOMAIN params |-> <<params[i].bound, params[i].default>>])

EmitParts(body, keys, arena, parts) ==
    LET added(before, new) == [out |-> new, at |-> Append(before.at, new.at)]
        out[n \in 0 .. Len(parts)] ==
            IF n = 0 THEN [out |-> body, at |-> << >>]
            ELSE added(out[n - 1], EmitPart(out[n - 1].out, keys, arena, parts[n]))
    IN  out[Len(parts)]

SignatureOf(keys, arena, input) ==
    [kind |-> input.kind, body |-> StableHash(keys, arena, input.body),
     parts |-> [n \in DOMAIN ParamParts(input.params) |->
                  HashPart(keys, arena, ParamParts(input.params)[n])]]

ExportParts(input, root, last, sig) ==
    [key |-> input.key, kind |-> input.kind, nodes |-> last.out.nodes, root |-> root,
     params |-> [i \in DOMAIN input.params |->
                   [name |-> input.params[i].name,
                    bound |-> last.at[2 * i - 1], default |-> last.at[2 * i]]],
     sig |-> sig]

ExportBody(keys, arena, input, body) ==
    ExportParts(input, body.at, EmitParts(body, keys, arena, ParamParts(input.params)),
                SignatureOf(keys, arena, input))

ExportDecl(keys, arena, input) ==
    ExportBody(keys, arena, input, Emit(Unwritten, keys, arena, input.body))

-----------------------------------------------------------------------------
(* What leaves a file.                                                     *)

(* decl_parts: the slot of a declaration and the type behind it.           *)
HasSlot(arena, id) ==
    \/ arena.types[id].kind = "ref" /\ arena.decls[arena.types[id].slot].state = "resolved"
    \/ arena.types[id].kind = "named"

DeclBody(arena, id) ==
    IF ~HasSlot(arena, id) THEN id
    ELSE IF arena.types[id].kind = "named" THEN arena.types[id].inner
    ELSE arena.decls[arena.types[id].slot].body

(* The file is checked: its names are resolved in some order.  Beside the  *)
(* namespace, the types of the values.                                     *)
ValueRead(before, name, new) == [s |-> new, values |-> With(before.values, name, new.id)]

CheckName(before, source, name) ==
    IF name \in DOMAIN source.types THEN [before EXCEPT !.s = Resolve(before.s, name)]
    ELSE ValueRead(before, name, Read(before.s, source.values[name]))

CheckedIn(source, order) ==
    FoldLeft(LAMBDA before, name : CheckName(before, source, name),
             [s |-> NewNamespace(source.types), values |-> << >>], order)

(* with_type_params: no declaration when a default cannot be read.         *)
WithParam(before, param, new) ==
    [s |-> new,
     params |-> Append(before.params,
                       [name |-> param.name, id |-> param.id,
                        bound |-> BoundOf(before.s, param.id), default |-> new.id]),
     whole |-> /\ before.whole /\ param.id \in DOMAIN before.s.nodes
               /\ param.default # NotWritten => new.id # NoType]

WithTypeParams(s, params) ==
    LET read[n \in 0 .. Len(params)] ==
            IF n = 0 THEN [s |-> s, params |-> << >>, whole |-> TRUE]
            ELSE WithParam(read[n - 1], params[n], ReadDefault(read[n - 1].s, params, n))
    IN  read[Len(params)]

(* The keys of a declaration: its slot's, its parameters', and those of    *)
(* the signatures inside it.                                               *)
SlotKeys(keys, arena, input, id) ==
    IF input.kind # "value" /\ HasSlot(arena, id) /\ arena.types[id].kind = "ref"
    THEN With(keys.slots, arena.types[id].slot, input.key) ELSE keys.slots

OwnKeys(input) ==
    [i \in {p.id : p \in Range(input.params)} |->
       TypeParamKey(input.key, << >>, CHOOSE n \in DOMAIN input.params : input.params[n].id = i)]

RootsOf(input) ==
    <<Step("body", 0, input.body)>>
    \o FlattenSeq([i \in DOMAIN input.params |->
                     <<Step("own bound", i, input.params[i].bound),
                       Step("own default", i, input.params[i].default)>>])

NestedKeys(keys, arena, key, roots) ==
    LET named[n \in 0 .. Len(roots)] ==
            IF n = 0 THEN keys
            ELSE IF roots[n].id = NoBound THEN named[n - 1]
            ELSE Visit([keys |-> named[n - 1], seen |-> {}], arena, key, roots[n].id,
                       IF n = 1 THEN << >> ELSE <<roots[n].at>>).keys
    IN  named[Len(roots)]

WithKeys(keys, arena, input, id) ==
    NestedKeys([slots |-> SlotKeys(keys, arena, input, id), params |-> OwnKeys(input) @@ keys.params],
               arena, input.key, RootsOf(input))

(* One item is read out and registered.  A collection holds the namespace, *)
(* the types of the values, the keys and what may leave, in order.         *)
WithInput(c, s, id, input) ==
    [c EXCEPT !.s = s, !.keys = WithKeys(@, s.arena, input, id), !.inputs = Append(@, input)]

InputOf(source, name, id, own) ==
    LET isType == name \in DOMAIN source.types
    IN  [key |-> name, kind |-> IF isType THEN source.types[name].kind ELSE "value",
         body |-> IF isType THEN DeclBody(own.s.arena, id) ELSE id, params |-> own.params]

RegisterOwn(c, source, name, id, own) ==
    IF own.whole THEN WithInput(c, own.s, id, InputOf(source, name, id, own))
    ELSE [c EXCEPT !.s = own.s]

DeclaredParams(source, name) ==
    IF name \in DOMAIN source.types THEN source.types[name].params
    ELSE IF source.values[name].kind = "function" THEN source.values[name].binders
    ELSE << >>

RegisterFound(c, source, name, found) ==
    IF found.id = NoType THEN [c EXCEPT !.s = found]
    ELSE RegisterOwn(c, source, name, found.id, WithTypeParams(found, DeclaredParams(source, name)))

Register(c, source, name) ==
    RegisterFound(c, source, name,
                  IF name \in DOMAIN source.types THEN Resolve(c.s, name)
                  ELSE Yield(c.s, c.values[name]))

RegisterAll(checked, source) ==
    FoldLeft(LAMBDA before, name : Register(before, source, name),
             checked @@ [keys |-> NoKeys, inputs |-> << >>],
             SelectSeq(source.items, LAMBDA name : name \in DOMAIN source.types \cup source.exported))

(* The declarations that can be written out, by key.                       *)
TypesIn(input) ==
    {input.body} \cup (Range(ParamParts(input.params)) \ {NoBound})

Writable(all) ==
    {input \in Range(all.inputs) : \A id \in TypesIn(input) : HasKeys(all.keys, all.s.arena, id)}

WriteAll(all, inputs) ==
    [key \in {input.key : input \in inputs} |->
       ExportDecl(all.keys, all.s.arena, CHOOSE input \in inputs : input.key = key)]

WriteWritable(all) == WriteAll(all, Writable(all))

WrittenOut(source, order) == WriteWritable(RegisterAll(CheckedIn(source, order), source))

Mentioned(decl) == {node.key : node \in {n \in Range(decl.nodes) : n.kind = "declared"}}

(* Mistake: what an exported declaration mentions leaves, and no further.  *)
LeavingOnce(written, exported) ==
    exported \cup (UNION {Mentioned(written[key]) : key \in exported} \cap DOMAIN written)

(* The exported declarations leave, and with them what they reach.         *)
Leaving(written, exported) ==
    LET from[keys \in SUBSET DOMAIN written] ==
            LET more == keys \cup (UNION {Mentioned(written[key]) : key \in keys} \cap DOMAIN written)
            IN  IF more = keys THEN keys ELSE from[more]
    IN  from[exported]

(* What the file gives to the files that import it.                        *)
GivenOut(source, written) ==
    Restrict(written, Leaving(written, source.exported \cap DOMAIN written))
=============================================================================
