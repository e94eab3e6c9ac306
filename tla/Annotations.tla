------------------------------ MODULE Annotations ------------------------------
(***************************************************************************)
(* From what is written to a type: resolve_ts_type of                      *)
(* src/src/type_annotation.rs over the declarations of a file, generic     *)
(* ones included (src/src/namespace.rs).  The code's recursion is a        *)
(* recursive operator here; DeclResolution has its interleavings.          *)
(*                                                                         *)
(* A state s holds the arena, the entries of the namespace, the parameter  *)
(* nodes made so far, the parameters whose bound or default is being read, *)
(* the applications made so far, the parameters given an argument outside  *)
(* their bound, and the id of the last annotation read.                    *)
(***************************************************************************)
EXTENDS Generics

NoType == 0

NotWritten == [kind |-> "none"]

(* An entry: its declaration, its type once known, and whether its alias   *)
(* is being resolved.  A parameter in scope is an entry with a type and no *)
(* declaration.                                                            *)
Entry(decl, resolved) == [decl |-> decl, resolved |-> resolved, resolving |-> FALSE]

NewNamespace(program) ==
    [arena |-> NewArena, id |-> NoType, done |-> << >>, nodes |-> << >>,
     bounding |-> {}, defaulting |-> {}, violated |-> {},
     entries |-> [name \in DOMAIN program |-> Entry(program[name], NoType)]]

RECURSIVE Read(_, _), Resolve(_, _)

(* The types of a sequence of annotations, up to the first that has none.  *)
ReadAll(s, written) ==
    LET added(before, new) ==
            IF Contains(before.ids, NoType) THEN before
            ELSE [s |-> new, ids |-> Append(before.ids, new.id)]
        read[n \in 0 .. Len(written)] ==
            IF n = 0 THEN [s |-> s, ids |-> << >>]
            ELSE added(read[n - 1], Read(read[n - 1].s, written[n]))
    IN  read[Len(written)]

(* The node of a declared parameter; while its own bound is being read, a  *)
(* bare one that is not kept.                                              *)
NodeKept(s, id, new) ==
    [new EXCEPT !.bounding = s.bounding, !.nodes = With(@, id, new.id)]

NodeOf(id, bound) == Put(bound, Alloc(bound.arena, ParameterNode(id, bound.id)))

ParameterIn(s, param) ==
    IF param.id \in DOMAIN s.nodes THEN Yield(s, s.nodes[param.id])
    ELSE IF param.id \in s.bounding THEN NodeOf(param.id, Yield(s, NoBound))
    ELSE NodeKept(s, param.id, NodeOf(param.id, Read([s EXCEPT !.bounding = @ \cup {param.id}],
                                                     param.bound)))

(* push_decl_type_params: each name shadows what it named before.          *)
PushParams(s, params) ==
    LET shadowed(name, new) == [new EXCEPT !.entries = With(@, name, Entry(NotWritten, new.id))]
        pushed[n \in 0 .. Len(params)] ==
            IF n = 0 THEN s
            ELSE shadowed(params[n].name, ParameterIn(pushed[n - 1], params[n]))
    IN  pushed[Len(params)]

(* pop_type_params: what the names named when they were pushed.            *)
PopParams(s, before, params) ==
    LET names == {params[i].name : i \in DOMAIN params}
    IN  [s EXCEPT !.entries = [name \in (DOMAIN @ \ names) \cup (DOMAIN before.entries \cap names) |->
                                 IF name \in names THEN before.entries[name] ELSE @[name]]]

(* resolve_type_param_default: none while that default is being read.      *)
ReadDefault(s, params, i) ==
    IF params[i].default = NotWritten \/ params[i].id \in s.defaulting THEN Yield(s, NoType)
    ELSE [PopParams(Read(PushParams([s EXCEPT !.defaulting = @ \cup {params[i].id}], params),
                         params[i].default), s, params)
          EXCEPT !.defaulting = s.defaulting]

BoundOf(s, id) == IF id \in DOMAIN s.nodes THEN Get(s.arena, s.nodes[id]).bound ELSE NoBound

(* resolve_function_type_params: the parameters a signature declares, read *)
(* after its result.                                                       *)
ReadBinders(s, params) ==
    LET binder(id, new) == [id |-> id, bound |-> BoundOf(s, id), default |-> new.id]
        added(before, id, new) == [s |-> new, binders |-> Append(before.binders, binder(id, new))]
        read[n \in 0 .. Len(params)] ==
            IF n = 0 THEN [s |-> s, binders |-> << >>]
            ELSE added(read[n - 1], params[n].id, ReadDefault(read[n - 1].s, params, n))
    IN  read[Len(params)]

(* A parameter with no type it can read is any, a rest parameter any[].    *)
ElseAny(new, param) ==
    IF new.id # NoType THEN new
    ELSE IF param.rest THEN NewArray(Yield(new, PrimitiveId("any")))
    ELSE Yield(new, PrimitiveId("any"))

ReadParams(s, params) ==
    LET param(i, id) == [type |-> id, optional |-> params[i].optional, rest |-> params[i].rest]
        added(before, n, new) == [s |-> new, params |-> Append(before.params, param(n, new.id))]
        read[n \in 0 .. Len(params)] ==
            IF n = 0 THEN [s |-> s, params |-> << >>]
            ELSE added(read[n - 1], n, ElseAny(Read(read[n - 1].s, params[n].of), params[n]))
    IN  read[Len(params)]

(* A function type, its type parameters in scope; none if its result has   *)
(* no type.                                                                *)
FunctionRead(s, written, params, returns, own) ==
    LET outside == PopParams(own.s, s, written.binders)
    IN  IF returns = NoType THEN Yield(outside, NoType)
        ELSE Put(outside, Alloc(outside.arena, FunctionNode(params, returns, own.binders)))

ReadReturns(s, written, read, returns) ==
    FunctionRead(s, written, read.params, returns.id, ReadBinders(returns, written.binders))

ReadRest(s, written, read) == ReadReturns(s, written, read, Read(read.s, written.returns))

ReadFunction(s, written) ==
    ReadRest(s, written, ReadParams(PushParams(s, written.binders), written.params))

(* resolve_object_members: one member that has no type, or a name met      *)
(* twice, and there is no object.                                          *)
MemberProperty(member, id) == [type |-> id, optional |-> member.optional, method |-> member.method]

Members(members, all) ==
    LET names == {members[i].name : i \in DOMAIN members}
        At(name) == CHOOSE i \in DOMAIN members : members[i].name = name
    IN  IF Contains(all.ids, NoType) \/ Cardinality(names) # Len(members) THEN Yield(all.s, NoType)
        ELSE NewObject([s |-> all.s,
                       properties |-> [name \in names |-> MemberProperty(members[At(name)],
                                                                    all.ids[At(name)])]])

(* Nothing is read after a name is met again.                              *)
UpToRepeated(members) ==
    LET repeated == {i \in DOMAIN members : \E j \in 1 .. i - 1 : members[j].name = members[i].name}
    IN  IF repeated = {} THEN members ELSE SubSeq(members, 1, Min(repeated))

ReadObject(s, members) ==
    LET read == UpToRepeated(members)
    IN  Members(read, ReadAll(s, [i \in DOMAIN read |-> read[i].of]))

(* A union or an intersection of members that all have a type.             *)
MadeOf(kind, all) ==
    IF Contains(all.ids, NoType) THEN Yield(all.s, NoType)
    ELSE IF kind = "union" THEN NewUnion(all) ELSE NewIntersection(all)

ArrayRead(of) == IF of.id = NoType THEN of ELSE NewArray(of)

(* resolve_builtin_generic: what an argument of Promise or Record lacks is *)
(* the error type, an array needs its element.                             *)
ElseError(new) == IF new.id = NoType THEN Yield(new, PrimitiveId("error")) ELSE new

BuiltinApp(s, name, args, empty) == Put(s, AllocApp(empty.arena, name, args, empty.id))

AppOfEmpty(s, name, args) == BuiltinApp(s, name, args, Alloc(s.arena, EmptyObject))

PromiseOf(of) == AppOfEmpty(of, "Promise", <<of.id>>)

RecordOf(key, value) == AppOfEmpty(value, "Record", <<key.id, value.id>>)

ReadRecord(key, args) == RecordOf(key, ElseError(Read(key, args[2])))

ReadBuiltin(s, name, args) ==
    CASE name = "Array" -> IF args = << >> THEN Yield(s, NoType) ELSE ArrayRead(Read(s, args[1]))
      [] name = "Promise" ->
           PromiseOf(IF args = << >> THEN Yield(s, PrimitiveId("void")) ELSE ElseError(Read(s, args[1])))
      [] name = "Record" ->
           IF args = << >> THEN Yield(s, NoType)
           ELSE IF Len(args) = 1 THEN Yield(Read(s, args[1]), NoType)
           ELSE ReadRecord(ElseError(Read(s, args[1])), args)

(* check_type_argument_constraint: an argument outside its bound is noted. *)
Within(s, param, argument, applied) ==
    [s EXCEPT !.arena = applied.arena,
              !.violated = IF Mentions(applied.arena, applied.id)
                              \/ Subtype(applied.arena, argument, applied.id)
                           THEN @ ELSE @ \cup {param.id}]

CheckBound(s, param, argument, bindings) ==
    LET bound == BoundOf(s, param.id)
    IN  IF bound = NoBound THEN s
        ELSE Within(s, param, argument, Substitute(s.arena, bound, bindings, FALSE))

(* One binding for each declared parameter, in order: of its argument, or  *)
(* else of its default, where the parameters before it have been replaced. *)
BindArgument(given, param, bindings) ==
    Yield(CheckBound(given, param, given.id, bindings), given.id)

BindDefault(default, bindings) ==
    IF default.id = NoType THEN ElseError(default)
    ELSE Put(default, Substitute(default.arena, default.id, bindings, FALSE))

BindNext(before, params, args, n) ==
    IF n <= Len(args)
    THEN BindArgument(ElseError(Read(before.s, args[n])), params[n], before.bindings)
    ELSE BindDefault(ReadDefault(before.s, params, n), before.bindings)

Bindings(s, params, args) ==
    LET added(before, id, new) == [s |-> new, bindings |-> With(before.bindings, id, new.id)]
        bind[n \in 0 .. Len(params)] ==
            IF n = 0 THEN [s |-> s, bindings |-> << >>]
            ELSE added(bind[n - 1], params[n].id, BindNext(bind[n - 1], params, args, n))
    IN  bind[Len(params)]

(* Mistake: an application that changed nothing is remembered too.         *)
ApplyAndKeep(s, base, params, bindings) ==
    LET kept(new) == [Put(s, new) EXCEPT !.done = With(@, <<base, bindings>>, new.id)]
    IN  IF <<base, bindings>> \in DOMAIN s.done THEN Yield(s, s.done[<<base, bindings>>])
        ELSE kept(Substitute(s.arena, base, bindings, TRUE))

(* A generic declaration applied: an application once made is handed out   *)
(* again; one that changed nothing is the declaration itself.              *)
AppKept(s, key, new) == [Put(s, new) EXCEPT !.done = With(@, key, new.id)]

NewApp(s, base, args, bindings, result) ==
    IF result.id = base THEN Put(s, result)
    ELSE AppKept(s, <<base, bindings>>, AllocApp(result.arena, "declared", args, result.id))

Apply(s, base, params, bindings) ==
    IF <<base, bindings>> \in DOMAIN s.done THEN Yield(s, s.done[<<base, bindings>>])
    ELSE NewApp(s, base, [i \in DOMAIN params |-> bindings[params[i].id]], bindings,
                Substitute(s.arena, base, bindings, TRUE))

(* A type reference.                                                       *)
ApplyBound(id, params, bound) == Apply(bound.s, id, params, bound.bindings)

ReadApplied(base, params, args) ==
    IF args = << >> /\ \E i \in DOMAIN params : params[i].default = NotWritten
    THEN Yield(base, PrimitiveId("error"))
    ELSE ApplyBound(base.id, params, Bindings(base, params, args))

ReadDeclared(base, decl, args) ==
    IF base.id = NoType \/ decl = NotWritten \/ decl.params = << >> THEN base
    ELSE ReadApplied(base, decl.params, args)

ReadReference(s, name, args) ==
    IF name \in DOMAIN s.entries THEN ReadDeclared(Resolve(s, name), s.entries[name].decl, args)
    ELSE IF name \in Builtins \cup {"Array"} THEN ReadBuiltin(s, name, args)
    ELSE Yield(s, NoType)

(* resolve_ts_type.  The default of an imported parameter is a type        *)
(* already.                                                                *)
Read(s, written) ==
    CASE written.kind = "primitive" -> Yield(s, PrimitiveId(written.name))
      [] written.kind = "literal" ->
           Put(s, Alloc(s.arena, LiteralNode(written.base, written.value)))
      [] written.kind = "array" -> ArrayRead(Read(s, written.of))
      [] written.kind \in {"union", "intersection"} -> MadeOf(written.kind, ReadAll(s, written.of))
      [] written.kind = "object" -> ReadObject(s, written.members)
      [] written.kind = "function" -> ReadFunction(s, written)
      [] written.kind = "name" -> ReadReference(s, written.name, written.args)
      [] written.kind = "imported" -> Yield(s, written.id)
      [] OTHER -> Yield(s, NoType)

(* An interface, a class, an alias whose body is an object type.           *)
SelfReferenceable(decl) == decl.body.kind = "object"

(* resolve_entry begins a declaration nothing has asked for yet: an object *)
(* may mention itself through its reference, any other alias may not.      *)
Begin(s, name) ==
    LET ref == AllocRef(s.arena)
    IN  IF SelfReferenceable(s.entries[name].decl)
        THEN [Put(s, ref) EXCEPT !.entries[name].resolved = ref.id]
        ELSE [s EXCEPT !.entries[name].resolving = TRUE]

(* Its body, read with its own parameters in scope.                        *)
ReadBody(s, decl) == PopParams(Read(PushParams(s, decl.params), decl.body), s, decl.params)

(* The end of resolve_entry: what was read is the body behind the          *)
(* reference, or the type of the alias.                                    *)
FinishAlias(s, name, wrapped) == [Put(s, wrapped) EXCEPT !.entries[name].resolved = wrapped.id]

FinishRef(s, name, ref, slot) ==
    IF s.id = NoType
    THEN [s EXCEPT !.arena = FailRef(@, slot), !.entries[name].resolved = NoType]
    ELSE [s EXCEPT !.arena = ResolveRef(@, slot, s.id), !.id = ref]

Ended(s, name, decl, ref) ==
    IF SelfReferenceable(decl) THEN FinishRef(s, name, ref, s.arena.types[ref].slot)
    ELSE IF s.id = NoType THEN s
    ELSE FinishAlias(s, name, IF decl.params = << >> THEN AllocNamed(s.arena, s.id)
                              ELSE Same(s.arena, s.id))

Finish(s, name) ==
    Ended([s EXCEPT !.entries[name].resolving = FALSE], name, s.entries[name].decl,
          s.entries[name].resolved)

(* resolve.                                                                *)
Resolve(s, name) ==
    LET entry == s.entries[name]
    IN  IF name \notin DOMAIN s.entries THEN Yield(s, NoType)
        ELSE IF entry.resolved # NoType THEN Yield(s, entry.resolved)
        ELSE IF entry.resolving THEN Yield(s, NoType)
        ELSE Finish(ReadBody(Begin(s, name), entry.decl), name)
=============================================================================
