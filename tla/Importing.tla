------------------------------- MODULE Importing -------------------------------
(***************************************************************************)
(* A file that imports: the Importer of src/src/portable.rs rebuilds in    *)
(* its own arena the declarations another file gave out, and the file's    *)
(* annotations use them (src/src/bridge/imports.rs, src/src/namespace.rs). *)
(***************************************************************************)
EXTENDS Portable

CONSTANT Files   \* what is imported and how it is used:
                 \* [source, spellings, orders, missing, uses]

VARIABLES file,      \* which of Files
          written,   \* the declarations the exporting file writes out, by the
                     \* way it writes its unions and the order it resolves
                     \* its names in
          provider,  \* DeclProvider: the declarations there are, by key
          space,     \* the importing namespace, the references and the names
                     \* of imported declarations, what is still to be read
          bound,     \* the types of what is imported, by key
          params,    \* the type parameters of imported generic declarations
          roots      \* the types of the annotations read so far

vars == <<file, written, provider, space, bound, params, roots>>

source == Files[file].source

uses == Files[file].uses

NewImporter == NewNamespace(<< >>) @@ [refs |-> << >>, named |-> << >>, pending |-> << >>]

(* Any one declaration may be missing: its file gave nothing out.          *)
Provides(exports) ==
    \E missing \in {{}} \cup {{key} : key \in Files[file].missing} :
        provider = Restrict(exports, DOMAIN exports \ missing)

(* The exporting file writes its unions one way or another and resolved    *)
(* its names in some order.                                                *)
Init ==
    /\ file \in DOMAIN Files
    /\ written = [way \in Files[file].spellings \X Files[file].orders |-> WrittenOut(way[1], way[2])]
    /\ \E way \in DOMAIN written : Provides(GivenOut(source, written[way]))
    /\ space = NewImporter
    /\ bound = << >> /\ params = << >> /\ roots = << >>

-----------------------------------------------------------------------------
(* The Importer.                                                           *)

(* A new reference, its declaration to be read.                            *)
NewRef(s, key) == [Put(s, AllocRef(s.arena)) EXCEPT !.refs = With(@, key, NewId(s.arena)),
                                                    !.pending = Append(@, key)]

Referable(key) == key \in DOMAIN provider /\ provider[key].kind \in {"interface", "class"}

(* ref_for: only an interface or a class has a reference; its body is read *)
(* later.  What is not there, or is neither, is the error type.            *)
RefFor(s, key) ==
    IF key \in DOMAIN s.refs THEN Yield(s, s.refs[key])
    ELSE IF Referable(key) THEN NewRef(s, key)
    ELSE Yield(s, PrimitiveId("error"))

(* The parameters a signature declares are types of their own.             *)
WithBinders(arena, binders) ==
    LET with[n \in 0 .. Len(binders)] ==
            IF n = 0 THEN arena
            ELSE Alloc(with[n - 1], ParameterNode(binders[n].id, binders[n].bound)).arena
    IN  with[Len(binders)]

(* One node as a type; to gives the types of the nodes before it.          *)
Built(s, node) ==
    Put(s, CASE node.kind = "union" -> AllocUnion(s.arena, node.members)
             [] node.kind = "intersection" -> OrTooComplex(AllocIntersection(s.arena, node.members))
             [] node.kind = "app" -> AllocApp(s.arena, node.of, node.args, node.body)
             [] node.kind = "function" -> Alloc(WithBinders(s.arena, node.binders), node)
             [] OTHER -> Alloc(s.arena, node))

Local(s, node, to) ==
    CASE node.kind = "primitive" -> Yield(s, PrimitiveId(node.name))
      [] node.kind = "declared" -> RefFor(s, node.key)
      [] OTHER -> Built(s, Mapped(node, to))

(* body_ids: one pass over the nodes.                                      *)
Bodies(s, nodes) ==
    LET with(before, n, new) == [s |-> new, to |-> With(before.to, n, new.id)]
        built[n \in 0 .. Len(nodes)] ==
            IF n = 0 THEN [s |-> s, to |-> [i \in {NoBound} |-> NoBound]]
            ELSE with(built[n - 1], n, Local(built[n - 1].s, nodes[n], built[n - 1].to))
    IN  built[Len(nodes)]

RootOf(built, root) == Yield(built.s, built.to[root])

BodyOf(s, decl) == RootOf(Bodies(s, decl.nodes), decl.root)

(* The body under the alias's name: an alias has one name.                 *)
NameOnce(s, at, new) == [Put(s, new) EXCEPT !.named = With(@, at, new.id)]

NameAlias(s, key) ==
    LET at == <<key, s.id>>
    IN  IF at \in DOMAIN s.named THEN Yield(s, s.named[at])
        ELSE NameOnce(s, at, AllocNamed(s.arena, s.id))

(* import_decl, up to its drain.                                           *)
ImportDecl(s, key) ==
    LET decl == provider[key]
    IN  CASE decl.kind \in {"interface", "class"} -> RefFor(s, key)
          [] decl.kind = "alias" /\ decl.params = << >> -> NameAlias(BodyOf(s, decl), key)
          [] OTHER -> BodyOf(s, decl)

(* Mistake: an imported parameter has no default.                          *)
NoDefault(p, to) == NotWritten

DefaultFor(p, to) ==
    IF p.default = 0 THEN NotWritten ELSE [kind |-> "imported", id |-> to[p.default]]

(* The parameters of an imported declaration, by position, as a            *)
(* declaration of this file would have them.                               *)
ParamMade(before, id, p, to, node) ==
    [s |-> [Put(before.s, node) EXCEPT !.nodes = With(@, id, node.id)],
     params |-> Append(before.params, [name |-> p.name, id |-> id, bound |-> NotWritten,
                                       default |-> DefaultFor(p, to)])]

MakeParam(before, id, p, to) ==
    ParamMade(before, id, p, to, Alloc(before.s.arena, ParameterNode(id, to[p.bound])))

MakeParams(key, declared, built) ==
    LET made[n \in 0 .. Len(declared)] ==
            IF n = 0 THEN [s |-> built.s, params |-> << >>]
            ELSE MakeParam(made[n - 1], TypeParamKey(key, << >>, n), declared[n], built.to)
    IN  made[Len(declared)]

GenericParams(s, key) == MakeParams(key, provider[key].params, Bodies(s, provider[key].nodes))

-----------------------------------------------------------------------------
(* The importing file.                                                     *)

NothingPending == space.pending = << >>

IsGeneric(key) == provider[key].kind # "value" /\ provider[key].params # << >>

ParamsRead == \A key \in DOMAIN bound : IsGeneric(key) => key \in DOMAIN params

(* A name is imported: every import is bound before anything is read.      *)
BindTo(key, new) ==
    /\ space' = [new EXCEPT !.entries = With(@, key, Entry([params |-> << >>], new.id))]
    /\ bound' = With(bound, key, new.id)

Bind(key) ==
    /\ NothingPending /\ ParamsRead /\ roots = << >>
    /\ key \in source.exported \cap (DOMAIN provider \ DOMAIN bound)
    /\ BindTo(key, ImportDecl(space, key))
    /\ UNCHANGED <<file, written, provider, params, roots>>

(* generic_params follows for a generic type.                              *)
BindParamsTo(key, new) ==
    /\ params' = With(params, key, new.params)
    /\ space' = [new.s EXCEPT !.entries[key].decl = [params |-> new.params]]

BindParams(key) ==
    /\ NothingPending
    /\ key \in DOMAIN bound \ DOMAIN params /\ IsGeneric(key)
    /\ BindParamsTo(key, GenericParams(space, key))
    /\ UNCHANGED <<file, written, provider, bound, roots>>

(* The body of what was made last becomes the body of a reference.         *)
ResolveWith(key, body) ==
    [body EXCEPT !.arena = ResolveRef(@, space.arena.types[space.refs[key]].slot, body.id)]

LastBody == BodyOf([space EXCEPT !.pending = Front(@)], provider[Last(space.pending)])

(* Mistake: the first of what is pending gets the body of the last.        *)
DrainFirst ==
    /\ space.pending # << >>
    /\ space' = ResolveWith(Head(space.pending), LastBody)
    /\ UNCHANGED <<file, written, provider, bound, params, roots>>

(* One turn of drain: the last reference made gets its body, which may     *)
(* make more.                                                              *)
Drain ==
    /\ space.pending # << >>
    /\ space' = ResolveWith(Last(space.pending), LastBody)
    /\ UNCHANGED <<file, written, provider, bound, params, roots>>

(* The file's next annotation.                                             *)
Use ==
    /\ NothingPending /\ ParamsRead
    /\ Len(roots) < Len(uses)
    /\ space' = Read(space, uses[Len(roots) + 1])
    /\ roots' = Append(roots, space'.id)
    /\ UNCHANGED <<file, written, provider, bound, params>>

Next ==
    \/ \E key \in source.exported : Bind(key) \/ BindParams(key)
    \/ Drain
    \/ Use

Spec == Init /\ [][Next]_vars
=============================================================================
