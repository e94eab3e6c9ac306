---------------------------- MODULE ImportProperties ----------------------------
(***************************************************************************)
(* What a declaration keeps on its way from one file to another.           *)
(***************************************************************************)
EXTENDS Importing, TypeMeaning

CONSTANT Value   \* [kind, and literal | fields | elements]

-----------------------------------------------------------------------------
(* The importer knows the declarations and parameters it made.             *)
ImportedKeys ==
    [slots |-> [slot \in {space.arena.types[space.refs[key]].slot : key \in DOMAIN space.refs} |->
                  CHOOSE key \in DOMAIN space.refs : space.arena.types[space.refs[key]].slot = slot],
     params |-> [i \in Parameter |-> i]]

(* The program the importer sees: what is missing, and a type literal that *)
(* is mentioned by name, is the error type there.                          *)
IsTypeLiteral(key) ==
    source.types[key].kind = "alias" /\ source.types[key].params = << >> /\ source.types[key].body.kind = "object"

Visible ==
    [key \in DOMAIN source.types |->
       IF IsTypeLiteral(key) \/ (source.types[key].kind # "alias" /\ key \notin DOMAIN provider)
       THEN [source.types[key] EXCEPT !.body = [kind |-> "primitive", name |-> "error"]]
       ELSE source.types[key]]

(* A type literal that is imported itself is its body.                     *)
Meant(use) ==
    IF use.kind = "name" /\ IsTypeLiteral(use.name) THEN source.types[use.name].body ELSE use

HasFunction(id) == \E i \in Reach(space.arena, id, {}) : Get(space.arena, i).kind = "function"

-----------------------------------------------------------------------------

(* portable.rs: an annotation of the importing file has exactly the values *)
(* the declarations it names have in the file they are written in: a       *)
(* reference is a reference to the same declaration, a type argument fills *)
(* the parameter it is given for, and what is not there takes anything.    *)
MeansWhatItMeantThere ==
    NothingPending =>
        LET program == Visible
        IN  \A i \in DOMAIN roots : (roots[i] # NoType /\ ~HasFunction(roots[i])) =>
                \A v \in Value : Has(space.arena, v, roots[i])
                                 <=> Denotes(program, v, Meant(uses[i]), << >>)

(* Everything the importer rebuilt is what was given: written out again,   *)
(* an imported declaration has the same nodes and the same signature       *)
(* (portable.rs, export_import_export_round_trips), if what it mentions is *)
(* there to be mentioned.                                                  *)
Whole(key) ==
    \A mentioned \in Mentioned(provider[key]) :
        mentioned \in DOMAIN provider /\ ~IsTypeLiteral(mentioned)

(* The parameters of what was imported; a function carries its own.        *)
OwnParams(key) ==
    LET Default(p) == IF p.default = NotWritten THEN NoBound ELSE p.default.id
        binders == Get(space.arena, bound[key]).binders
    IN  IF provider[key].params = << >> THEN << >>
        ELSE IF provider[key].kind = "value"
        THEN [n \in DOMAIN binders |-> [binders[n] EXCEPT !.id = n] @@ [name |-> provider[key].params[n].name]]
        ELSE [n \in DOMAIN params[key] |->
                [name |-> params[key][n].name, bound |-> BoundOf(space, params[key][n].id),
                 default |-> Default(params[key][n])]]

Again(key) ==
    ExportDecl(ImportedKeys, space.arena,
        [key |-> key, kind |-> provider[key].kind, params |-> OwnParams(key),
         body |-> IF provider[key].kind = "value" THEN bound[key] ELSE DeclBody(space.arena, bound[key])])

RoundTrips ==
    NothingPending /\ ParamsRead /\ roots = << >> =>
        \A key \in DOMAIN bound : Whole(key) => Again(key) = provider[key]

(* portable.rs, stable_hash.rs: what a file gives out depends neither on   *)
(* the order its own names happened to be resolved in nor on the order a   *)
(* union is written in (union_member_order_does_not_change_the_export).    *)
ExportIsCanonical ==
    bound = << >> =>
        \A one, other \in DOMAIN written : GivenOut(source, written[one]) = GivenOut(source, written[other])

(* Every reference in what leaves leads to something that leaves.          *)
Followed(all) ==
    LET leaving == DOMAIN GivenOut(source, all)
    IN  \A key \in leaving : Mentioned(all[key]) \cap DOMAIN all \subseteq leaving

(* exports.rs: a declaration of the file that something that leaves        *)
(* mentions leaves too, however long the way to it: every reference can be *)
(* followed.                                                               *)
NothingDangles == bound = << >> => \A way \in DOMAIN written : Followed(written[way])
=============================================================================
