---------------------------- MODULE CallProperties ----------------------------
(***************************************************************************)
(* What the check of a call promises, whatever calls were checked before   *)
(* it over the same arena.                                                 *)
(***************************************************************************)
EXTENDS Calls, TypeMeaning

CONSTANT Value   \* [kind, and literal | fields | elements]

Site(i) == Files[file].sites[i]

(* A call whose number of arguments was right, checked against a signature.*)
Judged == {i \in DOMAIN outcomes :
             /\ Get(space.arena, outcomes[i].member).kind = "function"
             /\ \A report \in outcomes[i].reports : report.what \in {"argument", "bound"}}

Signature(i) == Get(space.arena, outcomes[i].member)

AmbientIn(i) ==
    Ambient(Declared(space.arena, Signature(i), Files[file].order), Site(i), Active(Site(i)))

OwnOf(i) ==
    SelectSeq(Declared(space.arena, Signature(i), Files[file].order),
              LAMBDA id : id \notin AmbientIn(i))

(* Every parameter of a signature, the unbound ones unknown.               *)
Filled(bindings) ==
    [id \in Parameter |-> IF id \in DOMAIN bindings THEN bindings[id] ELSE PrimitiveId("unknown")]

-----------------------------------------------------------------------------

(* A written type argument is what its parameter stands for, and a         *)
(* parameter of the declaration the call is inside of stands for itself,   *)
(* whatever the arguments would have it be (check_callable's locked).      *)
GivenIsKept ==
    \A i \in Judged :
        /\ \A k \in DOMAIN OwnOf(i) : k <= Len(Site(i).explicit) =>
              outcomes[i].bindings[OwnOf(i)[k]] = outcomes[i].call.explicit[k]
        /\ ~Site(i).declaration =>
              \A id \in Active(Site(i)) \cap DOMAIN outcomes[i].bindings :
                 outcomes[i].bindings[id] = space.nodes[id]

(* Signatures whose parameters vary with the arguments and offer each part *)
(* of an argument one place: no functions, one generic member to a union.  *)
Covariant(arena, f) ==
    \A p \in UNION {Reach(arena, f.params[i].type, {}) : i \in DOMAIN f.params} :
        LET node == Get(arena, p)
        IN  /\ node.kind # "function"
            /\ node.kind = "union" =>
                 Cardinality({m \in Range(node.members) : Mentions(arena, m)}) <= 1

(* A choice of type arguments all arguments and bounds agree with.         *)
Agrees(arg, param, choice) ==
    param # NoParam => LET Under(expected) == Subtype(expected.arena, arg, expected.id)
                       IN  Under(Substitute(space.arena, param, choice, FALSE))

Serves(i, choice) ==
    /\ \A k \in DOMAIN outcomes[i].call.args :
          Agrees(outcomes[i].call.args[k], ParamTypeAt(space.arena, Signature(i).params, k), choice)
    /\ BoundReports([arena |-> space.arena, bindings |-> choice],
                    BoundsOf(space.arena, Signature(i)), AmbientIn(i)) = {}

(* The types met in the arguments of a call that have no literal in them.  *)
Met(i) ==
    LET Below(id) == Reach(space.arena, id, {})
        Wide(id) == \A part \in Below(id) : Get(space.arena, part).kind # "literal"
    IN  {id \in UNION {Below(arg) : arg \in Range(outcomes[i].call.args)} : Wide(id)}

(* merge_inference_candidate and the set-aside of a union's other members: *)
(* if types met in the arguments, no literal in them since inference       *)
(* widens, can stand for the parameters so that every argument fits, the   *)
(* types inferred do, and nothing is reported.                             *)
InferenceFindsWhatServes ==
    \A i \in Judged :
        /\ Site(i).explicit = << >> /\ FirstSpread(Site(i).args) = NoSpread
        /\ Covariant(space.arena, Signature(i))
        /\ outcomes[i].reports # {}
        => \A choice \in [Range(OwnOf(i)) -> Met(i)] : ~Serves(i, choice)

(* A signature with a union that leads back to itself; SubstitutionIsTotal *)
(* says what becomes of it.                                                *)
Looped(i) ==
    \E u \in Reach(space.arena, outcomes[i].member, {}) :
        LET node == Get(space.arena, u)
        IN  node.kind = "union" /\ \E m \in Range(node.members) : u \in Reach(space.arena, m, {})

Bound(i) == DOMAIN outcomes[i].bindings # {}

(* What a call brings out of its signature is the caller's: its type has   *)
(* the values the declared result has when every parameter is read as what *)
(* it was bound to, and neither it nor a type argument, defaults included, *)
(* mentions a parameter of the callee.                                     *)
ResultIsCallers ==
    \A i \in Judged : Bound(i) /\ ~Looped(i) =>
        /\ \A v \in Value :
              Has(space.arena, v, outcomes[i].result)
              <=> HasUnder(space.arena, v, Signature(i).returns, Filled(outcomes[i].bindings))
        /\ \A id \in Range(outcomes[i].bindings) \cup {outcomes[i].result} :
              FreeParameters(space.arena, id, {})[id] \subseteq Active(Site(i))

(* pick_callable_member: the call is checked against the first member that *)
(* the same check, on its own, has nothing to report about.                *)
Taking(call, members) ==
    {k \in DOMAIN members :
       LET f == Get(space.arena, members[k])
       IN  f.kind = "function" /\ CheckFunction(space.arena, members[k], f, call).reports = {}}

FirstMemberThatTakesIt ==
    \A i \in DOMAIN outcomes :
        LET callee == outcomes[i].call.callee
            members == Get(space.arena, callee).members
            First(taking) ==
                taking # {} => outcomes[i].member = members[CHOOSE k \in taking :
                                                              \A j \in taking : k <= j]
        IN  Get(space.arena, callee).kind = "intersection" /\ ~Mentions(space.arena, callee)
            => First(Taking(outcomes[i].call, members))

(* The arity of a call with a spread is only reported when no number of    *)
(* elements would make it right.                                           *)
ArityIsCertain ==
    \A i \in DOMAIN outcomes :
        LET f == Signature(i)
            args == Site(i).args
            spreads == {k \in DOMAIN args : args[k].spread}
        IN  /\ f.kind = "function"
            /\ \E report \in outcomes[i].reports : report.what = "arity"
            => \A n \in 0 .. Len(f.params) :
                  LET count == Len(args) - Cardinality(spreads) + IF spreads = {} THEN 0 ELSE n
                  IN  count < Required(f.params) \/ (~HasRest(f.params) /\ count > Len(f.params))

-----------------------------------------------------------------------------
(* "Rebuilds type_id, replacing every GenericParameter occurrence with its *)
(* bound type, or unknown for a parameter nothing ever informed" (above    *)
(* substitute).  The type of a call keeps a parameter of the callee where  *)
(* a recursive type leads through a union back to that union.              *)
SubstitutionIsTotal ==
    \A i \in Judged : Bound(i) =>
        FreeParameters(space.arena, outcomes[i].result, {})[outcomes[i].result] \subseteq Active(Site(i))
=============================================================================
