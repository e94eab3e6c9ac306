--------------------------------- MODULE Calls ---------------------------------
(***************************************************************************)
(* Call expressions, check_callable of                                     *)
(* src/src/bridge/expressions/calls.rs.  The calls of a file are checked   *)
(* one after the other over one arena.                                     *)
(*                                                                         *)
(* A site is [callee, args, explicit, declaration, within]: the type of    *)
(* the callee, the arguments [of, spread, literal], the type arguments     *)
(* written, whether the callee is the name of a declaration, and the       *)
(* declaration the call is written inside of, if any.                      *)
(***************************************************************************)
EXTENDS Inference

CONSTANT Files   \* [program, sites, order]: declarations, calls, and the type
                 \* parameters in the order the file declares them

VARIABLES file,      \* the file being checked
          space,     \* its namespace and the arena
          outcomes   \* what came of each call checked so far, by position

vars == <<file, space, outcomes>>

NoOne == "none"

Report(what, at) == [what |-> what, at |-> at]

-----------------------------------------------------------------------------
(* The arity of a call.                                                    *)

HasRest(params) == params # << >> /\ Last(params).rest

Unlimited == 0 - 1

Most(params) == IF HasRest(params) THEN Unlimited ELSE Len(params)

NoSpread == 0

FirstSpread(args) == SelectInSeq(args, LAMBDA arg : arg.spread)

(* Mistake: a spread counts as one argument.                               *)
CountSpread(params, args) ==
    Len(args) >= Required(params) /\ (HasRest(params) \/ Len(args) <= Len(params))

(* Up to the first spread arguments can be counted; after it only that     *)
(* there are too many.                                                     *)
CountFits(params, args) ==
    LET first == FirstSpread(args)
    IN  IF first # NoSpread THEN HasRest(params) \/ first - 1 <= Len(params)
        ELSE Len(args) >= Required(params) /\ (HasRest(params) \/ Len(args) <= Len(params))

(* An array spread before the required parameters are given, or where no   *)
(* parameter is left; an array written in place is a tuple.                *)
Misplaced(arena, params, args, types) ==
    LET first == FirstSpread(args)
    IN  /\ first # NoSpread
        /\ Get(arena, types[first]).kind = "array" /\ ~args[first].literal
        /\ ~(first - 1 >= Required(params) /\ (HasRest(params) \/ first - 1 < Len(params)))

ArityReport(arena, params, args, types) ==
    IF Misplaced(arena, params, args, types) THEN {Report("spread", FirstSpread(args))}
    ELSE IF CountFits(params, args) THEN {}
    ELSE {Report("arity", IF ~HasRest(params) /\ Len(args) > Len(params) THEN Len(params) + 1 ELSE 0)}

-----------------------------------------------------------------------------
(* A callee that is an intersection.                                       *)

Fits == [fit |-> "fits", at |-> 0]

Accepts(arena, argument, param) == Mentions(arena, param) \/ Subtype(arena, argument, param)

(* Mistake: only the first argument is judged.                             *)
FitFirst(arena, params, types) ==
    IF Len(types) < Required(params) \/ (~HasRest(params) /\ Len(types) > Len(params))
    THEN [fit |-> "arity", at |-> 0]
    ELSE IF types # << >> /\ ~Accepts(arena, types[1], ParamTypeAt(arena, params, 1))
    THEN [fit |-> "argument", at |-> 1] ELSE Fits

(* fit_of.                                                                 *)
FirstRejected(arena, params, types) ==
    SelectInSeq([i \in DOMAIN types |-> i],
                LAMBDA i : ~Accepts(arena, types[i], ParamTypeAt(arena, params, i)))

FitAt(at) == IF at = 0 THEN Fits ELSE [fit |-> "argument", at |-> at]

FitOf(arena, params, types) ==
    IF Len(types) < Required(params) \/ (~HasRest(params) /\ Len(types) > Len(params))
    THEN [fit |-> "arity", at |-> 0]
    ELSE FitAt(FirstRejected(arena, params, types))

(* What is reported when no member takes the call: the position all the    *)
(* members that could take so many arguments agree on, if they do.         *)
ArityOfNone(limits, count) ==
    LET most == CHOOSE n \in limits : \A k \in limits : k <= n
    IN  Report("arity", IF Unlimited \notin limits /\ count > most THEN most + 1 ELSE 0)

NoneTakesIt(blamed) ==
    Report("overload", IF Cardinality(blamed) = 1 THEN CHOOSE at \in blamed : TRUE ELSE 0)

Member(id, reports) == [id |-> id, reports |-> reports]

(* pick_callable_member: the member the call is checked against, or what   *)
(* is reported when none takes it.                                         *)
PickFitting(arena, callable, fit, count) ==
    LET Those(what) == SelectSeq([i \in DOMAIN fit |-> i], LAMBDA i : fit[i].fit = what)
    IN  IF Those("fits") # << >> THEN Member(callable[Head(Those("fits"))], {})
        ELSE IF Len(Those("argument")) = 1 THEN Member(callable[Head(Those("argument"))], {})
        ELSE IF Those("argument") = << >>
        THEN Member(callable[1], {ArityOfNone({Most(Get(arena, m).params) : m \in Range(callable)},
                                              count)})
        ELSE Member(callable[Head(Those("argument"))],
                    {NoneTakesIt({fit[i].at : i \in Range(Those("argument"))})})

PickCallable(arena, callee, callable, args, types) ==
    IF callable = << >> THEN Member(callee, {})
    ELSE IF Len(callable) = 1 \/ FirstSpread(args) # NoSpread THEN Member(callable[1], {})
    ELSE PickFitting(arena, callable,
                     [i \in DOMAIN callable |-> FitOf(arena, Get(arena, callable[i]).params, types)],
                     Len(args))

PickMember(arena, callee, args, types) ==
    LET node == Get(arena, callee)
    IN  IF node.kind # "intersection" \/ MembersClash(arena, node) THEN Member(callee, {})
        ELSE PickCallable(arena, callee,
                          SelectSeq(node.members, LAMBDA m : Get(arena, m).kind = "function"),
                          args, types)

-----------------------------------------------------------------------------
(* The type arguments of a call.                                           *)

(* ordered_generic_param_ids: free parameters in the order declared.       *)
Before(order, p, r) ==
    LET At(x) == CHOOSE i \in DOMAIN order : order[i] = x
    IN  At(p) <= At(r)

(* The parameters of a signature: those it declares, then those free in    *)
(* its parameters and its result.                                          *)
EachOnce(ids) ==
    LET firsts == SelectSeq([i \in DOMAIN ids |-> i], LAMBDA i : \A j \in 1 .. i - 1 : ids[j] # ids[i])
    IN  [i \in DOMAIN firsts |-> ids[firsts[i]]]

FreeInOrder(arena, id, order) ==
    SetToSortSeq(FreeParameters(arena, id, {})[id], LAMBDA p, r : p # r /\ Before(order, p, r))

Declared(arena, f, order) ==
    EachOnce([i \in DOMAIN f.binders |-> f.binders[i].id]
             \o FlattenSeq([i \in DOMAIN f.params |-> FreeInOrder(arena, f.params[i].type, order)])
             \o FreeInOrder(arena, f.returns, order))

(* A parameter of a declaration the call is inside of stands for itself,   *)
(* unless the call names a declaration, which is instantiated afresh.      *)
Ambient(declared, site, active) == IF site.declaration THEN {} ELSE Range(declared) \cap active

(* Type arguments are given to the callee's own parameters in order; they, *)
(* and the ambient ones, are not up for inference.                         *)
Locked(declared, ambient, explicit, nodes) ==
    LET own == SelectSeq(declared, LAMBDA p : p \notin ambient)
        given == {i \in DOMAIN own : i <= Len(explicit)}
    IN  [p \in {own[i] : i \in given} \cup (ambient \cap DOMAIN nodes) |->
           IF p \in ambient THEN nodes[p] ELSE explicit[CHOOSE i \in given : own[i] = p]]

(* Each argument that has a type is offered to its parameter.              *)
InferNext(t, param, type, locked) ==
    IF type = NoType \/ param = NoParam THEN t ELSE InferArgument(t, param, type, locked)

InferAll(arena, f, types, locked) ==
    LET done[n \in 0 .. Len(types)] ==
            IF n = 0 THEN [Matching(arena) EXCEPT !.bindings = locked]
            ELSE InferNext(done[n - 1], ParamTypeAt(done[n - 1].arena, f.params, n), types[n],
                           DOMAIN locked)
    IN  done[Len(types)]

(* Mistake: a default is read before what it mentions is bound.            *)
DefaultsAsWritten(t, binders, ambient) ==
    LET missing == {i \in DOMAIN binders : /\ binders[i].id \notin DOMAIN t.bindings
                                           /\ binders[i].default # NoBound}
    IN  [t EXCEPT !.bindings =
           [p \in DOMAIN @ \cup {binders[i].id : i \in missing} |->
              IF p \in DOMAIN @ THEN @[p]
              ELSE binders[CHOOSE i \in missing : binders[i].id = p].default]]

(* Defaults, in the order declared.                                        *)
DefaultNext(t, own, ambient) ==
    IF own.id \in ambient \cup DOMAIN t.bindings \/ own.default = NoBound THEN t
    ELSE BindNew(t, own.id, Substitute(t.arena, own.default, t.bindings, TRUE))

Defaulted(t, binders, ambient) ==
    LET done[n \in 0 .. Len(binders)] ==
            IF n = 0 THEN t ELSE DefaultNext(done[n - 1], binders[n], ambient)
    IN  done[Len(binders)]

(* The bounds a call is held to: a signature's own, then those found.      *)
Chosen(pairs) ==
    [p \in {pair[1] : pair \in pairs} |-> (CHOOSE pair \in pairs : pair[1] = p)[2]]

BoundsOf(arena, f) ==
    LET parts == {f.params[i].type : i \in DOMAIN f.params} \cup {f.returns}
        pairs(bounds) == {<<p, bounds[p]>> : p \in DOMAIN bounds}
    IN  Chosen({<<binder.id, binder.bound>> : binder \in {b \in Range(f.binders) : b.bound # NoBound}})
        @@ Chosen(UNION {pairs(BoundsIn(arena, part)) : part \in parts})

(* A bound is compared once the parameters it mentions are known.          *)
OutsideBound(type, applied) ==
    ~Mentions(applied.arena, applied.id) /\ ~Subtype(applied.arena, type, applied.id)

BoundReports(t, bounds, ambient) ==
    {Report("bound", 0) : p \in {r \in (DOMAIN bounds \cap DOMAIN t.bindings) \ ambient :
        OutsideBound(t.bindings[r], Substitute(t.arena, bounds[r], t.bindings, TRUE))}}

(* An argument against its parameter with the type arguments in place.     *)
IsA(source, target) == Subtype(source.arena, source.id, target)

FitsExpected(type, expected) ==
    IsA(InstantiateSource(expected.arena, type, expected.id), expected.id)

Takes(t, param, type) ==
    \/ type = NoType \/ param = NoParam
    \/ FitsExpected(type, Substitute(t.arena, param, t.bindings, FALSE))

ArgumentReports(t, f, types) ==
    {Report("argument", i) :
       i \in {k \in DOMAIN types : ~Takes(t, ParamTypeAt(t.arena, f.params, k), types[k])}}

-----------------------------------------------------------------------------
(* What comes of a call: what is reported, the type arguments, the member  *)
(* the call was checked against, the type of the call, and the call.       *)
Outcome(arena, reports, bindings, member, result) ==
    [arena |-> arena, reports |-> reports, bindings |-> bindings, member |-> member,
     result |-> result, call |-> << >>]

(* check_callable on a function type: call is [site, callee, explicit,     *)
(* args, active, nodes, order], the types of a site and what is in scope   *)
(* there.  Arguments from the first spread on have no type.                *)
Typed(call) ==
    LET first == FirstSpread(call.site.args)
    IN  [i \in DOMAIN call.args |-> IF first # NoSpread /\ i >= first THEN NoType ELSE call.args[i]]

WithResult(reports, t, member, result) ==
    Outcome(result.arena, reports, t.bindings, member, result.id)

Conclude(t, member, f, types, ambient) ==
    WithResult(BoundReports(t, BoundsOf(t.arena, f), ambient) \cup ArgumentReports(t, f, types),
               t, member, Substitute(t.arena, f.returns, t.bindings, FALSE))

CheckArguments(arena, member, f, call, declared, ambient) ==
    Conclude(Defaulted(InferAll(arena, f, Typed(call),
                               Locked(declared, ambient, call.explicit, call.nodes)),
                      f.binders, ambient),
            member, f, Typed(call), ambient)

CheckDeclared(arena, member, f, call, declared) ==
    CheckArguments(arena, member, f, call, declared, Ambient(declared, call.site, call.active))

CheckCounted(arena, member, f, call, arity) ==
    IF arity # {} THEN Outcome(arena, arity, << >>, member, f.returns)
    ELSE CheckDeclared(arena, member, f, call, Declared(arena, f, call.order))

CheckFunction(arena, member, f, call) ==
    CheckCounted(arena, member, f, call, ArityReport(arena, f.params, call.site.args, call.args))

(* check_callable.                                                         *)
CheckMember(arena, node, picked, call) ==
    IF picked.reports # {} THEN Outcome(arena, picked.reports, << >>, picked.id, node.returns)
    ELSE IF node.kind = "function" THEN CheckFunction(arena, picked.id, node, call)
    ELSE Outcome(arena, IF Named(node, {"any", "error"}) THEN {} ELSE {Report("not_callable", 0)},
                 << >>, picked.id, PrimitiveId("error"))

CheckPicked(arena, picked, call) == CheckMember(arena, Get(arena, picked.id), picked, call)

CheckCallable(arena, call) ==
    CheckPicked(arena, PickMember(arena, call.callee, call.site.args, call.args), call)

-----------------------------------------------------------------------------
(* The call expression: what it mentions is read, then it is checked.      *)

(* The parameters in scope where a call is written.                        *)
Around(site) == IF site.within = NoOne THEN << >> ELSE Files[file].program[site.within].params

Active(site) == {Around(site)[i].id : i \in DOMAIN Around(site)}

(* The types of a list, each one that cannot be read the error type.       *)
ReadEach(s, written) ==
    LET added(before, new) == [s |-> new, ids |-> Append(before.ids, ElseError(new).id)]
        read[n \in 0 .. Len(written)] ==
            IF n = 0 THEN [s |-> s, ids |-> << >>]
            ELSE added(read[n - 1], Read(read[n - 1].s, written[n]))
    IN  read[Len(written)]

WithArgs(site, callee, explicit, args) ==
    [s |-> args.s,
     call |-> [site |-> site, callee |-> callee, explicit |-> explicit, args |-> args.ids,
               active |-> Active(site), nodes |-> args.s.nodes, order |-> Files[file].order]]

WithExplicit(site, callee, given) ==
    WithArgs(site, callee, given.ids,
             ReadEach(given.s, [i \in DOMAIN site.args |-> site.args[i].of]))

WithCallee(site, callee) == WithExplicit(site, callee.id, ReadEach(callee, site.explicit))

ReadCall(s, site) == WithCallee(site, Read(PushParams(s, Around(site)), site.callee))

Init ==
    /\ file \in DOMAIN Files
    /\ space = NewNamespace(Files[file].program)
    /\ outcomes = << >>

(* The bodies of a file are checked in an order of their own.              *)
Concluded(i, s, call, outcome) ==
    /\ space' = [PopParams(s, space, Around(call.site)) EXCEPT !.arena = outcome.arena]
    /\ outcomes' = With(outcomes, i, [outcome EXCEPT !.arena = << >>, !.call = call])

Checked(i, read) ==
    Concluded(i, read.s, read.call, CheckCallable(read.s.arena, read.call))

Call(i) ==
    /\ i \notin DOMAIN outcomes
    /\ Checked(i, ReadCall(space, Files[file].sites[i]))
    /\ UNCHANGED file

Next == \E i \in DOMAIN Files[file].sites : Call(i)

Spec == Init /\ [][Next]_vars
=============================================================================
