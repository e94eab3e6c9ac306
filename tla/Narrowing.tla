------------------------------- MODULE Narrowing -------------------------------
(***************************************************************************)
(* The narrowing of src/src/bridge/narrow.rs.  A type is the set of the    *)
(* members of its union: alloc_union is \cup, never is {}, and a type with *)
(* one member is that member.  A narrowing overlays the declared types of  *)
(* variables and of their property paths.                                  *)
(***************************************************************************)
EXTENDS Naturals, FiniteSets, Sequences, TLC

(* Members have one shape, so that sets may mix them.                      *)
Plain == [p \in {} |-> {}]

Of(name) == [kind |-> name, base |-> "", value |-> "", properties |-> Plain]
Exactly(base, value) == [kind |-> "literal", base |-> base, value |-> value, properties |-> Plain]
Object(properties) == [kind |-> "object", base |-> "", value |-> "", properties |-> properties]

IsUnion(type) == Cardinality(type) > 1

(* Types nothing is known against.                                         *)
Opaque(m) == m.kind \in {"any", "error", "parameter"}

Open(m) == Opaque(m) \/ m.kind = "unknown"

(* is_assignable, between the types of this universe.                      *)
RECURSIVE Assignable(_, _)
Assignable(from, to) ==
    \A m \in from : \E n \in to :
        \/ m = n \/ n.kind \in {"any", "error", "unknown"} \/ m.kind \in {"any", "error"}
        \/ m.kind = "literal" /\ n.kind = m.base
        \/ m.kind = "undefined" /\ n.kind = "void"
        \/ /\ m.kind = "object" /\ n.kind = "object"
           /\ \A p \in DOMAIN n.properties :
                 IF p \in DOMAIN m.properties
                 THEN /\ m.properties[p].optional => n.properties[p].optional
                      /\ Assignable(m.properties[p].type, n.properties[p].type)
                 ELSE n.properties[p].optional

-----------------------------------------------------------------------------
(* What a test leaves of a type, on the side where it holds or fails.      *)

(* matches_typeof_tag: null answers to "object".                           *)
TypeofTag(m) ==
    IF m.kind = "literal" THEN m.base
    ELSE IF m.kind \in {"null", "array"} THEN "object"
    ELSE IF m.kind \in {"string", "number", "boolean", "undefined", "object", "function"}
         THEN m.kind ELSE "none"

(* narrow_by_typeof.                                                       *)
ByTypeof(type, tag, holds) ==
    {m \in type : Opaque(m) \/ (m.kind = "unknown" /\ (~holds \/ tag \in {"object", "function"}))
                  \/ (m.kind # "unknown" /\ (TypeofTag(m) = tag) = holds)}
    \cup (IF holds /\ Of("unknown") \in type /\ tag \notin {"object", "function"}
          THEN {Of(tag)} ELSE {})

(* narrow_by_nullish: loosely equal means either.                          *)
ByNullish(type, targets, holds) ==
    {m \in type : Open(m) \/ (m.kind \in targets) = holds}

(* keep_matching: a wide member leaves the literals it covers.             *)
Matching(m, literals) ==
    IF m \in literals \/ Opaque(m) THEN {m}
    ELSE IF m.kind = "unknown" THEN literals
    ELSE {l \in literals : l.base = m.kind}

(* keep_remaining: boolean is true | false.                                *)
Remaining(m, literals) ==
    IF m \in literals THEN {}
    ELSE IF m.kind = "boolean" /\ \E l \in literals : l.base = "boolean"
         THEN {Exactly("boolean", value) : value \in {"true", "false"}} \ literals
         ELSE {m}

(* narrow_by_literals.                                                     *)
ByLiterals(type, literals, holds) ==
    UNION {IF holds THEN Matching(m, literals) ELSE Remaining(m, literals) : m \in type}

(* is_definitely_falsy and is_definitely_truthy.                           *)
FalsyValues == {"", "0", "false"}

AlwaysFalsy(m) ==
    m.kind \in {"null", "undefined"} \/ (m.kind = "literal" /\ m.value \in FalsyValues)

AlwaysTruthy(m) ==
    m.kind \in {"object", "array", "function"} \/ (m.kind = "literal" /\ m.value \notin FalsyValues)

(* narrow_truthy.                                                          *)
ByTruth(type, holds) ==
    {m \in type : ~(IF holds THEN AlwaysFalsy(m) ELSE AlwaysTruthy(m))}

(* A member a property test can say something about.                       *)
Lists(m, p) == m.kind = "object" /\ p \in DOMAIN m.properties

(* property_may_equal.                                                     *)
MayEqual(m, literal) == m = literal \/ Open(m) \/ m.kind = literal.base

(* narrow_by_property_literals: only a union is discriminated.             *)
ByPropertyLiterals(type, p, literals, holds) ==
    IF ~IsUnion(type) THEN type
    ELSE {m \in type :
            Lists(m, p) =>
              LET candidates == m.properties[p].type
              IN  IF holds THEN \E c \in candidates, l \in literals : MayEqual(c, l)
                  ELSE ~\E l \in literals : candidates = {l}}

(* narrow_by_property_truthiness.                                          *)
ByPropertyTruth(type, p, holds) ==
    IF ~IsUnion(type) THEN type
    ELSE {m \in type : Lists(m, p) => ByTruth(m.properties[p].type, holds) # {}}

(* narrow_by_property_presence: an object that lists its properties.       *)
ByPresence(type, p, holds) ==
    LET absent == {m \in type : m.kind = "object" /\ ~Lists(m, p)}
        required == {m \in type : Lists(m, p) /\ ~m.properties[p].optional}
    IN  IF ~IsUnion(type) \/ (holds /\ absent = type) THEN type
        ELSE IF holds THEN type \ absent ELSE type \ required

(* narrow_by_instanceof: a supertype of the class becomes the class.       *)
Instances(type, class) == {m \in type : ~Open(m) /\ Assignable({m}, class)}

Supertypes(type, instances, class) ==
    {m \in type : \/ m.kind \in {"any", "unknown"}
                  \/ ~Opaque(m) /\ m \notin instances /\ Assignable(class, {m})}

BySides(type, instances, class, holds) ==
    IF holds
    THEN {m \in type : m.kind \in {"error", "parameter"}} \cup instances
         \cup (IF Supertypes(type, instances, class) # {} THEN class ELSE {})
    ELSE type \ instances

ByInstance(type, class, holds) == BySides(type, Instances(type, class), class, holds)

-----------------------------------------------------------------------------
(* NarrowState: what is known beyond the declared types.                   *)

Unnarrowed == [symbols |-> [x \in {} |-> {}], paths |-> [x \in {} |-> {}]]

Single(x, type) == [Unnarrowed EXCEPT !.symbols = x :> type]

SinglePath(path, type) == [Unnarrowed EXCEPT !.paths = path :> type]

(* extend: the later entry wins.                                           *)
Extend(state, other) ==
    [symbols |-> other.symbols @@ state.symbols, paths |-> other.paths @@ state.paths]

Keep(table, keys) == [k \in DOMAIN table \cap keys |-> table[k]]

(* mentions.                                                               *)
Mentions(state, x) == x \in DOMAIN state.symbols \/ \E path \in DOMAIN state.paths : path[1] = x

(* remove_paths_of.                                                        *)
ForgetPaths(state, x) ==
    [state EXCEPT !.paths = Keep(@, {path \in DOMAIN @ : path[1] # x})]

(* remove.                                                                 *)
ForgetVariables(state, xs) ==
    [symbols |-> Keep(state.symbols, DOMAIN state.symbols \ xs),
     paths |-> Keep(state.paths, {path \in DOMAIN state.paths : path[1] \notin xs})]

(* for_closure.                                                            *)
ForClosure(state, xs) ==
    [symbols |-> Keep(state.symbols, xs), paths |-> [path \in {} |-> {}]]

(* join_states: known on both paths.                                       *)
JoinStates(a, b) ==
    LET both(left, right) == [k \in DOMAIN left \cap DOMAIN right |-> left[k] \cup right[k]]
    IN  [symbols |-> both(a.symbols, b.symbols), paths |-> both(a.paths, b.paths)]

-----------------------------------------------------------------------------
(* Reading and testing, in a narrowing over the declared types.            *)

IsPath(ref) == Len(ref) = 2

CurrentType(narrow, declared, x) ==
    IF x \in DOMAIN narrow.symbols THEN narrow.symbols[x] ELSE declared[x]

(* infer_member_access_type: a member without the property is an error.    *)
MemberType(type, p) ==
    IF \A m \in type : Opaque(m) \/ Lists(m, p)
    THEN UNION {IF Opaque(m) THEN {Of("error")} ELSE m.properties[p].type : m \in type}
    ELSE {Of("error")}

(* narrowed_member_type comes first.                                       *)
TypeOf(narrow, declared, ref) ==
    IF ~IsPath(ref) THEN CurrentType(narrow, declared, ref[1])
    ELSE IF ref \in DOMAIN narrow.paths THEN narrow.paths[ref]
    ELSE MemberType(CurrentType(narrow, declared, ref[1]), ref[2])

(* What a test leaves of the type of what it tests.                        *)
Filtered(test, type, holds) ==
    CASE test.op = "typeof" -> ByTypeof(type, test.tag, holds)
      [] test.op = "nullish" -> ByNullish(type, test.kinds, holds)
      [] test.op = "equals" -> ByLiterals(type, test.type, holds)
      [] test.op = "truth" -> ByTruth(type, holds)
      [] test.op = "instanceof" -> ByInstance(type, test.type, holds)

(* What a test of a property leaves of the type of its object.             *)
FilteredByProperty(test, type, holds) ==
    CASE test.op = "equals" -> ByPropertyLiterals(type, test.ref[2], test.type, holds)
      [] test.op = "truth" -> ByPropertyTruth(type, test.ref[2], holds)
      [] test.op = "in" -> ByPresence(type, test.ref[2], holds)

(* The overlay a test gives one of its sides: the variable's own entry and *)
(* the path's.                                                             *)
OfObject(test, current, holds) ==
    IF test.op \in {"equals", "truth", "in"}
    THEN Single(test.ref[1], FilteredByProperty(test, current, holds)) ELSE Unnarrowed

OfProperty(test, read, holds) ==
    IF test.op \in {"typeof", "nullish", "equals", "truth"} /\ read # {Of("error")}
    THEN SinglePath(test.ref, Filtered(test, read, holds)) ELSE Unnarrowed

Overlay(test, narrow, declared, holds) ==
    IF IsPath(test.ref)
    THEN Extend(OfObject(test, CurrentType(narrow, declared, test.ref[1]), holds),
                OfProperty(test, TypeOf(narrow, declared, test.ref), holds))
    ELSE Single(test.ref[1], Filtered(test, CurrentType(narrow, declared, test.ref[1]), holds))

Silent == {"opaque", "true", "false", "use", "set"}

Conjoined(left, right) == [yes |-> Extend(left.yes, right.yes),
                      no |-> JoinStates(left.no, Extend(left.yes, right.no))]

Disjoined(left, right) == [yes |-> JoinStates(left.yes, Extend(left.no, right.yes)),
                        no |-> Extend(left.no, right.no)]

(* narrow_condition: the overlays of a test's two sides.  The right        *)
(* operand is narrowed where the left one lets it be reached.              *)
RECURSIVE NarrowCondition(_, _, _)

NarrowSecond(test, narrow, declared, left) ==
    IF test.op = "and"
    THEN Conjoined(left, NarrowCondition(test.subs[2], Extend(narrow, left.yes), declared))
    ELSE Disjoined(left, NarrowCondition(test.subs[2], Extend(narrow, left.no), declared))

Negated(sides) == [yes |-> sides.no, no |-> sides.yes]

NarrowCondition(test, narrow, declared) ==
    CASE test.op \in Silent -> [yes |-> Unnarrowed, no |-> Unnarrowed]
      [] test.op = "not" -> Negated(NarrowCondition(test.subs[1], narrow, declared))
      [] test.op \in {"and", "or"} ->
            NarrowSecond(test, narrow, declared, NarrowCondition(test.subs[1], narrow, declared))
      [] OTHER -> [yes |-> Overlay(test, narrow, declared, TRUE),
                   no |-> Overlay(test, narrow, declared, FALSE)]

(* narrow_switch_case and narrow_switch_default.                           *)
OfCases(test, narrow, declared, holds) ==
    LET x == test.ref[1]
        current == CurrentType(narrow, declared, x)
        byTags == IF holds THEN UNION {ByTypeof(current, tag, TRUE) : tag \in test.kinds}
                  ELSE {m \in current : \A tag \in test.kinds : m \in ByTypeof(current, tag, FALSE)}
    IN  IF test.op = "typeof" THEN Single(x, byTags)
        ELSE IF IsPath(test.ref)
        THEN Single(x, ByPropertyLiterals(current, test.ref[2], test.type, holds))
        ELSE Single(x, ByLiterals(current, test.type, holds))

-----------------------------------------------------------------------------
(* Assigning.                                                              *)

(* narrow_on_assignment: the members of the declared union the value fits. *)
OnAssignment(narrow, x, declared, assigned) ==
    LET fits == {m \in declared : Assignable(assigned, {m})}
    IN  [ForgetPaths(narrow, x) EXCEPT
            !.symbols = (x :> (IF IsUnion(declared) /\ fits # {} THEN fits ELSE declared)) @@ @]

(* narrow_member_on_assignment.  Paths have one step here.                 *)
OnMemberAssignment(narrow, ref, declared, assigned) ==
    LET fits == {m \in declared : Assignable(assigned, {m})}
        others == [narrow EXCEPT !.paths = Keep(@, DOMAIN @ \ {ref})]
    IN  IF IsUnion(declared) /\ fits # {} /\ fits # declared
        THEN [others EXCEPT !.paths = (ref :> fits) @@ @] ELSE others
=============================================================================
