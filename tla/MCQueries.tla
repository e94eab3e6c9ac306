------------------------------- MODULE MCQueries -------------------------------
(* Files for QueryProperties: each with what makes one answer depend on    *)
(* when it is asked, or one type on when it is built.                      *)
EXTENDS QueryProperties, WrittenForms

p == "p"
q == "q"

Q(ask, a, b) == [ask |-> ask, a |-> a, b |-> b]

A == Lit("a")
B == Lit("b")

(* A list, another with the same shape, and what their union keeps.        *)
Lists ==
    [program |-> [Node |-> Declare(Shape(<<Field(p, A), Field(q, Nullable(Name("Node")))>>)),
                  Copy |-> Declare(Shape(<<Field(p, A), Field(q, Nullable(Name("Copy")))>>))],
     written |-> <<Shape(<<Field(q, Null)>>), Name("Node"), Name("Copy"),
                   Shape(<<Field(q, Nullable(Name("Node")))>>)>>,
     asked |-> {Q("subtype", 1, 2), Q("subtype", 3, 2), Q("mentions", 4, 4)}]

(* Declarations that mention each other; one is wider than the other.      *)
Mutual ==
    [program |-> [Left |-> Declare(Shape(<<Field(p, Name("Right"))>>)),
                  Right |-> Declare(Shape(<<Field(p, Name("Left")), MaybeField(q, A)>>))],
     written |-> <<Name("Left"), ArrayOf(Name("Right")), ArrayOf(Name("Left")), Name("Right")>>,
     asked |-> {Q("subtype", 2, 3), Q("subtype", 3, 2), Q("subtype", 1, 4), Q("equal", 1, 4)}]

(* An intersection whose members meet in nothing once Tag is known.        *)
Discriminants ==
    [program |-> [Tag |-> Declare(Shape(<<Field(p, B)>>)),
                  Other |-> Declare(Shape(<<Field(p, Nullable(B)), Field(q, Name("Tag"))>>))],
     written |-> <<Both(<<Shape(<<Field(p, A)>>), Name("Tag")>>), Name("Tag"),
                   Both(<<Name("Tag"), Name("Other")>>), Shape(<<Field(p, Primitive("never"))>>)>>,
     asked |-> {Q("empty", 1, 1), Q("subtype", 1, 4), Q("empty", 3, 3)}]

(* Members that cancel, absorb and distribute.                             *)
Meets ==
    [program |-> [Key |-> Declare(UnionOf(<<A, B>>)),
                  Item |-> Declare(Shape(<<Field(p, Name("Key"))>>))],
     written |-> <<Both(<<Name("Key"), A>>), String,
                   Both(<<Shape(<<MaybeField(p, A)>>), Shape(<<Field(q, B)>>)>>), Shape(<<Field(p, A)>>), Both(<<String, Name("Key"), Primitive("unknown")>>),
                   Both(<<Name("Item"), UnionOf(<<Null, Shape(<<Field(q, String)>>), Number>>)>>),
                   Both(<<Shape(<< >>), ArrayOf(A)>>), UnionOf(<<Name("Key"), Primitive("never")>>),
                   Both(<<Primitive("void"), Primitive("undefined")>>), Both(<<String, Number>>),
                   Both(<<Name("Item"), Both(<<Shape(<<Field(q, A)>>), ArrayOf(A)>>)>>)>>,
     asked |-> {Q("subtype", 1, 2), Q("disjoint", 1, 2), Q("disjoint", 2, 1)}]

(* Function types, one with a method that is looser than its property.     *)
Functions_ ==
    [program |-> [Wide |-> Declare(Arrow(<<Param(UnionOf(<<A, Null>>))>>, A)),
                  Narrow |-> Declare(Arrow(<<Param(A)>>, String))],
     written |-> <<Name("Wide"), Name("Narrow"), Arrow(<< >>, A), Arrow(<<OptionalParam(A)>>, A),
                   Arrow(<<Param(A), RestParam(ArrayOf(A))>>, String),
                   Shape(<<MethodOf(p, Name("Wide"))>>), Shape(<<Field(p, Name("Narrow"))>>)>>,
     asked |-> {Q("subtype", 1, 2), Q("subtype", 2, 1), Q("subtype", 6, 7)}]

(* A generic declaration, applied; and one that mentions itself.           *)
Generics_ ==
    [program |-> [Box |-> Generic(<<TypeParam("T")>>, Shape(<<Field(p, Name("T"))>>)),
                  Tree |-> Generic(<<TypeParam("T")>>,
                             Shape(<<Field(p, Name("T")), Field(q, Nullable(Apply_("Tree", <<A>>)))>>)),
                  List |-> Generic(<<TypeParam("U")>>,
                             Shape(<<Field(p, Name("U")), Field(q, Nullable(Apply_("List", <<Name("U")>>)))>>))],
     written |-> <<Apply_("Box", <<A>>), Apply_("List", <<A>>), Apply_("List", <<Nullable(B)>>),
                   Apply_("Box", <<Apply_("Box", <<A>>)>>), Apply_("Tree", <<A>>),
                   GenericArrow(<<TypeParam("T")>>, <<Param(Name("T"))>>, Name("T"))>>,
     asked |-> {Q("mentions", 1, 1), Q("mentions", 6, 6), Q("subtype", 1, 4)}]

MCScenarios == <<Lists, Mutual, Discriminants, Meets, Functions_, Generics_>>

(* Values, objects nested as deep as the types distinguish.                *)
Text(s) == [kind |-> "string", literal |-> s]
Basic == {Text("a"), Text("b"), Text("other"), [kind |-> "number", literal |-> "1"],
          [kind |-> "null"], [kind |-> "undefined"]}
Objects(values) == {[kind |-> "object", fields |-> f] : f \in UNION {[n -> values] : n \in SUBSET {p, q}}}
One == Objects({Text("a"), Text("b"), [kind |-> "null"]})
Deep(values) == {[kind |-> "object", fields |-> [f EXCEPT ![q] = v]] :
                    f \in [{p, q} -> {Text("a"), Text("b")}], v \in values}
Arrays == {[kind |-> "array", elements |-> e] : e \in {{}, {Text("a")}, {Text("b")}}}
Wrapped(values) == {[kind |-> "object", fields |-> [n \in {p} |-> v]] : v \in values}

MCValue == Basic \cup One \cup Deep(One) \cup Deep(Deep(One)) \cup Arrays \cup Wrapped(One)

(* All content shares one digest.                                          *)
Collide(content) == 0
=============================================================================
