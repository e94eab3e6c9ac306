-------------------------------- MODULE MCCalls --------------------------------
(* Files for CallProperties: each with calls that a wrong order, merge or  *)
(* substitution would type differently.                                    *)
EXTENDS CallProperties, WrittenForms

p == "p"
q == "q"

A == Lit("a")
B == Lit("b")
T == Name("T")
U == Name("U")
P(of) == Shape(<<Field(p, of)>>)
PQ(of, other) == Shape(<<Field(p, of), Field(q, other)>>)

Arg(of) == [of |-> of, spread |-> FALSE, literal |-> FALSE]
Spread(of) == [Arg(of) EXCEPT !.spread = TRUE]
Calls_(callee, args) ==
    [callee |-> callee, args |-> [i \in DOMAIN args |-> Arg(args[i])], explicit |-> << >>,
     declaration |-> TRUE, within |-> NoOne]
Method(callee, args, within) == [Calls_(callee, args) EXCEPT !.declaration = FALSE, !.within = within]
With_(site, explicit) == [site EXCEPT !.explicit = explicit]

(* Two arguments for one parameter: comparable, unlike, literal, recursive.*)
Pair == GenericArrow(<<TypeParam("T")>>, <<Param(T), Param(T)>>, ArrayOf(T))
Bounded == GenericArrow(<<Extends("T", String)>>, <<Param(T), Param(T)>>, P(T))
Merging ==
    [program |-> [Node |-> Declare(PQ(A, Nullable(Name("Node"))))],
     sites |-> <<Calls_(Pair, <<PQ(A, Null), P(String)>>), Calls_(Pair, <<P(String), PQ(A, Null)>>),
                 With_(Calls_(Pair, <<A, String>>), <<Nullable(String)>>),
                 Calls_(Bounded, <<A, B>>), Calls_(Bounded, <<A, Number>>),
                 Calls_(Pair, <<Name("Node"), PQ(String, Nullable(Name("Node")))>>)>>,
     order |-> <<"T", "U">>]

(* A union with the parameter among its members.                           *)
Rest == GenericArrow(<<Extends("T", Nullable(Number))>>, <<Param(UnionOf(<<T, String>>))>>, P(T))
Some == GenericArrow(<<TypeParam("T")>>, <<Param(UnionOf(<<T, String>>)), OptionalParam(T)>>, P(T))
Unions ==
    [program |-> [Key |-> Declare(UnionOf(<<A, Null>>))],
     sites |-> <<Calls_(Some, <<UnionOf(<<String, Number>>), Number>>),
                 Calls_(Some, <<Name("Key"), Null>>), Calls_(Some, <<A>>),
                 Calls_(Rest, <<UnionOf(<<String, Number>>)>>),
                 Calls_(Some, <<UnionOf(<<Null, Number, String>>)>>)>>,
     order |-> <<"T", "U">>]

(* Results that are recursive, applied, or wrapped; a list that ends in    *)
(* null and one that ends by leaving its property out.                     *)
ListOf(of) == Apply_("List", <<of>>)
Prepend == GenericArrow(<<TypeParam("T")>>, <<Param(T), Param(ListOf(T))>>, ListOf(T))
First == GenericArrow(<<TypeParam("T")>>, <<Param(ListOf(T))>>, UnionOf(<<T, Null>>))
Chain(of) == Apply_("Chain", <<of>>)
Link == GenericArrow(<<TypeParam("T")>>, <<Param(T), Param(Chain(T))>>, Chain(T))
Recursive ==
    [program |-> [List |-> Generic(<<TypeParam("U")>>, PQ(U, Nullable(ListOf(U)))),
                  Chain |-> Generic(<<TypeParam("U")>>, Shape(<<Field(p, U), MaybeField(q, Chain(U))>>)),
                  Box |-> Generic(<<TypeParam("U")>>, P(U))],
     sites |-> <<Calls_(Prepend, <<B, ListOf(String)>>), Calls_(First, <<ListOf(A)>>),
                 Calls_(Link, <<A, Chain(Nullable(A))>>),
                 Calls_(GenericArrow(<<TypeParam("T")>>, <<Param(T)>>, Apply_("Box", <<Apply_("Box", <<T>>)>>)),
                        <<Null>>),
                 Calls_(GenericArrow(<<TypeParam("T")>>, <<Param(T)>>,
                                     Both(<<P(T), Shape(<<Field(q, T)>>)>>)), <<A>>)>>,
     order |-> <<"U", "T">>]

(* Defaults and bounds that mention other parameters; written arguments.   *)
Default2 == GenericArrow(<<TypeParam("T"), Defaults("U", ArrayOf(T))>>, <<Param(T)>>, PQ(T, U))
Bound2 == GenericArrow(<<TypeParam("T"), Extends("U", P(T))>>, <<Param(T), Param(U)>>, U)
Defaulting ==
    [program |-> [Node |-> Declare(P(A))],
     sites |-> <<Calls_(Default2, <<A>>), With_(Calls_(Default2, <<A>>), <<String>>),
                 With_(Calls_(Default2, <<A>>), <<A, Null>>),
                 Calls_(Bound2, <<String, PQ(A, B)>>), Calls_(Bound2, <<Number, P(A)>>)>>,
     order |-> <<"T", "U">>]

(* Calls inside a generic declaration, of its own methods and of itself.   *)
Own == Arrow(<<Param(T)>>, ArrayOf(T))
Inside ==
    [program |-> [Box |-> Generic(<<TypeParam("T")>>, P(T))],
     sites |-> <<Method(Own, <<A>>, "Box"), Method(Own, <<T>>, "Box"),
                 [Method(Own, <<A>>, "Box") EXCEPT !.declaration = TRUE],
                 Method(GenericArrow(<<TypeParam("U")>>, <<Param(U), Param(T)>>, PQ(T, U)),
                        <<Apply_("Box", <<T>>), T>>, "Box")>>,
     order |-> <<"T", "U">>]

(* Overloads, and what spreads leave uncertain.                            *)
Overloaded ==
    Both(<<Arrow(<<Param(String), Param(Number)>>, Number), Arrow(<<Param(String), Param(String)>>, A),
           Arrow(<<Param(A), OptionalParam(String), RestParam(ArrayOf(Number))>>, Null)>>)
Spreads(args) == [Calls_(Arrow(<<Param(A), Param(B), OptionalParam(B)>>, Null), << >>) EXCEPT !.args = args]
Counting ==
    [program |-> [Node |-> Declare(P(A))],
     sites |-> <<Calls_(Overloaded, <<A, B>>), Calls_(Overloaded, <<A>>),
                 Calls_(Overloaded, <<String, Null>>),
                 Spreads(<<Arg(A), Arg(B), Spread(ArrayOf(B))>>), Spreads(<<Spread(Apply_("Promise", <<A>>))>>),
                 Spreads(<<Arg(A), Arg(B), Arg(B), Arg(B), Spread(ArrayOf(B))>>)>>,
     order |-> <<"T", "U">>]

(* For SubstitutionIsTotal: a list that ends in null.                      *)
Linked == <<[Recursive EXCEPT !.sites = <<Recursive.sites[1]>>]>>

(* Functions as arguments, generic ones too.                               *)
Mapping ==
    [program |-> [Node |-> Declare(P(A))],
     sites |-> <<Calls_(GenericArrow(<<TypeParam("T"), TypeParam("U")>>,
                          <<Param(ArrayOf(T)), Param(Arrow(<<Param(T)>>, U))>>, ArrayOf(U)),
                        <<ArrayOf(A), Arrow(<<Param(String)>>, Number)>>),
                 Calls_(GenericArrow(<<TypeParam("T"), TypeParam("U")>>,
                          <<Param(ArrayOf(T)), Param(Arrow(<<Param(T)>>, U))>>, ArrayOf(U)),
                        <<ArrayOf(String), Arrow(<<Param(A)>>, B)>>),
                 Calls_(Arrow(<<Param(Arrow(<<Param(A)>>, P(A)))>>, Null),
                        <<GenericArrow(<<TypeParam("T")>>, <<Param(T)>>, P(T))>>)>>,
     order |-> <<"T", "U">>]

MCFiles == <<Merging, Unions, Recursive, Defaulting, Inside, Counting, Mapping>>

Text(s) == [kind |-> "string", literal |-> s]
Basic == {Text("a"), Text("b"), Text("other"), [kind |-> "number", literal |-> "1"], [kind |-> "null"]}
Object(fields) == [kind |-> "object", fields |-> fields]
Flat == {Object(f) : f \in UNION {[n -> Basic] : n \in SUBSET {p, q}}}
Arrays(values) == {[kind |-> "array", elements |-> e] : e \in {{}} \cup {{v} : v \in values}}
Nested == {Object([n \in {p} |-> v]) : v \in Flat}
          \cup {Object([f EXCEPT ![q] = v]) : f \in [{p, q} -> {Text("a"), Text("b")}],
                                              v \in Flat \cup Arrays(Basic)}

MCValue == Basic \cup Flat \cup Arrays(Basic) \cup Arrays({Object([n \in {p} |-> v]) : v \in Basic}) \cup Nested

(* All content shares one digest.                                          *)
Collide(content) == 0
=============================================================================
