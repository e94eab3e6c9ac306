------------------------------- MODULE MCImporting -------------------------------
(* Files for ImportProperties, and how another file uses them.             *)
EXTENDS ImportProperties, WrittenForms

p == "p"
q == "q"

A == Lit("a")
B == Lit("b")

(* A parameter by its name; its identity in the exporting file.            *)
P(name) == [TypeParam(name) EXCEPT !.id = TypeParamKey(name, << >>, 0)]

Declared(kind, ps, body) == [kind |-> kind, params |-> ps, body |-> body]
Interface(members) == Declared("interface", << >>, Shape(members))
Alias(body) == Declared("alias", << >>, body)

Forwards(members) == UnionOf(members)
Backwards(members) == UnionOf(Reverse(members))

Orders == {<<"Key", "Node", "Leaf", "find", "Root">>, <<"Root", "find", "Leaf", "Node", "Key">>,
           <<"Leaf", "Root", "Key", "Node", "find">>, <<"find", "Key", "Root", "Leaf", "Node">>}

(* Interfaces that mention each other, one that is not exported, a value.  *)
CycleWith(Union(_)) ==
    [types |-> [Node |-> Interface(<<Field(p, A), Field(q, Union(<<Null, Name("Leaf")>>))>>),
                Leaf |-> Interface(<<Field(p, Name("Key")), Field(q, Union(<<Name("Node"), Null>>))>>),
                Key |-> Alias(Union(<<B, A>>)),
                Root |-> Alias(ArrayOf(Name("Node")))],
     values |-> [find |-> Arrow(<<Param(Name("Key")), OptionalParam(Name("Leaf"))>>,
                                Union(<<Null, Name("Node")>>))],
     exported |-> {"Node", "Root", "find"},
     items |-> <<"Key", "Node", "Leaf", "find", "Root">>]

Cycle ==
    [source |-> CycleWith(Forwards),
     spellings |-> {CycleWith(Backwards)},
     orders |-> Orders,
     missing |-> {"Node", "Leaf"},
     uses |-> <<Name("Node"), Name("Root"), UnionOf(<<Name("Node"), A>>)>>]

(* Generic declarations, one with a default, applied in the other file.    *)
BoxWith(Union(_)) ==
    [types |-> [Box |-> Declared("interface", <<P("T")>>, Shape(<<Field(p, Name("T"))>>)),
                List |-> Declared("interface", <<P("U")>>,
                            Shape(<<Field(p, Name("U")),
                                    Field(q, Union(<<Null, Apply_("List", <<Name("U")>>)>>))>>)),
                Pair |-> Declared("alias", <<P("V"), [P("W") EXCEPT !.default = Name("V")]>>,
                            Shape(<<Field(p, Name("V")), Field(q, Name("W"))>>)),
                Maybe |-> Declared("alias", <<[P("X") EXCEPT !.bound = String]>>,
                             Union(<<Name("X"), Null>>))],
     values |-> << >>,
     exported |-> {"Box", "List", "Pair", "Maybe"},
     items |-> <<"Box", "List", "Pair", "Maybe">>]

Box ==
    [source |-> BoxWith(Forwards),
     spellings |-> {BoxWith(Backwards)},
     orders |-> {<<"Box", "List", "Pair", "Maybe">>, <<"Maybe", "Pair", "List", "Box">>},
     missing |-> {},
     uses |-> <<Apply_("Box", <<A>>), Apply_("List", <<A>>), Apply_("Pair", <<A, B>>),
                Apply_("Pair", <<A>>), Apply_("Maybe", <<B>>), Apply_("Box", <<Apply_("Box", <<A>>)>>)>>]

(* A generic function, and an interface with a generic method.             *)
Pick ==
    [source |->
       [types |-> [Tag |-> Interface(<<Field(p, A), Field(q, Name("Mark"))>>),
                   Mark |-> Interface(<<Field(p, B)>>),
                   Picker |-> Interface(<<MethodOf(q, GenericArrow(<<P("Z")>>, <<Param(Name("Z"))>>,
                                                        UnionOf(<<Name("Z"), Name("Tag")>>)))>>)],
        values |-> [pick |-> GenericArrow(<<[P("Y") EXCEPT !.bound = Name("Tag")]>>,
                                          <<Param(Name("Y")), OptionalParam(Name("Picker"))>>,
                                          ArrayOf(Name("Y")))],
        exported |-> {"pick", "Picker"},
        items |-> <<"Tag", "Mark", "Picker", "pick">>],
     spellings |-> {},
     orders |-> {<<"Tag", "Mark", "Picker", "pick">>, <<"pick", "Mark", "Tag", "Picker">>,
                 <<"Picker", "pick", "Tag", "Mark">>},
     missing |-> {"Tag", "Mark"},
     uses |-> <<Name("Picker")>>]

Whole_(family) == [i \in DOMAIN family |->
                     [family[i] EXCEPT !.spellings = @ \cup {family[i].source}]]

MCFiles == Whole_(<<Cycle, Box, Pick>>)

(* A union of two interfaces, neither imported before it.                  *)
Either ==
    [source |->
       [types |-> [Left |-> Interface(<<Field(p, A)>>), Right |-> Interface(<<Field(q, B)>>),
                   Either_ |-> Alias(UnionOf(<<Name("Left"), Name("Right")>>))],
        values |-> << >>,
        exported |-> {"Left", "Right", "Either_"},
        items |-> <<"Left", "Right", "Either_">>],
     spellings |-> {},
     orders |-> {<<"Left", "Right", "Either_">>},
     missing |-> {"Left"},
     uses |-> <<Name("Either_"), Name("Left"), Name("Right"), ArrayOf(Name("Either_"))>>]

SuspectFiles == Whole_(<<Either>>)

Names == {"Box", "List", "Pair", "Maybe", "Picker", "pick", "T", "U", "V", "W", "X", "Y", "Z"}
MCParameter ==
    {TypeParamKey(name, path, i) : name \in Names, path \in {<< >>, <<<<q, 0>>>>}, i \in 0 .. 2}

(* Values, objects nested as deep as the types distinguish.                *)
Text(s) == [kind |-> "string", literal |-> s]
Basic == {Text("a"), Text("b"), [kind |-> "number", literal |-> "1"], [kind |-> "null"]}
Objects(values) == {[kind |-> "object", fields |-> f] : f \in UNION {[n -> values] : n \in SUBSET {p, q}}}
One == Objects({Text("a"), Text("b"), [kind |-> "null"]})
Deep(values) == {[kind |-> "object", fields |-> [f EXCEPT ![q] = v]] : f \in [{p, q} -> {Text("a"), Text("b")}], v \in values}
Arrays == {[kind |-> "array", elements |-> e] : e \in {{}} \cup {{v} : v \in Basic \cup One}}
Wrapped(values) == {[kind |-> "object", fields |-> [n \in {p} |-> v]] : v \in values}

MCValue == Basic \cup One \cup Deep(One) \cup Arrays \cup Wrapped(One)

(* All content shares one digest.                                          *)
Collide(content) == 0
=============================================================================
