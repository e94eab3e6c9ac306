------------------------------ MODULE MCResolution ------------------------------
(***************************************************************************)
(* Programs of two and three declarations for TLC.                         *)
(***************************************************************************)
EXTENDS ResolutionProperties

(* All content shares one digest.                                          *)
Collide(content) == 0

Plain(to) == [to |-> to, array |-> FALSE]
ArrayOf(to) == [to |-> to, array |-> TRUE]
One(to) == <<Plain(to)>>
Either(left, right) == <<Plain(left), Plain(right)>>

Is(name, of) == [name |-> name, optional |-> FALSE, of |-> of]
Maybe(name, of) == [name |-> name, optional |-> TRUE, of |-> of]

Interface(members) == [kind |-> "interface", extends |-> NoName, members |-> members]
TypeLiteral(members) == [kind |-> "literal", extends |-> NoName, members |-> members]
Class(parent, members) == [kind |-> "class", extends |-> parent, members |-> members]
Alias(of) == [kind |-> "alias", extends |-> NoName, members |-> <<Is(NoName, of)>>]

(* A declaration next to one other: its annotations.                       *)
Annotations(self, other) ==
    {One(self), One(other), One("number"), Either(other, "null"),
     Either("string", "number"), <<ArrayOf(other)>>, One(Unsupported)}

DeclsOf(self, other) ==
    LET of == Annotations(self, other)
    IN  {Interface(<<Is("p", a), Maybe("q", One("number"))>>) : a \in of}
        \cup {Interface(<<Is("p", One(other)), Is("q", a)>>) : a \in of}
        \cup {Interface(<<Is("p", One("number")), Is("p", One("number"))>>)}
        \cup {Class(parent, <<Is("p", a)>>) : parent \in {NoName, other}, a \in of}
        \cup {Class(other, <<Is("q", One(other))>>)}
        \cup {Alias(a) : a \in of}

Pairs == {[A |-> a, B |-> b] : a \in DeclsOf("A", "B"), b \in DeclsOf("B", "A")}

(* Three declarations: a class between its parent and a user, aliases on   *)
(* the way, unions of different kinds.                                     *)
Threes ==
    {[A |-> Class("B", <<Is("q", a)>>), B |-> b, C |-> c] :
        a \in {One("number"), One("C")},
        b \in {Class("C", <<Is("p", One("A"))>>), Class(NoName, <<Is("p", One("C"))>>),
               Class("C", <<Is("q", One("null"))>>), Alias(Either("A", "null")), Alias(One("C"))},
        c \in {Alias(One("C")), Alias(Either("A", "B")), TypeLiteral(<<Is("p", Either("number", "B"))>>),
               Interface(<<Is("p", Either("string", "null")), Is("q", Either("null", "A"))>>),
               Interface(<<Is("p", One("B")), Is("q", One("D"))>>)}}

AllPrograms == Pairs \cup Threes

(* class A { p: B }, class B extends A { q: number }                       *)
ParentNamesChild == {[A |-> Class(NoName, <<Is("p", One("B"))>>),
                      B |-> Class("A", <<Is("q", One("number"))>>)]}
=============================================================================
