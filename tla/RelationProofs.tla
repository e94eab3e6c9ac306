----------------------------- MODULE RelationProofs -----------------------------
(***************************************************************************)
(* The relations between types that are computed by a walk over two types  *)
(* at once, which assumes of a pair that it meets again what it is asked:  *)
(* the walk gives the largest relation its rules allow, and what that      *)
(* relation says of two types is true of their values.                     *)
(***************************************************************************)
EXTENDS TypeValues, GraphProofs

-----------------------------------------------------------------------------
(* Relations defined by rules: G[X] is what the rules give from X.         *)

IsMonotone(D, G) ==
    /\ G = [X \in SUBSET D |-> G[X]]
    /\ \A X \in SUBSET D : G[X] \in SUBSET D
    /\ \A X, Y \in SUBSET D : X \subseteq Y => G[X] \subseteq G[Y]

Supported(D, G) == {X \in SUBSET D : X \subseteq G[X]}

Largest(D, G) == UNION Supported(D, G)

LEMMA LargestFacts ==
    ASSUME NEW D, NEW G, IsMonotone(D, G)
    PROVE  /\ Largest(D, G) \in SUBSET D
           /\ G[Largest(D, G)] = Largest(D, G)
           /\ \A X \in SUBSET D : X \subseteq G[X] => X \subseteq Largest(D, G)
<1> DEFINE L == Largest(D, G)
<1>1. L \in SUBSET D /\ \A X \in SUBSET D : X \subseteq G[X] => X \subseteq L
  BY DEF Largest, Supported
<1> HIDE DEF L
<1>2. \A X \in SUBSET D : X \subseteq L => G[X] \subseteq G[L]
  BY <1>1 DEF IsMonotone
<1>3. L \subseteq G[L]
  <2> SUFFICES ASSUME NEW x \in L PROVE x \in G[L]
    OBVIOUS
  <2>1. PICK X \in SUBSET D : X \subseteq G[X] /\ x \in X
    BY DEF L, Largest, Supported
  <2> QED
    BY <1>1, <1>2, <2>1
<1>4. G[L] \subseteq L
  <2>1. G[L] \in SUBSET D
    BY <1>1 DEF IsMonotone
  <2>2. G[L] \subseteq G[G[L]]
    BY <1>1, <1>3, <2>1 DEF IsMonotone
  <2> QED
    BY <1>1, <2>1, <2>2
<1> QED
  BY <1>1, <1>3, <1>4 DEF L

(* The rules, and what is assumed.                                         *)
Assuming(D, G, S) == [X \in SUBSET D |-> G[X] \cup S]

LEMMA AssumingFacts ==
    ASSUME NEW D, NEW G, IsMonotone(D, G), NEW S \in SUBSET D
    PROVE  /\ IsMonotone(D, Assuming(D, G, S))
           /\ Largest(D, Assuming(D, G, S)) \in SUBSET D
           /\ Largest(D, Assuming(D, G, S)) = G[Largest(D, Assuming(D, G, S))] \cup S
           /\ \A X \in SUBSET D : X \subseteq G[X] \cup S => X \subseteq Largest(D, Assuming(D, G, S))
<1> DEFINE A == Assuming(D, G, S)
<1>1. \A X \in SUBSET D : A[X] = G[X] \cup S
  BY DEF Assuming
<1>2. A = [X \in SUBSET D |-> A[X]]
  BY DEF Assuming
<1> HIDE DEF A
<1>3. IsMonotone(D, A)
  BY <1>1, <1>2, ZenonT(40) DEF IsMonotone
<1> QED
  BY <1>1, <1>3, LargestFacts DEF A

(* Assuming more gives more; and a pair may be assumed for the sake of its *)
(* own proof.                                                              *)
LEMMA AssumedForItself ==
    ASSUME NEW D, NEW G, IsMonotone(D, G), NEW S \in SUBSET D, NEW p \in D
    PROVE  p \in Largest(D, Assuming(D, G, S)) <=>
              p \in S \/ p \in G[Largest(D, Assuming(D, G, S \cup {p}))]
<1> DEFINE L == Largest(D, Assuming(D, G, S))
           M == Largest(D, Assuming(D, G, S \cup {p}))
<1>1. L \in SUBSET D /\ L = G[L] \cup S
      /\ \A X \in SUBSET D : X \subseteq G[X] \cup S => X \subseteq L
  BY AssumingFacts
<1>2. M \in SUBSET D /\ M = G[M] \cup (S \cup {p})
      /\ \A X \in SUBSET D : X \subseteq G[X] \cup (S \cup {p}) => X \subseteq M
  <2>1. S \cup {p} \in SUBSET D
    OBVIOUS
  <2> QED
    BY <2>1, AssumingFacts
<1> HIDE DEF L, M
<1>3. ASSUME p \in L PROVE p \in S \/ p \in G[M]
  <2>1. L \subseteq M
    BY <1>1, <1>2
  <2>2. G[L] \subseteq G[M]
    BY <1>1, <1>2, <2>1 DEF IsMonotone
  <2> QED
    BY <1>1, <1>3, <2>2
<1>4. ASSUME p \in S PROVE p \in L
  BY <1>1, <1>4
<1>5. ASSUME p \in G[M] PROVE p \in L
  <2>1. M \subseteq G[M] \cup S
    BY <1>2, <1>5
  <2>2. M \subseteq L
    BY <1>1, <1>2, <2>1
  <2> QED
    BY <1>2, <2>2
<1> QED
  BY <1>3, <1>4, <1>5 DEF L, M

(* A walk that assumes what it meets again, over finitely many pairs,      *)
(* finds what is largest.                                                  *)
LEMMA WalkFinds ==
    ASSUME NEW D, IsFiniteSet(D), NEW G, IsMonotone(D, G), NEW r,
           \A S \in SUBSET D : \A p \in D :
              r[S][p] <=> p \in S \/ p \in G[{q \in D : r[S \cup {p}][q]}]
    PROVE  \A S \in SUBSET D : \A p \in D : r[S][p] <=> p \in Largest(D, Assuming(D, G, S))
<1> DEFINE L(S) == Largest(D, Assuming(D, G, S))
           Right(S) == \A p \in D : r[S][p] <=> p \in L(S)
           Bad == {S \in SUBSET D : ~ Right(S)}
           Left == {Cardinality(D \ S) : S \in Bad}
<1>1. SUFFICES ASSUME Bad # {} PROVE FALSE
  OBVIOUS
<1>2. ASSUME NEW S \in SUBSET D PROVE Cardinality(D \ S) \in Nat
  <2>1. IsFiniteSet(D \ S)
    BY FS_Subset
  <2> QED
    BY <2>1, FS_CardinalityType
<1>3. PICK S \in Bad : \A T \in Bad : Cardinality(D \ S) <= Cardinality(D \ T)
  <2>1. Left \subseteq Nat /\ Left # {}
    BY <1>1, <1>2
  <2>2. PICK m \in Left : \A k \in Left : m <= k
    <3> HIDE DEF Left
    <3> QED
      BY <2>1, LeastNumber
  <2> HIDE DEF Bad
  <2> QED
    BY <2>2
<1>4. S \in SUBSET D /\ ~ Right(S)
  OBVIOUS
<1>5. ASSUME NEW p \in D, p \notin S PROVE Right(S \cup {p})
  <2>1. S \cup {p} \in SUBSET D
    BY <1>4
  <2>2. Cardinality(D \ (S \cup {p})) = Cardinality(D \ S) - 1
    <3>1. D \ (S \cup {p}) = (D \ S) \ {p} /\ p \in D \ S
      BY <1>5
    <3>2. IsFiniteSet(D \ S)
      BY FS_Subset
    <3>3. PICK U : U = D \ S
      OBVIOUS
    <3>4. IsFiniteSet(U) /\ p \in U /\ D \ (S \cup {p}) = U \ {p}
      BY <3>1, <3>2, <3>3
    <3>5. Cardinality(U \ {p}) = Cardinality(U) - 1
      BY <3>4, FS_RemoveElement
    <3> QED
      BY <3>3, <3>4, <3>5
  <2>3. Cardinality(D \ S) \in Nat
    BY <1>2, <1>4
  <2>4. ~ Cardinality(D \ S) <= Cardinality(D \ (S \cup {p}))
    <3> PICK c : c = Cardinality(D \ S)
      OBVIOUS
    <3> QED
      BY <2>2, <2>3
  <2>5. S \cup {p} \notin Bad
    <3> HIDE DEF Bad
    <3> QED
      BY <1>3, <2>4
  <2> QED
    BY <2>1, <2>5
<1>6. ASSUME NEW p \in D PROVE r[S][p] <=> p \in L(S)
  <2>1. CASE p \in S
    BY <1>4, <2>1, AssumedForItself
  <2>2. CASE p \notin S
    <3>1. S \cup {p} \in SUBSET D
      BY <1>4
    <3>2. L(S \cup {p}) \in SUBSET D
      BY <3>1, AssumingFacts
    <3>3. {q \in D : r[S \cup {p}][q]} = L(S \cup {p})
      <4> HIDE DEF L
      <4> QED
        BY <1>5, <2>2, <3>2
    <3>4. r[S][p] <=> p \in G[L(S \cup {p})]
      BY <1>4, <2>2, <3>3
    <3> QED
      BY <1>4, <2>2, <3>4, AssumedForItself
  <2> QED
    BY <2>1, <2>2
<1> QED
  BY <1>4, <1>6

-----------------------------------------------------------------------------
(* What the walks read.                                                    *)

Param(ids) == [type : ids, optional : BOOLEAN, rest : BOOLEAN]

(* The parts of a type are types.                                          *)
LEMMA NodeParts ==
    ASSUME NEW I, NEW S, NEW x \in Node(I, S)
    PROVE  /\ x.kind = "array" => x.element \in I
           /\ x.kind = "object" => x.properties \in Properties(I)
           /\ x.kind \in {"union", "intersection"} => x.members \in Seq(I)
           /\ x.kind = "function" => x.params \in Seq(Param(I)) /\ x.returns \in I
           /\ x.kind = "parameter" => x.bound \in I \cup {NoBound}
BY DEF Node, Param

LEMMA PropertyIsTyped ==
    ASSUME NEW I, NEW p \in Properties(I), NEW name \in DOMAIN p
    PROVE  p[name].type \in I
<1>1. PICK names \in SUBSET Property :
         p \in [names -> [type : I, optional : BOOLEAN, method : BOOLEAN]]
  BY DEF Properties
<1>2. p[name] \in [type : I, optional : BOOLEAN, method : BOOLEAN]
  BY <1>1
<1> QED
  BY <1>2

LEMMA ReadsNode ==
    ASSUME NEW arena, IsReadable(arena), NEW id \in Ids(arena)
    PROVE  Get(arena, id) \in Node(Ids(arena), Slots(arena))
<1>1. arena.types[Behind(arena, id)] \in Node(Ids(arena), Slots(arena))
  BY DEF IsReadable, IsArena
<1>2. EmptyObject \in Node(Ids(arena), Slots(arena))
  <2>1. NoProperties \in [{} -> [type : Ids(arena), optional : BOOLEAN, method : BOOLEAN]]
    BY DEF NoProperties
  <2>2. NoProperties \in Properties(Ids(arena))
    BY <2>1 DEF Properties
  <2> QED
    BY <2>2 DEF Node, EmptyObject, ObjectNode
<1> QED
  BY <1>1, <1>2 DEF Get, Readable

(* A member of a sequence of types.                                        *)
LEMMA MembersAre ==
    ASSUME NEW I, NEW s \in Seq(I)
    PROVE  Len(s) \in Nat /\ DOMAIN s = 1 .. Len(s) /\ \A i \in DOMAIN s : s[i] \in I
BY ElementOfSeq, LenProperties

LEMMA ParamTypeIsTyped ==
    ASSUME NEW arena, IsReadable(arena), NEW params \in Seq(Param(Ids(arena))), NEW i \in Nat \ {0}
    PROVE  ParamTypeAt(arena, params, i) \in Ids(arena) \cup {NoParam}
<1> DEFINE last == Len(params)
           at == IF i <= last THEN i ELSE last
<1>1. last \in Nat /\ \A k \in 1 .. last : params[k] \in Param(Ids(arena))
  BY MembersAre
<1>2. CASE last = 0 \/ (i > last /\ ~ params[last].rest)
  BY <1>2 DEF ParamTypeAt
<1>3. CASE ~ (last = 0 \/ (i > last /\ ~ params[last].rest))
  <2>1. at \in 1 .. last
    BY <1>1, <1>3
  <2>2. params[at].type \in Ids(arena)
    BY <1>1, <2>1 DEF Param
  <2>3. PICK node : node = Get(arena, params[at].type)
    OBVIOUS
  <2>4. node.kind = "array" => node.element \in Ids(arena)
    BY <2>2, <2>3, ReadsNode, NodeParts
  <2>5. ParamTypeAt(arena, params, i) =
           IF params[at].rest
           THEN IF node.kind = "array" THEN node.element ELSE params[at].type
           ELSE params[at].type
    BY <1>3, <2>3, Zenon DEF ParamTypeAt
  <2> HIDE DEF at
  <2> QED
    BY <2>2, <2>4, <2>5
<1> QED
  BY <1>2, <1>3

-----------------------------------------------------------------------------
(* The rules of subtyping: more parts related, more related.               *)

Weaker(arena, r, s) == \A pair \in IdPairs(arena) : r[pair] => s[pair]

LEMMA FunctionsMonotone ==
    ASSUME NEW arena, IsReadable(arena), NEW r, NEW s, Weaker(arena, r, s),
           NEW f \in Node(Ids(arena), Slots(arena)), f.kind = "function",
           NEW g \in Node(Ids(arena), Slots(arena)), g.kind = "function",
           NEW either, FunctionRelates(arena, r, f, g, either)
    PROVE  FunctionRelates(arena, s, f, g, either)
<1>1. /\ f.params \in Seq(Param(Ids(arena))) /\ f.returns \in Ids(arena)
      /\ g.params \in Seq(Param(Ids(arena))) /\ g.returns \in Ids(arena)
  BY NodeParts
<1>2. \A i \in DOMAIN f.params \cup DOMAIN g.params : i \in Nat \ {0}
  BY <1>1, MembersAre
<1>3. ASSUME NEW i \in DOMAIN f.params \cup DOMAIN g.params,
             NEW p, p = ParamTypeAt(arena, f.params, i),
             NEW q, q = ParamTypeAt(arena, g.params, i)
      PROVE  NoParam \in {p, q} \/ s[<<q, p>>] \/ (either /\ s[<<p, q>>])
  <2>1. p \in Ids(arena) \cup {NoParam} /\ q \in Ids(arena) \cup {NoParam}
    BY <1>1, <1>2, <1>3, ParamTypeIsTyped
  <2>2. NoParam \in {p, q} \/ r[<<q, p>>] \/ (either /\ r[<<p, q>>])
    BY <1>3 DEF FunctionRelates
  <2> QED
    BY <2>1, <2>2 DEF Weaker, IdPairs
<1>4. s[<<f.returns, g.returns>>]
  BY <1>1 DEF FunctionRelates, Weaker, IdPairs
<1> QED
  BY <1>3, <1>4 DEF FunctionRelates

LEMMA PropertiesMonotone ==
    ASSUME NEW arena, IsReadable(arena), NEW r, NEW s, Weaker(arena, r, s),
           NEW type \in Ids(arena), NEW wanted, wanted.type \in Ids(arena),
           PropertyRelates(arena, r, type, wanted)
    PROVE  PropertyRelates(arena, s, type, wanted)
<1>1. PICK f, g : f = Get(arena, type) /\ g = Get(arena, wanted.type)
  OBVIOUS
<1>2. f \in Node(Ids(arena), Slots(arena)) /\ g \in Node(Ids(arena), Slots(arena))
  BY <1>1, ReadsNode
<1>3. CASE wanted.method /\ f.kind = "function" /\ g.kind = "function"
  <2>1. FunctionRelates(arena, r, f, g, TRUE)
    BY <1>1, <1>3 DEF PropertyRelates
  <2>2. FunctionRelates(arena, s, f, g, TRUE)
    BY <1>2, <1>3, <2>1, FunctionsMonotone
  <2> QED
    BY <1>1, <1>3, <2>2 DEF PropertyRelates
<1>4. CASE ~ (wanted.method /\ f.kind = "function" /\ g.kind = "function")
  <2>1. ~ (wanted.method /\ \A id \in {type, wanted.type} : Get(arena, id).kind = "function")
    BY <1>1, <1>4
  <2>2. r[<<type, wanted.type>>]
    BY <2>1 DEF PropertyRelates
  <2>3. s[<<type, wanted.type>>]
    BY <2>2 DEF Weaker, IdPairs
  <2> QED
    BY <2>1, <2>3 DEF PropertyRelates
<1> QED
  BY <1>3, <1>4

LEMMA ObjectsMonotone ==
    ASSUME NEW arena, IsReadable(arena), NEW r, NEW s, Weaker(arena, r, s),
           NEW x, x.properties \in Properties(Ids(arena)),
           NEW y, y.properties \in Properties(Ids(arena)),
           ObjectRelates(arena, r, x, y)
    PROVE  ObjectRelates(arena, s, x, y)
<1>1. /\ \A name \in DOMAIN x.properties : x.properties[name].type \in Ids(arena)
      /\ \A name \in DOMAIN y.properties : y.properties[name].type \in Ids(arena)
  BY PropertyIsTyped
<1>2. ASSUME NEW name \in DOMAIN y.properties, name \in DOMAIN x.properties
      PROVE  /\ x.properties[name].optional => y.properties[name].optional
             /\ PropertyRelates(arena, s, x.properties[name].type, y.properties[name])
  <2>1. /\ x.properties[name].optional => y.properties[name].optional
        /\ PropertyRelates(arena, r, x.properties[name].type, y.properties[name])
    BY <1>2 DEF ObjectRelates
  <2> QED
    BY <1>1, <1>2, <2>1, PropertiesMonotone
<1>3. ASSUME NEW name \in DOMAIN y.properties, name \notin DOMAIN x.properties
      PROVE  y.properties[name].optional
  BY <1>3 DEF ObjectRelates
<1> QED
  BY <1>2, <1>3 DEF ObjectRelates

LEMMA MembersMonotone ==
    ASSUME NEW arena, IsReadable(arena), NEW r, NEW s, Weaker(arena, r, s),
           NEW members \in Seq(Ids(arena)),
           NEW y, y.properties \in Properties(Ids(arena)),
           TogetherProvide(arena, r, members, y)
    PROVE  TogetherProvide(arena, s, members, y)
<1> DEFINE nodes == {Get(arena, members[i]) : i \in DOMAIN members}
<1>1. \A node \in nodes : node \in Node(Ids(arena), Slots(arena))
  BY ReadsNode, MembersAre
<1> HIDE DEF nodes
<1>2. \A name : \A p \in Given(nodes, name) : p.type \in Ids(arena)
  <2> SUFFICES ASSUME NEW name, NEW node \in nodes, node.kind = "object",
                      name \in DOMAIN node.properties
               PROVE  node.properties[name].type \in Ids(arena)
    BY DEF Given
  <2>1. node.properties \in Properties(Ids(arena))
    BY <1>1, NodeParts
  <2> QED
    BY <2>1, PropertyIsTyped
<1>3. ASSUME NEW name \in DOMAIN y.properties, NEW given, given = Given(nodes, name),
             Provided(arena, r, given, y.properties[name])
      PROVE  Provided(arena, s, given, y.properties[name])
  <2>1. y.properties[name].type \in Ids(arena)
    BY PropertyIsTyped
  <2>2. \A p \in given : PropertyRelates(arena, r, p.type, y.properties[name])
                           => PropertyRelates(arena, s, p.type, y.properties[name])
    BY <1>2, <1>3, <2>1, PropertiesMonotone
  <2> QED
    BY <1>3, <2>2 DEF Provided
<1> QED
  BY <1>3 DEF TogetherProvide, nodes

LEMMA NodesMonotone ==
    ASSUME NEW arena, IsReadable(arena), NEW r, NEW s, Weaker(arena, r, s),
           NEW a \in Ids(arena), NEW b \in Ids(arena),
           NEW x \in Node(Ids(arena), Slots(arena)), NEW y \in Node(Ids(arena), Slots(arena)),
           NodesRelate(arena, r, a, b, x, y)
    PROVE  NodesRelate(arena, s, a, b, x, y)
<1> DEFINE Outright ==
              \/ Named(y, {"unknown"}) \/ Named(x, {"never"})
              \/ Named(x, {"undefined"}) /\ Named(y, {"void"})
              \/ MembersClash(arena, x)
              \/ x.kind = "literal" /\ (x = y \/ Named(y, {x.base}))
           ByShape(q) ==
              \/ y.kind = "union" /\ \E i \in DOMAIN y.members : q[<<a, y.members[i]>>]
              \/ x.kind = "intersection" /\ \E i \in DOMAIN x.members : q[<<x.members[i], b>>]
              \/ /\ x.kind = "intersection" /\ y.kind = "object"
                 /\ TogetherProvide(arena, q, x.members, y)
              \/ /\ x.kind = "function" /\ y.kind = "function"
                 /\ FunctionRelates(arena, q, x, y, FALSE)
              \/ x.kind = "array" /\ y.kind = "array" /\ q[<<x.element, y.element>>]
              \/ x.kind = "object" /\ y.kind = "object" /\ ObjectRelates(arena, q, x, y)
           ByParts(q) ==
              IF x.kind = "parameter" /\ x.bound # NoBound THEN q[<<x.bound, b>>]
              ELSE IF x.kind = "union" THEN \A i \in DOMAIN x.members : q[<<x.members[i], b>>]
              ELSE IF y.kind = "intersection"
              THEN \A i \in DOMAIN y.members : q[<<a, y.members[i]>>]
              ELSE ByShape(q)
<1>1. \A q : NodesRelate(arena, q, a, b, x, y) <=> Outright \/ ByParts(q)
  BY DEF NodesRelate
<1>2. /\ x.kind = "parameter" /\ x.bound # NoBound => x.bound \in Ids(arena)
      /\ x.kind \in {"union", "intersection"} =>
            x.members \in Seq(Ids(arena)) /\ \A i \in DOMAIN x.members : x.members[i] \in Ids(arena)
      /\ y.kind \in {"union", "intersection"} =>
            \A i \in DOMAIN y.members : y.members[i] \in Ids(arena)
  BY NodeParts, MembersAre
<1>3. \A p \in Ids(arena), q \in Ids(arena) : r[<<p, q>>] => s[<<p, q>>]
  BY DEF Weaker, IdPairs
<1>4. ASSUME ByShape(r) PROVE ByShape(s)
  <2>1. CASE y.kind = "union" /\ \E i \in DOMAIN y.members : r[<<a, y.members[i]>>]
    BY <1>2, <1>3, <2>1
  <2>2. CASE x.kind = "intersection" /\ \E i \in DOMAIN x.members : r[<<x.members[i], b>>]
    BY <1>2, <1>3, <2>2
  <2>3. CASE x.kind = "intersection" /\ y.kind = "object" /\ TogetherProvide(arena, r, x.members, y)
    <3>1. y.properties \in Properties(Ids(arena))
      BY <2>3, NodeParts
    <3>2. TogetherProvide(arena, s, x.members, y)
      BY <1>2, <2>3, <3>1, MembersMonotone
    <3> QED
      BY <2>3, <3>2
  <2>4. CASE x.kind = "function" /\ y.kind = "function" /\ FunctionRelates(arena, r, x, y, FALSE)
    <3>1. FunctionRelates(arena, s, x, y, FALSE)
      BY <2>4, FunctionsMonotone
    <3> QED
      BY <2>4, <3>1
  <2>5. CASE x.kind = "array" /\ y.kind = "array" /\ r[<<x.element, y.element>>]
    <3>1. x.element \in Ids(arena) /\ y.element \in Ids(arena)
      BY <2>5, NodeParts
    <3> QED
      BY <1>3, <2>5, <3>1
  <2>6. CASE x.kind = "object" /\ y.kind = "object" /\ ObjectRelates(arena, r, x, y)
    <3>1. x.properties \in Properties(Ids(arena)) /\ y.properties \in Properties(Ids(arena))
      BY <2>6, NodeParts
    <3>2. ObjectRelates(arena, s, x, y)
      BY <2>6, <3>1, ObjectsMonotone
    <3> QED
      BY <2>6, <3>2
  <2> QED
    BY <1>4, <2>1, <2>2, <2>3, <2>4, <2>5, <2>6
<1> HIDE DEF ByShape
<1>5. ASSUME ByParts(r) PROVE ByParts(s)
  BY <1>2, <1>3, <1>4, <1>5
<1> HIDE DEF Outright, ByParts
<1> QED
  BY <1>1, <1>5

-----------------------------------------------------------------------------
(* Subtyping.                                                              *)

Among(arena, X) == [pair \in IdPairs(arena) |-> pair \in X]

(* What the rules give from a relation.                                    *)
Derived(arena) ==
    [X \in SUBSET IdPairs(arena) |->
       {pair \in IdPairs(arena) : \/ Trivial(arena, pair[1], pair[2])
                                 \/ Rules(arena, Among(arena, X), pair[1], pair[2])}]

LEMMA DerivedIsMonotone ==
    ASSUME NEW arena, IsReadable(arena)
    PROVE  IsMonotone(IdPairs(arena), Derived(arena))
<1> DEFINE D == IdPairs(arena)
<1>1. ASSUME NEW X \in SUBSET D, NEW Y \in SUBSET D, X \subseteq Y,
             NEW a \in Ids(arena), NEW b \in Ids(arena), Rules(arena, Among(arena, X), a, b)
      PROVE  Rules(arena, Among(arena, Y), a, b)
  <2>1. Weaker(arena, Among(arena, X), Among(arena, Y))
    BY <1>1 DEF Weaker, Among
  <2>2. Get(arena, a) \in Node(Ids(arena), Slots(arena)) /\ Get(arena, b) \in Node(Ids(arena), Slots(arena))
    BY ReadsNode
  <2>3. NodesRelate(arena, Among(arena, X), a, b, Get(arena, a), Get(arena, b))
    BY <1>1 DEF Rules
  <2>4. NodesRelate(arena, Among(arena, Y), a, b, Get(arena, a), Get(arena, b))
    BY <2>1, <2>2, <2>3, NodesMonotone
  <2> QED
    BY <2>4 DEF Rules
<1>2. \A pair \in D : pair[1] \in Ids(arena) /\ pair[2] \in Ids(arena)
  BY DEF IdPairs
<1>3. ASSUME NEW X \in SUBSET D, NEW Y \in SUBSET D, X \subseteq Y
      PROVE  Derived(arena)[X] \subseteq Derived(arena)[Y]
  BY <1>1, <1>2, <1>3 DEF Derived
<1>4. \A X \in SUBSET D : Derived(arena)[X] \in SUBSET D
  BY DEF Derived
<1>5. Derived(arena) = [X \in SUBSET D |-> Derived(arena)[X]]
  BY DEF Derived
<1> QED
  BY <1>3, <1>4, <1>5 DEF IsMonotone

(* A relation the rules allow: every pair follows from the others.         *)
Allowed(arena, held) ==
    \A pair \in held : \/ Trivial(arena, pair[1], pair[2])
                       \/ Rules(arena, Among(arena, held), pair[1], pair[2])

(* is_subtype says of two types exactly what the largest relation says     *)
(* that its rules allow (is_subtype_inner and the PairStack): the pairs    *)
(* assumed on the way neither add an answer of their own nor lose one.     *)
THEOREM SubtypeIsLargest ==
    ASSUME NEW arena, IsReadable(arena), NEW a \in Ids(arena), NEW b \in Ids(arena)
    PROVE  Subtype(arena, a, b) <=>
              \E held \in SUBSET IdPairs(arena) : <<a, b>> \in held /\ Allowed(arena, held)
<1> DEFINE D == IdPairs(arena)
           G == Derived(arena)
           row(r, seen) ==
              [pair \in D |->
                  \/ Trivial(arena, pair[1], pair[2])
                  \/ pair \in seen
                  \/ Rules(arena, r[seen \cup {pair}], pair[1], pair[2])]
           related == CHOOSE r : r = [seen \in SUBSET D |-> row(r, seen)]
           found == [seen \in SUBSET D |-> Among(arena, Largest(D, Assuming(D, G, seen)))]
<1>1. Subtype(arena, a, b) <=> related[{}][<<a, b>>]
  BY DEF Subtype
<1>2. IsMonotone(D, G) /\ <<a, b>> \in D
  BY DerivedIsMonotone DEF IdPairs
<1>3. IsFiniteSet(D)
  BY FS_Product DEF IsReadable, IdPairs
<1>4. \A X \in SUBSET D : \A p \in D :
         p \in G[X] <=> Trivial(arena, p[1], p[2]) \/ Rules(arena, Among(arena, X), p[1], p[2])
  BY DEF Derived
<1> HIDE DEF G
<1>5. \A S \in SUBSET D : Largest(D, Assuming(D, G, S)) \in SUBSET D
  BY <1>2, AssumingFacts
<1>6. \A seen \in SUBSET D : found[seen] = row(found, seen)
  <2> SUFFICES ASSUME NEW seen \in SUBSET D PROVE found[seen] = row(found, seen)
    OBVIOUS
  <2>1. ASSUME NEW p \in D
        PROVE  found[seen][p] = ( \/ Trivial(arena, p[1], p[2])
                                 \/ p \in seen
                                 \/ Rules(arena, found[seen \cup {p}], p[1], p[2]))
    <3>1. PICK M : M = Largest(D, Assuming(D, G, seen \cup {p}))
      OBVIOUS
    <3>2. seen \cup {p} \in SUBSET D /\ M \in SUBSET D
      BY <1>5, <3>1
    <3>3. found[seen \cup {p}] = Among(arena, M)
      BY <3>1, <3>2
    <3>4. found[seen][p] = (p \in Largest(D, Assuming(D, G, seen)))
      BY DEF Among
    <3>5. p \in Largest(D, Assuming(D, G, seen)) <=> p \in seen \/ p \in G[M]
      BY <1>2, <3>1, AssumedForItself
    <3>6. p \in G[M] <=> Trivial(arena, p[1], p[2]) \/ Rules(arena, Among(arena, M), p[1], p[2])
      BY <1>4, <3>2
    <3> HIDE DEF found
    <3> QED
      BY <3>3, <3>4, <3>5, <3>6
  <2>2. found[seen] = [p \in D |-> found[seen][p]]
    BY DEF Among
  <2> HIDE DEF found
  <2> QED
    BY <2>1, <2>2
<1>7. found = [seen \in SUBSET D |-> row(found, seen)]
  <2>1. found = [seen \in SUBSET D |-> found[seen]]
    OBVIOUS
  <2> HIDE DEF found, row
  <2> QED
    BY <1>6, <2>1
<1>8. related = [seen \in SUBSET D |-> row(related, seen)]
  <2> HIDE DEF found, row
  <2> QED
    BY <1>7
<1> HIDE DEF related, found
<1>9. ASSUME NEW S \in SUBSET D, NEW p \in D
      PROVE  related[S][p] <=> p \in S \/ p \in G[{q \in D : related[S \cup {p}][q]}]
  <2>1. PICK T : T = S \cup {p}
    OBVIOUS
  <2>2. T \in SUBSET D
    BY <2>1
  <2>3. PICK X : X = {q \in D : related[T][q]}
    OBVIOUS
  <2>4. related[T] = row(related, T)
    BY <1>8, <2>2
  <2>5. related[T] = Among(arena, X)
    <3>1. ASSUME NEW q \in D PROVE related[T][q] = (q \in X)
      <4>1. related[T][q] = ( \/ Trivial(arena, q[1], q[2]) \/ q \in T
                             \/ Rules(arena, related[T \cup {q}], q[1], q[2]))
        BY <2>4
      <4>2. related[T][q] \in BOOLEAN
        BY <4>1
      <4>3. q \in X <=> related[T][q]
        BY <2>3
      <4> QED
        BY <4>2, <4>3
    <3>2. related[T] = [q \in D |-> related[T][q]]
      BY <2>4
    <3> QED
      BY <3>1, <3>2, Zenon DEF Among
  <2>6. related[S] = row(related, S)
    BY <1>8
  <2>7. related[S][p] <=> Trivial(arena, p[1], p[2]) \/ p \in S
                          \/ Rules(arena, related[T], p[1], p[2])
    BY <2>1, <2>6
  <2>8. X \in SUBSET D
    BY <2>3
  <2> HIDE DEF row
  <2> QED
    BY <1>4, <2>1, <2>3, <2>5, <2>7, <2>8
<1>10. \A S \in SUBSET D : \A p \in D : related[S][p] <=> p \in Largest(D, Assuming(D, G, S))
  BY <1>2, <1>3, <1>9, WalkFinds
<1>11. related[{}][<<a, b>>] <=> <<a, b>> \in Largest(D, Assuming(D, G, {}))
  BY <1>2, <1>10
<1>12. \A X \in SUBSET D : X \subseteq Assuming(D, G, {})[X] <=> Allowed(arena, X)
  <2> SUFFICES ASSUME NEW X \in SUBSET D PROVE X \subseteq Assuming(D, G, {})[X] <=> Allowed(arena, X)
    OBVIOUS
  <2>1. Assuming(D, G, {})[X] = G[X]
    BY DEF Assuming
  <2> QED
    BY <1>4, <2>1 DEF Allowed
<1>13. <<a, b>> \in Largest(D, Assuming(D, G, {})) <=>
          \E held \in SUBSET D : <<a, b>> \in held /\ Allowed(arena, held)
  BY <1>12 DEF Largest, Supported
<1> QED
  BY <1>1, <1>11, <1>13

-----------------------------------------------------------------------------
(* Structural equality: more parts equal, more equal.                      *)

LEMMA AlikeMonotone ==
    ASSUME NEW arena, IsReadable(arena),
           NEW r, NEW s, Weaker(arena, r, s), NEW v, NEW w, Weaker(arena, v, w),
           NEW x \in Node(Ids(arena), Slots(arena)), NEW y \in Node(Ids(arena), Slots(arena)),
           Alike(r, v, x, y)
    PROVE  Alike(s, w, x, y)
<1>1. x.kind = y.kind
  BY DEF Alike
<1>2. /\ \A a, b \in Ids(arena) : r[<<a, b>>] => s[<<a, b>>]
      /\ \A a, b \in Ids(arena) : v[<<a, b>>] => w[<<a, b>>]
  BY DEF Weaker, IdPairs
<1>3. CASE x.kind \in {"primitive", "literal"} /\ x = y
  BY <1>1, <1>3 DEF Alike
<1>4. CASE x.kind = "parameter" /\ x.id = y.id
  BY <1>1, <1>4 DEF Alike
<1>5. CASE x.kind = "array" /\ r[<<x.element, y.element>>]
  <2>1. x.element \in Ids(arena) /\ y.element \in Ids(arena)
    BY <1>1, <1>5, NodeParts
  <2> QED
    BY <1>1, <1>2, <1>5, <2>1 DEF Alike
<1>6. CASE x.kind = "object" /\ SameProperties(v, x, y)
  <2>1. /\ \A name \in DOMAIN x.properties : x.properties[name].type \in Ids(arena)
        /\ \A name \in DOMAIN y.properties : y.properties[name].type \in Ids(arena)
    <3>1. x.properties \in Properties(Ids(arena)) /\ y.properties \in Properties(Ids(arena))
      BY <1>1, <1>6, NodeParts
    <3> QED
      BY <3>1, PropertyIsTyped
  <2>2. SameProperties(w, x, y)
    BY <1>2, <1>6, <2>1 DEF SameProperties
  <2> QED
    BY <1>1, <1>6, <2>2 DEF Alike
<1>7. CASE x.kind = "function" /\ SameSignature(r, x, y)
  <2>1. /\ x.params \in Seq(Param(Ids(arena))) /\ x.returns \in Ids(arena)
        /\ y.params \in Seq(Param(Ids(arena))) /\ y.returns \in Ids(arena)
    BY <1>1, <1>7, NodeParts
  <2>2. \A i \in DOMAIN x.params :
           x.params[i].type \in Ids(arena) /\ y.params[i].type \in Ids(arena)
    <3>1. PICK p, q : p = x.params /\ q = y.params
      OBVIOUS
    <3>2. Len(p) = Len(q) /\ p \in Seq(Param(Ids(arena))) /\ q \in Seq(Param(Ids(arena)))
      BY <1>7, <2>1, <3>1 DEF SameSignature
    <3>3. \A i \in DOMAIN p : p[i] \in Param(Ids(arena)) /\ q[i] \in Param(Ids(arena))
      BY <3>2, MembersAre
    <3> QED
      BY <3>1, <3>3 DEF Param
  <2>3. SameSignature(s, x, y)
    BY <1>2, <1>7, <2>1, <2>2 DEF SameSignature
  <2> QED
    BY <1>1, <1>7, <2>3 DEF Alike
<1>8. CASE x.kind \in {"union", "intersection"} /\ SameMembers(r, x, y)
  <2>1. /\ \A i \in DOMAIN x.members : x.members[i] \in Ids(arena)
        /\ \A i \in DOMAIN y.members : y.members[i] \in Ids(arena)
    BY <1>1, <1>8, NodeParts, MembersAre
  <2>2. SameMembers(s, x, y)
    BY <1>2, <1>8, <2>1 DEF SameMembers
  <2> QED
    BY <1>1, <1>8, <2>2 DEF Alike
<1> QED
  BY <1>3, <1>4, <1>5, <1>6, <1>7, <1>8 DEF Alike

(* One step of the walk, from what it says of each set of assumptions.     *)
EqualStep(arena, equal, seen, pair) ==
    \/ pair[1] = pair[2]
    \/ pair \in seen
    \/ Alike(equal[seen], equal[seen \cup {pair}], Get(arena, pair[1]), Get(arena, pair[2]))

(* A relation for each set of assumptions.                                 *)
Rows(arena, X) ==
    [seen \in SUBSET IdPairs(arena) |-> [pair \in IdPairs(arena) |-> <<seen, pair>> \in X]]

Questions(arena) == (SUBSET IdPairs(arena)) \X IdPairs(arena)

Compared(arena) ==
    [X \in SUBSET Questions(arena) |->
       {at \in Questions(arena) :
           EqualStep(arena, Rows(arena, X), at[1], at[2])}]

LEMMA ComparedIsMonotone ==
    ASSUME NEW arena, IsReadable(arena)
    PROVE  IsMonotone(Questions(arena), Compared(arena))
<1> DEFINE P == IdPairs(arena)
           D == Questions(arena)
<1>1. ASSUME NEW X \in SUBSET D, NEW Y \in SUBSET D, X \subseteq Y,
             NEW seen \in SUBSET P, NEW pair \in P, EqualStep(arena, Rows(arena, X), seen, pair)
      PROVE  EqualStep(arena, Rows(arena, Y), seen, pair)
  <2>1. \A S \in SUBSET P : Weaker(arena, Rows(arena, X)[S], Rows(arena, Y)[S])
    BY <1>1 DEF Weaker, Rows
  <2>2. seen \cup {pair} \in SUBSET P
    OBVIOUS
  <2>3. pair[1] \in Ids(arena) /\ pair[2] \in Ids(arena)
    BY DEF IdPairs
  <2>4. /\ Get(arena, pair[1]) \in Node(Ids(arena), Slots(arena))
        /\ Get(arena, pair[2]) \in Node(Ids(arena), Slots(arena))
    BY <2>3, ReadsNode
  <2>5. ASSUME Alike(Rows(arena, X)[seen], Rows(arena, X)[seen \cup {pair}],
                     Get(arena, pair[1]), Get(arena, pair[2]))
        PROVE  Alike(Rows(arena, Y)[seen], Rows(arena, Y)[seen \cup {pair}],
                     Get(arena, pair[1]), Get(arena, pair[2]))
    BY <2>1, <2>2, <2>4, <2>5, AlikeMonotone
  <2> QED
    BY <1>1, <2>5 DEF EqualStep
<1>2. \A at \in D : at[1] \in SUBSET P /\ at[2] \in P
  BY DEF Questions
<1>3. ASSUME NEW X \in SUBSET D, NEW Y \in SUBSET D, X \subseteq Y
      PROVE  Compared(arena)[X] \subseteq Compared(arena)[Y]
  BY <1>1, <1>2, <1>3 DEF Compared
<1>4. \A X \in SUBSET D : Compared(arena)[X] \in SUBSET D
  BY DEF Compared
<1>5. Compared(arena) = [X \in SUBSET D |-> Compared(arena)[X]]
  BY DEF Compared
<1> QED
  BY <1>3, <1>4, <1>5 DEF IsMonotone

(* structurally_equal unfolds: there is a walk with these steps, so what   *)
(* it says follows from one of them.                                       *)
LEMMA EqualUnfolds ==
    ASSUME NEW arena, IsReadable(arena)
    PROVE  \E equal :
              /\ \A a, b \in Ids(arena) : StructurallyEqual(arena, a, b) <=> equal[{}][<<a, b>>]
              /\ \A seen \in SUBSET IdPairs(arena) : \A pair \in IdPairs(arena) :
                    equal[seen][pair] <=> EqualStep(arena, equal, seen, pair)
<1> DEFINE P == IdPairs(arena)
           D == Questions(arena)
           row(equal, seen) ==
              [pair \in P |->
                  \/ pair[1] = pair[2]
                  \/ pair \in seen
                  \/ Alike(equal[seen], equal[seen \cup {pair}],
                           Get(arena, pair[1]), Get(arena, pair[2]))]
           equal == CHOOSE e : e = [seen \in SUBSET P |-> row(e, seen)]
           found == Rows(arena, Largest(D, Compared(arena)))
<1>1. \A a, b \in Ids(arena) : StructurallyEqual(arena, a, b) <=> equal[{}][<<a, b>>]
  BY DEF StructurallyEqual
<1>2. \A e, seen : \A pair \in P : row(e, seen)[pair] = EqualStep(arena, e, seen, pair)
  BY DEF EqualStep
<1>3. \A e, seen : row(e, seen) = [pair \in P |-> row(e, seen)[pair]]
  OBVIOUS
<1>4. PICK L : L = Largest(D, Compared(arena))
  OBVIOUS
<1>5. L \in SUBSET D /\ Compared(arena)[L] = L
  BY <1>4, ComparedIsMonotone, LargestFacts
<1>6. \A seen \in SUBSET P : \A pair \in P :
         <<seen, pair>> \in L <=> EqualStep(arena, Rows(arena, L), seen, pair)
  BY <1>5 DEF Compared, Questions
<1> HIDE DEF row
<1>7. ASSUME NEW seen \in SUBSET P PROVE found[seen] = row(found, seen)
  <2>1. ASSUME NEW pair \in P PROVE found[seen][pair] = row(found, seen)[pair]
    <3>1. found[seen][pair] = (<<seen, pair>> \in L)
      BY <1>4 DEF Rows
    <3>2. found = Rows(arena, L)
      BY <1>4
    <3> HIDE DEF found
    <3>3. <<seen, pair>> \in L <=> EqualStep(arena, found, seen, pair)
      BY <1>6, <3>2
    <3>4. PICK r, s, x, y : /\ r = found[seen] /\ s = found[seen \cup {pair}]
                            /\ x = Get(arena, pair[1]) /\ y = Get(arena, pair[2])
      OBVIOUS
    <3>5. EqualStep(arena, found, seen, pair) <=>
             pair[1] = pair[2] \/ pair \in seen \/ Alike(r, s, x, y)
      BY <3>4 DEF EqualStep
    <3>6. row(found, seen)[pair] = (pair[1] = pair[2] \/ pair \in seen \/ Alike(r, s, x, y))
      BY <3>4 DEF row
    <3> QED
      BY <3>1, <3>3, <3>5, <3>6
  <2>2. found[seen] = [pair \in P |-> found[seen][pair]]
    BY DEF Rows
  <2> HIDE DEF found
  <2> QED
    BY <1>3, <2>1, <2>2
<1>8. found = [seen \in SUBSET P |-> row(found, seen)]
  <2>1. found = [seen \in SUBSET P |-> found[seen]]
    BY DEF Rows
  <2> HIDE DEF found
  <2> QED
    BY <1>7, <2>1
<1>9. equal = [seen \in SUBSET P |-> row(equal, seen)]
  <2> HIDE DEF found
  <2> QED
    BY <1>8
<1> HIDE DEF equal, found
<1>10. \A seen \in SUBSET P : \A pair \in P : equal[seen][pair] <=> EqualStep(arena, equal, seen, pair)
  <2>1. \A seen \in SUBSET P : equal[seen] = row(equal, seen)
    BY <1>9
  <2> QED
    BY <1>2, <2>1
<1> QED
  BY <1>1, <1>10

(* What is equal is the same, or of the same kind; a primitive is equal to *)
(* itself alone.                                                           *)
LEMMA EqualFacts ==
    ASSUME NEW arena, IsReadable(arena), NEW a \in Ids(arena), NEW b \in Ids(arena)
    PROVE  LET x == Get(arena, a)
               y == Get(arena, b)
           IN  /\ a = b => StructurallyEqual(arena, a, b)
               /\ x.kind = "primitive" /\ x = y => StructurallyEqual(arena, a, b)
               /\ StructurallyEqual(arena, a, b) =>
                     \/ a = b
                     \/ x.kind = y.kind /\ (x.kind = "primitive" => x = y)
<1>1. PICK equal :
         /\ \A c, d \in Ids(arena) : StructurallyEqual(arena, c, d) <=> equal[{}][<<c, d>>]
         /\ \A seen \in SUBSET IdPairs(arena) : \A pair \in IdPairs(arena) :
               equal[seen][pair] <=> EqualStep(arena, equal, seen, pair)
  BY EqualUnfolds
<1>2. <<a, b>> \in IdPairs(arena) /\ {} \in SUBSET IdPairs(arena)
  BY DEF IdPairs
<1>3. PICK r, s : r = equal[{}] /\ s = equal[{} \cup {<<a, b>>}]
  OBVIOUS
<1>4. PICK x, y : x = Get(arena, a) /\ y = Get(arena, b)
  OBVIOUS
<1>5. StructurallyEqual(arena, a, b) <=> EqualStep(arena, equal, {}, <<a, b>>)
  BY <1>1, <1>2
<1>6. EqualStep(arena, equal, {}, <<a, b>>) <=> a = b \/ Alike(r, s, x, y)
  BY <1>3, <1>4 DEF EqualStep
<1>7. Alike(r, s, x, y) => x.kind = y.kind /\ (x.kind = "primitive" => x = y)
  BY DEF Alike
<1>8. x.kind = "primitive" /\ x = y => Alike(r, s, x, y)
  BY DEF Alike
<1> QED
  BY <1>4, <1>5, <1>6, <1>7, <1>8

-----------------------------------------------------------------------------
(* Disjointness.                                                           *)

(* What the rules of is_disjoint give from a relation.                     *)
Separated(arena) ==
    [X \in SUBSET IdPairs(arena) |->
       {pair \in IdPairs(arena) :
          NodesDisjoint(Among(arena, X), pair[1], pair[2], Get(arena, pair[1]), Get(arena, pair[2]))}]

LEMMA SeparatedIsMonotone ==
    ASSUME NEW arena, IsReadable(arena)
    PROVE  IsMonotone(IdPairs(arena), Separated(arena))
<1> DEFINE D == IdPairs(arena)
<1>1. ASSUME NEW X \in SUBSET D, NEW Y \in SUBSET D, X \subseteq Y,
             NEW a \in Ids(arena), NEW b \in Ids(arena), NEW x, NEW y,
             x \in Node(Ids(arena), Slots(arena)), y \in Node(Ids(arena), Slots(arena)),
             NodesDisjoint(Among(arena, X), a, b, x, y)
      PROVE  NodesDisjoint(Among(arena, Y), a, b, x, y)
  <2>1. PICK r, s : r = Among(arena, X) /\ s = Among(arena, Y)
    OBVIOUS
  <2>2. \A pair \in D : r[pair] => s[pair]
    BY <1>1, <2>1 DEF Among
  <2>3. x.kind = "union" => \A i \in DOMAIN x.members : <<x.members[i], b>> \in D
    BY <1>1, NodeParts, MembersAre DEF IdPairs
  <2>4. y.kind = "union" => \A i \in DOMAIN y.members : <<a, y.members[i]>> \in D
    BY <1>1, NodeParts, MembersAre DEF IdPairs
  <2> QED
    BY <1>1, <2>1, <2>2, <2>3, <2>4 DEF NodesDisjoint
<1>2. \A pair \in D : /\ pair[1] \in Ids(arena) /\ pair[2] \in Ids(arena)
                      /\ Get(arena, pair[1]) \in Node(Ids(arena), Slots(arena))
                      /\ Get(arena, pair[2]) \in Node(Ids(arena), Slots(arena))
  BY ReadsNode DEF IdPairs
<1>3. ASSUME NEW X \in SUBSET D, NEW Y \in SUBSET D, X \subseteq Y
      PROVE  Separated(arena)[X] \subseteq Separated(arena)[Y]
  BY <1>1, <1>2, <1>3 DEF Separated
<1>4. \A X \in SUBSET D : Separated(arena)[X] \in SUBSET D
  BY DEF Separated
<1>5. Separated(arena) = [X \in SUBSET D |-> Separated(arena)[X]]
  BY DEF Separated
<1> QED
  BY <1>3, <1>4, <1>5 DEF IsMonotone

(* is_disjoint unfolds: there is a relation with its rules.                *)
LEMMA DisjointUnfolds ==
    ASSUME NEW arena, IsReadable(arena)
    PROVE  \E disjoint :
              /\ \A a, b \in Ids(arena) : Disjoint(arena, a, b) <=> disjoint[<<a, b>>]
              /\ \A a, b \in Ids(arena) :
                    disjoint[<<a, b>>]
                    <=> NodesDisjoint(disjoint, a, b, Get(arena, a), Get(arena, b))
<1> DEFINE D == IdPairs(arena)
           step(d, pair) == NodesDisjoint(d, pair[1], pair[2], Get(arena, pair[1]), Get(arena, pair[2]))
           disjoint == CHOOSE d : d = [pair \in D |-> step(d, pair)]
<1>1. \A a, b \in Ids(arena) : Disjoint(arena, a, b) <=> disjoint[<<a, b>>]
  BY DEF Disjoint
<1>2. PICK L : L = Largest(D, Separated(arena))
  OBVIOUS
<1>3. L \in SUBSET D /\ Separated(arena)[L] = L
  BY <1>2, SeparatedIsMonotone, LargestFacts
<1>4. PICK found : found = Among(arena, L)
  OBVIOUS
<1>5. \A pair \in D : (pair \in L) = step(found, pair)
  <2>1. \A pair \in D : pair \in L <=> step(found, pair)
    BY <1>3, <1>4 DEF Separated
  <2>2. \A pair \in D : step(found, pair) \in BOOLEAN
    BY DEF NodesDisjoint
  <2> HIDE DEF step
  <2> QED
    BY <2>1, <2>2
<1> HIDE DEF step
<1>6. found = [pair \in D |-> step(found, pair)]
  <2>1. found = [pair \in D |-> pair \in L]
    BY <1>4 DEF Among
  <2> QED
    BY <1>5, <2>1, Zenon
<1>7. disjoint = [pair \in D |-> step(disjoint, pair)]
  BY <1>6
<1> HIDE DEF disjoint
<1>8. ASSUME NEW a \in Ids(arena), NEW b \in Ids(arena)
      PROVE  disjoint[<<a, b>>] <=> NodesDisjoint(disjoint, a, b, Get(arena, a), Get(arena, b))
  <2>1. <<a, b>> \in D
    BY DEF IdPairs
  <2>2. disjoint[<<a, b>>] = step(disjoint, <<a, b>>)
    BY <1>7, <2>1
  <2> QED
    BY <2>2 DEF step
<1> QED
  BY <1>1, <1>8

-----------------------------------------------------------------------------
(* Values.                                                                 *)

(* Values whose parts are values less deep.                                *)
AreValues(values, depth) ==
    \A v \in values : /\ v.kind \in ValueKinds /\ depth[v] \in Nat
                      /\ \A part \in ValueParts(v) : part \in values /\ depth[part] < depth[v]

(* Which values the types of an arena have, its parameters standing for    *)
(* the values given.                                                       *)
Means(arena, values, given, has) ==
    \A v \in values : \A id \in Ids(arena) :
        <<v, id>> \in has
        <=> HasNode(LAMBDA w, part : <<w, part>> \in has, LAMBDA w, p : w \in given[p],
                    v, Get(arena, id))

LEMMA HasUnfolds ==
    ASSUME NEW arena, NEW values, NEW given, NEW has, Means(arena, values, given, has),
           NEW v \in values, NEW id \in Ids(arena), NEW x, x = Get(arena, id)
    PROVE  /\ x.kind = "primitive" => (<<v, id>> \in has <=> OfPrimitive(v, x.name))
           /\ x.kind = "literal" => (<<v, id>> \in has <=> v.kind = x.base /\ v.literal = x.value)
           /\ x.kind = "array" =>
                 (<<v, id>> \in has
                  <=> v.kind = "array" /\ \A e \in v.elements : <<e, x.element>> \in has)
           /\ x.kind = "object" =>
                 (<<v, id>> \in has
                  <=> /\ HasFields(v, DOMAIN x.properties)
                      /\ \A name \in DOMAIN x.properties :
                            IF v.kind = "object" /\ name \in DOMAIN v.fields
                            THEN <<v.fields[name], x.properties[name].type>> \in has
                            ELSE x.properties[name].optional)
           /\ x.kind = "union" =>
                 (<<v, id>> \in has <=> \E i \in DOMAIN x.members : <<v, x.members[i]>> \in has)
           /\ x.kind = "intersection" =>
                 (<<v, id>> \in has <=> \A i \in DOMAIN x.members : <<v, x.members[i]>> \in has)
           /\ x.kind = "function" => <<v, id>> \notin has
<1>1. <<v, id>> \in has
      <=> HasNode(LAMBDA w, part : <<w, part>> \in has, LAMBDA w, p : w \in given[p], v, x)
  BY DEF Means
<1>2. CASE x.kind = "primitive"
  BY <1>1, <1>2 DEF HasNode
<1>3. CASE x.kind = "literal"
  BY <1>1, <1>3 DEF HasNode
<1>4. CASE x.kind = "array"
  BY <1>1, <1>4 DEF HasNode
<1>5. CASE x.kind = "object"
  BY <1>1, <1>5 DEF HasNode
<1>6. CASE x.kind = "union"
  BY <1>1, <1>6 DEF HasNode
<1>7. CASE x.kind = "intersection"
  BY <1>1, <1>7 DEF HasNode
<1>8. CASE x.kind = "function"
  BY <1>1, <1>8 DEF HasNode
<1> QED
  BY <1>2, <1>3, <1>4, <1>5, <1>6, <1>7, <1>8

(* A type that is not opened is as low as can be.                          *)
Height(arena, id) == IF Wraps(Get(arena, id)) THEN Behind(arena, id) ELSE 0

LEMMA HeightFacts ==
    ASSUME NEW arena, IsReadable(arena), IsGrounded(arena), NEW id \in Ids(arena)
    PROVE  /\ Height(arena, id) \in Nat
           /\ PartTypes(Get(arena, id)) \subseteq Ids(arena)
           /\ Wraps(Get(arena, id)) =>
                 \A part \in PartTypes(Get(arena, id)) : Height(arena, part) < Height(arena, id)
<1>1. Behind(arena, id) \in Nat \ {0}
  BY DEF IsReadable, IsGrounded
<1>2. PICK x : x = Get(arena, id)
  OBVIOUS
<1>3. x \in Node(Ids(arena), Slots(arena))
  BY <1>2, ReadsNode
<1>4. PartTypes(x) \subseteq Ids(arena)
  <2>1. CASE x.kind = "array"
    BY <1>3, <2>1, NodeParts DEF PartTypes
  <2>2. CASE x.kind = "object"
    BY <1>3, <2>2, NodeParts, PropertyIsTyped DEF PartTypes
  <2>3. CASE x.kind \in {"union", "intersection"}
    BY <1>3, <2>3, NodeParts, MembersAre DEF PartTypes
  <2>4. CASE x.kind = "parameter"
    BY <1>3, <2>4, NodeParts DEF PartTypes
  <2>5. CASE x.kind \notin {"array", "object", "union", "intersection", "parameter"}
    BY <2>5 DEF PartTypes
  <2> QED
    BY <2>1, <2>2, <2>3, <2>4, <2>5
<1>5. ASSUME Wraps(x), NEW part \in PartTypes(x) PROVE Height(arena, part) < Height(arena, id)
  <2>1. Wraps(Get(arena, part)) => Behind(arena, part) < Behind(arena, id)
    BY <1>2, <1>4, <1>5 DEF IsGrounded
  <2>2. Height(arena, id) = Behind(arena, id)
    BY <1>2, <1>5 DEF Height
  <2>3. Behind(arena, part) \in Nat
    BY <1>4, <1>5 DEF IsReadable, IsGrounded
  <2> QED
    BY <1>1, <2>1, <2>2, <2>3 DEF Height
<1>6. Height(arena, id) \in Nat
  BY <1>1 DEF Height
<1> QED
  BY <1>2, <1>4, <1>5, <1>6

(* The one kind of value of a type that has a domain.                      *)
LEMMA DomainIsKind ==
    ASSUME NEW arena, IsReadable(arena), NEW values, NEW depth, AreValues(values, depth),
           NEW given, NEW has, Means(arena, values, given, has),
           NEW v \in values, NEW id \in Ids(arena), <<v, id>> \in has,
           NEW x, x = Get(arena, id)
    PROVE  /\ PrimitiveDomain(x) # NoDomain => v.kind = PrimitiveDomain(x)
           /\ x.kind = "literal" => v.literal = x.value
           /\ ~Named(x, {"never"})
<1>1. x \in Node(Ids(arena), Slots(arena))
  BY ReadsNode
<1>2. /\ x.kind = "primitive" => OfPrimitive(v, x.name)
      /\ x.kind = "literal" => v.kind = x.base /\ v.literal = x.value
  BY HasUnfolds
<1>3. v.kind \in ValueKinds
  BY DEF AreValues
<1>4. ~Named(x, {"never"})
  BY <1>2, <1>3 DEF Named, OfPrimitive, ValueKinds
<1>5. PrimitiveDomain(x) # NoDomain => v.kind = PrimitiveDomain(x)
  BY <1>2 DEF PrimitiveDomain, NoDomain, Named, OfPrimitive
<1> QED
  BY <1>2, <1>4, <1>5

(* is_disjoint is never wrong: no value has both types, however they       *)
(* recurse and whatever the parameters stand for.                          *)
THEOREM DisjointShareNothing ==
    ASSUME NEW arena, IsReadable(arena), IsGrounded(arena),
           NEW values, NEW depth, AreValues(values, depth),
           NEW given, NEW has, Means(arena, values, given, has),
           NEW a \in Ids(arena), NEW b \in Ids(arena), Disjoint(arena, a, b), NEW v \in values
    PROVE  ~(<<v, a>> \in has /\ <<v, b>> \in has)
<1> DEFINE Shared_(c, d) == Disjoint(arena, c, d) /\ <<v, c>> \in has /\ <<v, d>> \in has
           H(id) == Height(arena, id)
           Sums == {n \in Nat : \E c, d \in Ids(arena) : Shared_(c, d) /\ n = H(c) + H(d)}
<1>1. SUFFICES ASSUME Shared_(a, b) PROVE FALSE
  OBVIOUS
<1>2. \A id \in Ids(arena) : H(id) \in Nat
  BY HeightFacts
<1>3. /\ Sums \subseteq Nat
      /\ \A e, f \in Ids(arena) : Shared_(e, f) => H(e) + H(f) \in Sums
  <2>1. \A e, f \in Ids(arena) : H(e) + H(f) \in Nat
    BY <1>2
  <2> HIDE DEF H, Shared_
  <2> QED
    BY <2>1
<1>4. PICK least \in Sums : \A n \in Sums : least <= n
  <2> HIDE DEF Sums
  <2>1. Sums # {}
    BY <1>1, <1>3
  <2> QED
    BY <1>3, <2>1, LeastNumber
<1>5. PICK c \in Ids(arena), d \in Ids(arena) : Shared_(c, d) /\ least = H(c) + H(d)
  BY <1>4
<1>6. ASSUME NEW e \in Ids(arena), NEW f \in Ids(arena), Shared_(e, f), H(e) + H(f) < least
      PROVE  FALSE
  <2>1. H(e) + H(f) \in Sums
    BY <1>3, <1>6
  <2> HIDE DEF Sums, H
  <2>2. least <= H(e) + H(f) /\ least \in Nat /\ H(e) + H(f) \in Nat
    BY <1>3, <1>4, <2>1
  <2> QED
    BY <1>6, <2>2
<1>7. PICK disjoint :
         /\ \A e, f \in Ids(arena) : Disjoint(arena, e, f) <=> disjoint[<<e, f>>]
         /\ \A e, f \in Ids(arena) :
               disjoint[<<e, f>>] <=> NodesDisjoint(disjoint, e, f, Get(arena, e), Get(arena, f))
  BY DisjointUnfolds
<1>8. PICK x, y : x = Get(arena, c) /\ y = Get(arena, d)
  OBVIOUS
<1>9. NodesDisjoint(disjoint, c, d, x, y)
  BY <1>5, <1>7, <1>8
<1> HIDE DEF Sums
<1>10. ~Named(x, {"never"}) /\ ~Named(y, {"never"})
  BY <1>5, <1>8, DomainIsKind
<1>11. x \in Node(Ids(arena), Slots(arena)) /\ y \in Node(Ids(arena), Slots(arena))
  BY <1>8, ReadsNode
<1>12. CASE x.kind = "union"
  <2>1. PICK i \in DOMAIN x.members : <<v, x.members[i]>> \in has
    BY <1>5, <1>8, <1>12, HasUnfolds
  <2>2. PICK m : m = x.members[i]
    OBVIOUS
  <2>3. Wraps(x) /\ m \in PartTypes(x)
    BY <1>12, <2>1, <2>2 DEF Wraps, PartTypes
  <2>4. m \in Ids(arena) /\ H(m) < H(c)
    BY <1>8, <2>3, HeightFacts
  <2>5. disjoint[<<m, d>>]
    BY <1>9, <1>10, <1>12, <2>1, <2>2 DEF NodesDisjoint
  <2>6. Shared_(m, d)
    BY <1>5, <1>7, <2>1, <2>2, <2>4, <2>5
  <2>7. H(m) + H(d) < least
    <3>1. H(m) \in Nat /\ H(c) \in Nat /\ H(d) \in Nat
      BY <1>2, <2>4
    <3> HIDE DEF H
    <3> QED
      BY <1>5, <2>4, <3>1
  <2> QED
    BY <1>6, <2>4, <2>6, <2>7
<1>13. CASE x.kind # "union" /\ y.kind = "union"
  <2>1. PICK i \in DOMAIN y.members : <<v, y.members[i]>> \in has
    BY <1>5, <1>8, <1>13, HasUnfolds
  <2>2. PICK m : m = y.members[i]
    OBVIOUS
  <2>3. Wraps(y) /\ m \in PartTypes(y)
    BY <1>13, <2>1, <2>2 DEF Wraps, PartTypes
  <2>4. m \in Ids(arena) /\ H(m) < H(d)
    BY <1>8, <2>3, HeightFacts
  <2>5. disjoint[<<c, m>>]
    BY <1>9, <1>10, <1>13, <2>1, <2>2 DEF NodesDisjoint
  <2>6. Shared_(c, m)
    BY <1>5, <1>7, <2>1, <2>2, <2>4, <2>5
  <2>7. H(c) + H(m) < least
    <3>1. H(m) \in Nat /\ H(c) \in Nat /\ H(d) \in Nat
      BY <1>2, <2>4
    <3> HIDE DEF H
    <3> QED
      BY <1>5, <2>4, <3>1
  <2> QED
    BY <1>6, <2>4, <2>6, <2>7
<1>14. CASE x.kind # "union" /\ y.kind # "union"
  <2>1. /\ NoDomain \notin {PrimitiveDomain(x), PrimitiveDomain(y)}
        /\ ValuesApart(x, y)
    BY <1>9, <1>10, <1>14 DEF NodesDisjoint
  <2>2. /\ v.kind = PrimitiveDomain(x) /\ v.kind = PrimitiveDomain(y)
        /\ x.kind = "literal" => v.literal = x.value
        /\ y.kind = "literal" => v.literal = y.value
    BY <1>5, <1>8, <2>1, DomainIsKind
  <2>3. x.kind = "literal" /\ y.kind = "literal" /\ x # y
    BY <2>1, <2>2 DEF ValuesApart
  <2>4. x.base = y.base /\ x.value = y.value
    BY <2>2, <2>3 DEF PrimitiveDomain
  <2>5. /\ x = [kind |-> x.kind, base |-> x.base, value |-> x.value]
        /\ y = [kind |-> y.kind, base |-> y.base, value |-> y.value]
    BY <1>11, <2>3 DEF Node
  <2> QED
    BY <2>3, <2>4, <2>5
<1> QED
  BY <1>12, <1>13, <1>14

-----------------------------------------------------------------------------
(* Subtyping and values.                                                   *)

(* is_subtype unfolds once, into what it says of the parts.                *)
LEMMA SubtypeUnfolds ==
    ASSUME NEW arena, IsReadable(arena), NEW a \in Ids(arena), NEW b \in Ids(arena),
           Subtype(arena, a, b)
    PROVE  \E relates :
              /\ \A c, d \in Ids(arena) : relates[<<c, d>>] => Subtype(arena, c, d)
              /\ \/ Trivial(arena, a, b)
                 \/ NodesRelate(arena, relates, a, b, Get(arena, a), Get(arena, b))
<1>1. PICK held \in SUBSET IdPairs(arena) : <<a, b>> \in held /\ Allowed(arena, held)
  BY SubtypeIsLargest
<1>2. PICK relates : relates = Among(arena, held)
  OBVIOUS
<1>3. ASSUME NEW c \in Ids(arena), NEW d \in Ids(arena), relates[<<c, d>>]
      PROVE  Subtype(arena, c, d)
  <2>1. <<c, d>> \in held
    BY <1>2, <1>3 DEF Among, IdPairs
  <2> QED
    BY <1>1, <2>1, SubtypeIsLargest
<1>4. Trivial(arena, a, b) \/ NodesRelate(arena, relates, a, b, Get(arena, a), Get(arena, b))
  BY <1>1, <1>2 DEF Allowed, Rules
<1> QED
  BY <1>3, <1>4

(* A value of an intersection has every property one of its members        *)
(* requires.                                                               *)
LEMMA ClashIsEmpty ==
    ASSUME NEW arena, IsReadable(arena), IsGrounded(arena),
           NEW values, NEW depth, AreValues(values, depth),
           NEW given, NEW has, Means(arena, values, given, has),
           NEW id \in Ids(arena), NEW x, x = Get(arena, id), MembersClash(arena, x),
           \A m \in PartTypes(x) : ~HasOptional(Get(arena, m)),
           NEW v \in values
    PROVE  <<v, id>> \notin has
<1> SUFFICES ASSUME <<v, id>> \in has PROVE FALSE
  OBVIOUS
<1>1. x.kind = "intersection"
  BY DEF MembersClash
<1>2. PICK i \in DOMAIN x.members, j \in DOMAIN x.members :
         Clash(arena, Get(arena, x.members[i]), Get(arena, x.members[j]))
  BY DEF MembersClash
<1>3. PICK c, d : c = x.members[i] /\ d = x.members[j]
  OBVIOUS
<1>4. c \in PartTypes(x) /\ d \in PartTypes(x)
  BY <1>1, <1>3 DEF PartTypes
<1>5. c \in Ids(arena) /\ d \in Ids(arena)
  BY <1>4, HeightFacts
<1>6. <<v, c>> \in has /\ <<v, d>> \in has
  BY <1>1, <1>3, HasUnfolds
<1>7. PICK y, z : y = Get(arena, c) /\ z = Get(arena, d)
  OBVIOUS
<1>8. /\ y.kind = "object" /\ z.kind = "object"
      /\ \E name \in DOMAIN y.properties \cap DOMAIN z.properties :
            Disjoint(arena, y.properties[name].type, z.properties[name].type)
  BY <1>2, <1>3, <1>7 DEF Clash
<1>9. PICK name \in DOMAIN y.properties \cap DOMAIN z.properties :
         Disjoint(arena, y.properties[name].type, z.properties[name].type)
  BY <1>8
<1>10. ~y.properties[name].optional /\ ~z.properties[name].optional
  BY <1>4, <1>7, <1>8, <1>9 DEF HasOptional
<1>11. PICK p, q : p = y.properties[name].type /\ q = z.properties[name].type
  OBVIOUS
<1>12. p \in Ids(arena) /\ q \in Ids(arena)
  <2>1. p \in PartTypes(y) /\ q \in PartTypes(z)
    BY <1>8, <1>9, <1>11 DEF PartTypes
  <2> QED
    BY <1>5, <1>7, <2>1, HeightFacts
<1>13. /\ v.kind = "object" /\ name \in DOMAIN v.fields
       /\ <<v.fields[name], p>> \in has
  BY <1>5, <1>6, <1>7, <1>8, <1>9, <1>10, <1>11, HasUnfolds DEF HasFields
<1>14. <<v.fields[name], q>> \in has
  BY <1>5, <1>6, <1>7, <1>8, <1>9, <1>10, <1>11, <1>13, HasUnfolds
<1>15. v.fields[name] \in values
  BY <1>13 DEF AreValues, ValueParts
<1> QED
  BY <1>9, <1>11, <1>12, <1>13, <1>14, <1>15, DisjointShareNothing

(* A parameter stands for values of its bound.                             *)
KeepsBounds(arena, values, has) ==
    \A id \in Ids(arena) :
        LET node == Get(arena, id)
        IN  node.kind = "parameter" /\ node.bound # NoBound =>
              \A v \in values : <<v, id>> \in has => <<v, node.bound>> \in has

(* What is said of a value's parts, and of types that are opened.          *)
PassedOn(arena, has, from, to, v) ==
    \A c \in from : \A d \in to :
        Subtype(arena, c, d) /\ <<v, c>> \in has => <<v, d>> \in has

LEMMA SubtypeStep ==
    ASSUME NEW arena, IsReadable(arena), IsGrounded(arena),
           NEW values, NEW depth, AreValues(values, depth),
           NEW given, NEW has, Means(arena, values, given, has), KeepsBounds(arena, values, has),
           NEW from, NEW to, IsClosed(arena, from), IsClosed(arena, to), Comparable(arena, from, to),
           NEW a \in from, NEW b \in to, Subtype(arena, a, b), NEW v \in values, <<v, a>> \in has,
           \A w \in values : depth[w] < depth[v] => PassedOn(arena, has, from, to, w),
           \A c \in from : \A d \in to :
              /\ Height(arena, c) + Height(arena, d) < Height(arena, a) + Height(arena, b)
              /\ Subtype(arena, c, d) /\ <<v, c>> \in has
              => <<v, d>> \in has
    PROVE  <<v, b>> \in has
<1>1. a \in Ids(arena) /\ b \in Ids(arena) /\ from \subseteq Ids(arena) /\ to \subseteq Ids(arena)
  BY DEF IsClosed
<1>2. PICK relates :
         /\ \A c, d \in Ids(arena) : relates[<<c, d>>] => Subtype(arena, c, d)
         /\ \/ Trivial(arena, a, b)
            \/ NodesRelate(arena, relates, a, b, Get(arena, a), Get(arena, b))
  BY <1>1, SubtypeUnfolds
<1>3. PICK x, y : x = Get(arena, a) /\ y = Get(arena, b)
  OBVIOUS
<1>4. x \in Node(Ids(arena), Slots(arena)) /\ y \in Node(Ids(arena), Slots(arena))
  BY <1>1, <1>3, ReadsNode
<1>5. PartTypes(x) \subseteq from /\ PartTypes(y) \subseteq to
  BY <1>3 DEF IsClosed
<1>6. /\ x.kind # "function" /\ ~Named(x, {"any", "error"})
      /\ MembersClash(arena, x) => \A m \in PartTypes(x) : ~HasOptional(Get(arena, m))
      /\ ~HasOptional(y)
  BY <1>3 DEF Comparable, IsDefinite, NothingOptional
(* Opening a type makes one of them lower.                                 *)
<1>7. ASSUME Wraps(x), NEW m \in PartTypes(x), relates[<<m, b>>], <<v, m>> \in has
      PROVE  <<v, b>> \in has
  <2>1. m \in from /\ m \in Ids(arena)
    BY <1>1, <1>5, <1>7
  <2>2. Height(arena, m) < Height(arena, a)
    BY <1>1, <1>3, <1>7, HeightFacts
  <2>3. Height(arena, m) \in Nat /\ Height(arena, a) \in Nat /\ Height(arena, b) \in Nat
    BY <1>1, <2>1, HeightFacts
  <2>4. Height(arena, m) + Height(arena, b) < Height(arena, a) + Height(arena, b)
    BY <2>2, <2>3
  <2> QED
    BY <1>1, <1>2, <1>7, <2>1, <2>4
<1>8. ASSUME Wraps(y), NEW m \in PartTypes(y), relates[<<a, m>>]
      PROVE  <<v, m>> \in has
  <2>1. m \in to /\ m \in Ids(arena)
    BY <1>1, <1>5, <1>8
  <2>2. Height(arena, m) < Height(arena, b)
    BY <1>1, <1>3, <1>8, HeightFacts
  <2>3. Height(arena, m) \in Nat /\ Height(arena, a) \in Nat /\ Height(arena, b) \in Nat
    BY <1>1, <2>1, HeightFacts
  <2>4. Height(arena, a) + Height(arena, m) < Height(arena, a) + Height(arena, b)
    BY <2>2, <2>3
  <2> QED
    BY <1>1, <1>2, <1>8, <2>1, <2>4
(* A part of the value has a part of the type.                             *)
<1>9. ASSUME NEW w \in ValueParts(v), NEW p \in from, NEW q \in to, relates[<<p, q>>],
             <<w, p>> \in has
      PROVE  <<w, q>> \in has
  <2>1. w \in values /\ depth[w] < depth[v]
    BY <1>9 DEF AreValues
  <2>2. Subtype(arena, p, q)
    BY <1>1, <1>2, <1>9
  <2> QED
    BY <1>9, <2>1, <2>2 DEF PassedOn
<1>10. CASE Trivial(arena, a, b)
  <2>1. CASE a = b
    BY <2>1
  <2>2. CASE Named(y, {"any", "error"})
    BY <1>1, <1>3, <2>2, HasUnfolds DEF Named, OfPrimitive
  <2> QED
    BY <1>3, <1>6, <1>10, <2>1, <2>2 DEF Trivial
<1>11. CASE \/ Named(y, {"unknown"}) \/ Named(x, {"never"})
            \/ Named(x, {"undefined"}) /\ Named(y, {"void"})
            \/ MembersClash(arena, x)
            \/ x.kind = "literal" /\ (x = y \/ Named(y, {x.base}))
  <2>1. CASE Named(y, {"unknown"})
    BY <1>1, <1>3, <2>1, HasUnfolds DEF Named, OfPrimitive
  <2>2. CASE Named(x, {"never"})
    BY <1>1, <1>3, <2>2, DomainIsKind
  <2>3. CASE Named(x, {"undefined"}) /\ Named(y, {"void"})
    BY <1>1, <1>3, <2>3, HasUnfolds DEF Named, OfPrimitive
  <2>4. CASE MembersClash(arena, x)
    BY <1>1, <1>3, <1>6, <2>4, ClashIsEmpty
  <2>5. CASE x.kind = "literal" /\ x = y
    <3>1. x.kind = "literal" /\ y.kind = "literal" /\ x.base = y.base /\ x.value = y.value
      BY <2>5
    <3>2. v.kind = x.base /\ v.literal = x.value
      BY <1>1, <1>3, <3>1, HasUnfolds
    <3> QED
      BY <1>1, <1>3, <3>1, <3>2, HasUnfolds
  <2>6. CASE x.kind = "literal" /\ Named(y, {x.base})
    <3>1. v.kind = x.base
      BY <1>1, <1>3, <2>6, HasUnfolds
    <3>2. y.kind = "primitive" /\ y.name = x.base /\ x.base # "void"
      BY <1>4, <2>6 DEF Named, Node
    <3> QED
      BY <1>1, <1>3, <3>1, <3>2, HasUnfolds DEF OfPrimitive
  <2> QED
    BY <1>11, <2>1, <2>2, <2>3, <2>4, <2>5, <2>6
<1>12. CASE x.kind = "parameter" /\ x.bound # NoBound /\ relates[<<x.bound, b>>]
  <2>1. Wraps(x) /\ x.bound \in PartTypes(x)
    BY <1>12 DEF Wraps, PartTypes
  <2>2. <<v, x.bound>> \in has
    BY <1>1, <1>3, <1>12 DEF KeepsBounds
  <2> QED
    BY <1>7, <1>12, <2>1, <2>2
<1>13. CASE x.kind = "union" /\ \A i \in DOMAIN x.members : relates[<<x.members[i], b>>]
  <2>1. PICK i \in DOMAIN x.members : <<v, x.members[i]>> \in has
    BY <1>1, <1>3, <1>13, HasUnfolds
  <2>2. Wraps(x) /\ x.members[i] \in PartTypes(x)
    BY <1>13, <2>1 DEF Wraps, PartTypes
  <2> QED
    BY <1>7, <1>13, <2>1, <2>2
<1>14. CASE y.kind = "intersection" /\ \A i \in DOMAIN y.members : relates[<<a, y.members[i]>>]
  <2>1. ASSUME NEW i \in DOMAIN y.members PROVE <<v, y.members[i]>> \in has
    <3>1. Wraps(y) /\ y.members[i] \in PartTypes(y)
      BY <1>14, <2>1 DEF Wraps, PartTypes
    <3> QED
      BY <1>8, <1>14, <2>1, <3>1
  <2> QED
    BY <1>1, <1>3, <1>14, <2>1, HasUnfolds
<1>15. CASE y.kind = "union" /\ \E i \in DOMAIN y.members : relates[<<a, y.members[i]>>]
  <2>1. PICK i \in DOMAIN y.members : relates[<<a, y.members[i]>>]
    BY <1>15
  <2>2. Wraps(y) /\ y.members[i] \in PartTypes(y)
    BY <1>15, <2>1 DEF Wraps, PartTypes
  <2>3. <<v, y.members[i]>> \in has
    BY <1>8, <2>1, <2>2
  <2> QED
    BY <1>1, <1>3, <1>15, <2>1, <2>3, HasUnfolds
<1>16. CASE x.kind = "intersection" /\ \E i \in DOMAIN x.members : relates[<<x.members[i], b>>]
  <2>1. PICK i \in DOMAIN x.members : relates[<<x.members[i], b>>]
    BY <1>16
  <2>2. Wraps(x) /\ x.members[i] \in PartTypes(x)
    BY <1>16, <2>1 DEF Wraps, PartTypes
  <2>3. <<v, x.members[i]>> \in has
    BY <1>1, <1>3, <1>16, <2>1, HasUnfolds
  <2> QED
    BY <1>7, <2>1, <2>2, <2>3
<1>17. CASE x.kind = "array" /\ y.kind = "array" /\ relates[<<x.element, y.element>>]
  <2>1. v.kind = "array" /\ \A e \in v.elements : <<e, x.element>> \in has
    BY <1>1, <1>3, <1>17, HasUnfolds
  <2>2. x.element \in from /\ y.element \in to /\ ValueParts(v) = v.elements
    BY <1>5, <1>17, <2>1 DEF PartTypes, ValueParts
  <2>3. \A e \in v.elements : <<e, y.element>> \in has
    BY <1>9, <1>17, <2>1, <2>2
  <2> QED
    BY <1>1, <1>3, <1>17, <2>1, <2>3, HasUnfolds
(* An object that has every property asked for.                            *)
<1>18. ASSUME y.kind = "object", v.kind \in {"object", "array"},
              \A name \in DOMAIN y.properties :
                 /\ v.kind = "object" /\ name \in DOMAIN v.fields
                 /\ \E p \in from : /\ <<v.fields[name], p>> \in has
                                    /\ PropertyRelates(arena, relates, p, y.properties[name])
       PROVE  <<v, b>> \in has
  <2>1. ASSUME NEW name \in DOMAIN y.properties
        PROVE  <<v.fields[name], y.properties[name].type>> \in has
    <3>1. PICK p \in from : /\ <<v.fields[name], p>> \in has
                            /\ PropertyRelates(arena, relates, p, y.properties[name])
      BY <1>18, <2>1
    <3>2. PICK wanted : wanted = y.properties[name]
      OBVIOUS
    <3>3. wanted.type \in to
      BY <1>5, <1>18, <2>1, <3>2 DEF PartTypes
    <3>4. Get(arena, p).kind # "function"
      BY DEF Comparable, IsDefinite
    <3>5. relates[<<p, wanted.type>>]
      BY <3>1, <3>2, <3>4 DEF PropertyRelates
    <3>6. v.fields[name] \in ValueParts(v)
      BY <1>18, <2>1 DEF ValueParts
    <3> QED
      BY <1>9, <3>1, <3>2, <3>3, <3>5, <3>6
  <2>2. HasFields(v, DOMAIN y.properties)
    BY <1>18 DEF HasFields
  <2> QED
    BY <1>1, <1>3, <1>18, <2>1, <2>2, HasUnfolds
<1>19. CASE x.kind = "object" /\ y.kind = "object" /\ ObjectRelates(arena, relates, x, y)
  <2>1. /\ HasFields(v, DOMAIN x.properties)
        /\ \A name \in DOMAIN x.properties :
              IF v.kind = "object" /\ name \in DOMAIN v.fields
              THEN <<v.fields[name], x.properties[name].type>> \in has
              ELSE x.properties[name].optional
    BY <1>1, <1>3, <1>19, HasUnfolds
  <2>2. v.kind \in {"object", "array"}
    BY <2>1 DEF HasFields
  <2>3. ASSUME NEW name \in DOMAIN y.properties
        PROVE  /\ v.kind = "object" /\ name \in DOMAIN v.fields
               /\ \E p \in from : /\ <<v.fields[name], p>> \in has
                                  /\ PropertyRelates(arena, relates, p, y.properties[name])
    <3>1. ~y.properties[name].optional
      BY <1>6, <1>19, <2>3 DEF HasOptional
    <3>2. /\ name \in DOMAIN x.properties /\ ~x.properties[name].optional
          /\ PropertyRelates(arena, relates, x.properties[name].type, y.properties[name])
      BY <1>19, <2>3, <3>1 DEF ObjectRelates
    <3>3. x.properties[name].type \in from
      BY <1>5, <1>19, <3>2 DEF PartTypes
    <3> QED
      BY <2>1, <3>2, <3>3
  <2> QED
    BY <1>18, <1>19, <2>2, <2>3
<1>20. CASE /\ x.kind = "intersection" /\ y.kind = "object"
            /\ TogetherProvide(arena, relates, x.members, y)
  <2>1. \A i \in DOMAIN x.members : /\ <<v, x.members[i]>> \in has
                                    /\ x.members[i] \in from /\ x.members[i] \in Ids(arena)
    BY <1>1, <1>3, <1>5, <1>20, HasUnfolds DEF PartTypes
  (* What one of its objects says of a property.                           *)
  <2>2. ASSUME NEW name, NEW p \in Given({Get(arena, x.members[i]) : i \in DOMAIN x.members}, name)
        PROVE  /\ p.type \in from
               /\ IF v.kind = "object" /\ name \in DOMAIN v.fields
                  THEN <<v.fields[name], p.type>> \in has
                  ELSE p.optional
               /\ v.kind = "object"
    <3>1. PICK i \in DOMAIN x.members :
             LET z == Get(arena, x.members[i])
             IN  z.kind = "object" /\ name \in DOMAIN z.properties /\ p = z.properties[name]
      BY <2>2 DEF Given
    <3>2. PICK m, z : m = x.members[i] /\ z = Get(arena, m)
      OBVIOUS
    <3>3. /\ z.kind = "object" /\ name \in DOMAIN z.properties /\ p = z.properties[name]
          /\ <<v, m>> \in has /\ m \in from /\ m \in Ids(arena)
      BY <2>1, <3>1, <3>2
    <3>4. p.type \in from
      BY <3>2, <3>3 DEF IsClosed, PartTypes
    <3>5. /\ HasFields(v, DOMAIN z.properties)
          /\ \A n \in DOMAIN z.properties :
                IF v.kind = "object" /\ n \in DOMAIN v.fields
                THEN <<v.fields[n], z.properties[n].type>> \in has
                ELSE z.properties[n].optional
      BY <3>2, <3>3, HasUnfolds
    <3> QED
      BY <3>3, <3>4, <3>5 DEF HasFields
  <2>3. ASSUME NEW name \in DOMAIN y.properties
        PROVE  /\ v.kind = "object" /\ name \in DOMAIN v.fields
               /\ \E p \in from : /\ <<v.fields[name], p>> \in has
                                  /\ PropertyRelates(arena, relates, p, y.properties[name])
    <3>1. PICK held : held = Given({Get(arena, x.members[i]) : i \in DOMAIN x.members}, name)
      OBVIOUS
    <3>2. ~y.properties[name].optional
      BY <1>6, <1>20, <2>3 DEF HasOptional
    <3>3. Provided(arena, relates, held, y.properties[name])
      BY <1>20, <2>3, <3>1 DEF TogetherProvide
    <3>4. PICK p \in held : ~p.optional
      BY <3>2, <3>3 DEF Provided
    <3>5. PICK q \in held : PropertyRelates(arena, relates, q.type, y.properties[name])
      BY <3>3, <3>4 DEF Provided
    <3>6. v.kind = "object" /\ name \in DOMAIN v.fields
      BY <2>2, <3>1, <3>4
    <3>7. q.type \in from /\ <<v.fields[name], q.type>> \in has
      BY <2>2, <3>1, <3>5, <3>6
    <3> QED
      BY <3>5, <3>6, <3>7
  <2>4. v.kind \in {"object", "array"}
    <3>1. CASE DOMAIN y.properties # {}
      BY <2>3, <3>1
    <3>2. CASE DOMAIN y.properties = {}
      <4>1. ~IsBare(arena, a)
        BY <1>3, <1>20, <3>2 DEF Comparable, AsksNothing
      <4>2. PICK m \in PartTypes(x) : Get(arena, m).kind \in {"object", "array"}
        BY <1>3, <1>20, <4>1 DEF IsBare
      <4>3. m \in Ids(arena) /\ <<v, m>> \in has
        BY <1>20, <2>1, <4>2 DEF PartTypes
      <4> QED
        BY <4>2, <4>3, HasUnfolds DEF HasFields
    <3> QED
      BY <3>1, <3>2
  <2> QED
    BY <1>18, <1>20, <2>3, <2>4
<1> QED
  BY <1>2, <1>3, <1>6, <1>10, <1>11, <1>12, <1>13, <1>14, <1>15, <1>16, <1>17, <1>19, <1>20, ZenonT(40)
     DEF NodesRelate

(* What a value is passed on to, by how far types must be opened.          *)
LEMMA PassedOnStep ==
    ASSUME NEW arena, IsReadable(arena), IsGrounded(arena),
           NEW values, NEW depth, AreValues(values, depth),
           NEW given, NEW has, Means(arena, values, given, has), KeepsBounds(arena, values, has),
           NEW from, NEW to, IsClosed(arena, from), IsClosed(arena, to), Comparable(arena, from, to),
           NEW v \in values,
           \A w \in values : depth[w] < depth[v] => PassedOn(arena, has, from, to, w)
    PROVE  PassedOn(arena, has, from, to, v)
<1> DEFINE H(id) == Height(arena, id)
           Lost(c, d) == Subtype(arena, c, d) /\ <<v, c>> \in has /\ <<v, d>> \notin has
           Sums == {n \in Nat : \E c \in from : \E d \in to : Lost(c, d) /\ n = H(c) + H(d)}
<1>1. \A c \in from, d \in to : H(c) + H(d) \in Nat
  BY HeightFacts DEF IsClosed
<1> HIDE DEF H
<1>2. Sums # {} => \E least \in Sums : \A n \in Sums : least <= n
  <2>1. Sums \subseteq Nat
    OBVIOUS
  <2> HIDE DEF Sums
  <2> QED
    BY <2>1, LeastNumber
<1>3. ASSUME NEW a \in from, NEW b \in to, Lost(a, b),
             \A c \in from : \A d \in to : H(c) + H(d) < H(a) + H(b) => ~Lost(c, d)
      PROVE  FALSE
  <2>1. \A c \in from : \A d \in to :
           /\ Height(arena, c) + Height(arena, d) < Height(arena, a) + Height(arena, b)
           /\ Subtype(arena, c, d) /\ <<v, c>> \in has
           => <<v, d>> \in has
    BY <1>3 DEF H
  <2>2. Subtype(arena, a, b) /\ <<v, a>> \in has
    BY <1>3
  <2>3. <<v, b>> \in has
    BY <2>1, <2>2, SubtypeStep
  <2> QED
    BY <1>3, <2>3
<1>4. Sums = {}
  <2> SUFFICES ASSUME Sums # {} PROVE FALSE
    OBVIOUS
  <2>1. PICK least \in Sums : \A n \in Sums : least <= n
    BY <1>2
  <2>2. PICK a \in from, b \in to : Lost(a, b) /\ least = H(a) + H(b)
    BY <2>1
  <2> HIDE DEF Lost
  <2>3. ASSUME NEW c \in from, NEW d \in to, H(c) + H(d) < H(a) + H(b), Lost(c, d)
        PROVE  FALSE
    <3>1. H(c) + H(d) \in Nat /\ H(a) + H(b) \in Nat
      BY <1>1
    <3>2. H(c) + H(d) \in Sums
      BY <2>3, <3>1
    <3>3. least <= H(c) + H(d)
      BY <2>1, <3>2
    <3> QED
      BY <2>2, <2>3, <3>1, <3>3
  <2> QED
    BY <1>3, <2>2, <2>3
<1>5. \A c \in from, d \in to : ~Lost(c, d)
  <2> HIDE DEF Lost
  <2> QED
    BY <1>1, <1>4
<1> QED
  BY <1>5 DEF PassedOn

(* A value of a type is a value of every type is_subtype says it is        *)
(* assignable to, however the types recurse and whatever the parameters    *)
(* stand for within their bounds.                                          *)
THEOREM SubtypesAreSubsets ==
    ASSUME NEW arena, IsReadable(arena), IsGrounded(arena),
           NEW values, NEW depth, AreValues(values, depth),
           NEW given, NEW has, Means(arena, values, given, has), KeepsBounds(arena, values, has),
           NEW from, NEW to, IsClosed(arena, from), IsClosed(arena, to), Comparable(arena, from, to),
           NEW a \in from, NEW b \in to, Subtype(arena, a, b),
           NEW v \in values, <<v, a>> \in has
    PROVE  <<v, b>> \in has
<1> DEFINE P(w) == PassedOn(arena, has, from, to, w)
           Depths == {n \in Nat : \E w \in values : ~P(w) /\ n = depth[w]}
<1> HIDE DEF P
<1>1. \A w \in values : depth[w] \in Nat
  BY DEF AreValues
<1>2. ASSUME Depths # {} PROVE FALSE
  <2>1. PICK least \in Depths : \A n \in Depths : least <= n
    <3>1. Depths \subseteq Nat
      OBVIOUS
    <3> HIDE DEF Depths
    <3> QED
      BY <1>2, <3>1, LeastNumber
  <2>2. PICK w \in values : ~P(w) /\ least = depth[w]
    BY <2>1
  <2>3. ASSUME NEW u \in values, depth[u] < depth[w] PROVE P(u)
    <3>1. ~P(u) => depth[u] \in Depths
      BY <1>1
    <3> QED
      BY <1>1, <2>1, <2>2, <2>3, <3>1
  <2>4. P(w)
    BY <2>3, PassedOnStep DEF P
  <2> QED
    BY <2>2, <2>4
<1>3. P(v)
  BY <1>1, <1>2
<1> QED
  BY <1>3 DEF P, PassedOn

(* The two, for every set of values and every meaning of the types.        *)
SubtypesAreIncluded(arena) ==
    \A values, depth, given, has, from, to :
        /\ AreValues(values, depth)
        /\ Means(arena, values, given, has) /\ KeepsBounds(arena, values, has)
        /\ IsClosed(arena, from) /\ IsClosed(arena, to) /\ Comparable(arena, from, to)
        => \A a \in from : \A b \in to : Subtype(arena, a, b) =>
              \A v \in values : <<v, a>> \in has => <<v, b>> \in has

DisjointAreApart(arena) ==
    \A values, depth, given, has :
        AreValues(values, depth) /\ Means(arena, values, given, has)
        => \A a, b \in Ids(arena) : Disjoint(arena, a, b) =>
              \A v \in values : <<v, a>> \in has => <<v, b>> \notin has

(* There is such a relation between values and types, whatever the         *)
(* parameters stand for.                                                   *)
LEMMA MeaningExists ==
    ASSUME NEW arena, NEW values, NEW given
    PROVE  \E has \in SUBSET (values \X Ids(arena)) : Means(arena, values, given, has)
<1> DEFINE D == values \X Ids(arena)
           node(X, v, id) ==
              HasNode(LAMBDA w, part : <<w, part>> \in X, LAMBDA w, p : w \in given[p],
                      v, Get(arena, id))
           G == [X \in SUBSET D |-> {pair \in D : node(X, pair[1], pair[2])}]
<1>1. ASSUME NEW X, NEW Y, X \subseteq Y, NEW v, NEW id, node(X, v, id)
      PROVE  node(Y, v, id)
  BY <1>1 DEF HasNode
<1> HIDE DEF node
<1>2. IsMonotone(D, G)
  <2>1. \A X \in SUBSET D : G[X] = {pair \in D : node(X, pair[1], pair[2])}
    OBVIOUS
  <2>2. G = [X \in SUBSET D |-> G[X]]
    OBVIOUS
  <2> HIDE DEF G
  <2>3. \A X \in SUBSET D : G[X] \in SUBSET D
    BY <2>1
  <2>4. ASSUME NEW X \in SUBSET D, NEW Y \in SUBSET D, X \subseteq Y
        PROVE  G[X] \subseteq G[Y]
    BY <1>1, <2>1, <2>4
  <2> QED
    BY <2>2, <2>3, <2>4 DEF IsMonotone
<1>3. PICK has : has = Largest(D, G)
  OBVIOUS
<1>4. has \in SUBSET D /\ G[has] = has
  <2> HIDE DEF D, G
  <2> QED
    BY <1>2, <1>3, LargestFacts
<1>5. ASSUME NEW v \in values, NEW id \in Ids(arena) PROVE <<v, id>> \in has <=> node(has, v, id)
  BY <1>4
<1>6. Means(arena, values, given, has)
  BY <1>5 DEF Means, node
<1> QED
  BY <1>4, <1>6

-----------------------------------------------------------------------------
(* Functions.                                                              *)

(* A position past all parameters is that of the last one, if it is rest.  *)
LEMMA PastTheLast ==
    ASSUME NEW arena, NEW params, Len(params) \in Nat, NEW i \in Nat, NEW k \in Nat,
           k >= Len(params), i > k, ParamTypeAt(arena, params, i) # NoParam
    PROVE  /\ Len(params) # 0
           /\ ParamTypeAt(arena, params, k) = ParamTypeAt(arena, params, i)
<1>1. PICK last : last = Len(params)
  OBVIOUS
<1>2. ParamTypeAt(arena, params, i) = NoParam \/ (last # 0 /\ params[last].rest)
  BY <1>1 DEF ParamTypeAt
<1>3. last # 0 /\ params[last].rest
  BY <1>2
<1>4. PICK element : element = LET node == Get(arena, params[last].type)
                               IN IF node.kind = "array" THEN node.element ELSE params[last].type
  OBVIOUS
<1>5. ParamTypeAt(arena, params, i) = element
  BY <1>1, <1>3, <1>4 DEF ParamTypeAt
<1>6. ParamTypeAt(arena, params, k) = element
  <2>1. CASE k = last
    BY <1>1, <1>3, <1>4, <2>1 DEF ParamTypeAt
  <2>2. CASE k > last
    BY <1>1, <1>3, <1>4, <2>2 DEF ParamTypeAt
  <2> QED
    BY <1>1, <2>1, <2>2
<1> QED
  BY <1>1, <1>3, <1>5, <1>6

LEMMA RequiredIsNatural ==
    ASSUME NEW params, Len(params) \in Nat, DOMAIN params = 1 .. Len(params)
    PROVE  Required(params) \in Nat
<1> DEFINE asked == {i \in DOMAIN params : ~params[i].optional /\ ~params[i].rest}
<1>1. IsFiniteSet(1 .. Len(params))
  BY FS_Interval
<1>2. IsFiniteSet(asked)
  BY <1>1, FS_Subset
<1> QED
  BY <1>2, FS_CardinalityType DEF Required

(* A function used as another takes every list of arguments the other      *)
(* takes, and gives back nothing the other does not.                       *)
THEOREM FunctionsSubstitute ==
    ASSUME NEW arena, IsReadable(arena), IsGrounded(arena),
           NEW values, NEW depth, AreValues(values, depth),
           NEW given, NEW has, Means(arena, values, given, has), KeepsBounds(arena, values, has),
           NEW from, NEW to, IsClosed(arena, from), IsClosed(arena, to), Comparable(arena, from, to),
           NEW a \in Ids(arena), NEW b \in Ids(arena), Subtype(arena, a, b),
           NEW f, f = Get(arena, a), f.kind = "function", f.returns \in from,
           NEW g, g = Get(arena, b), g.kind = "function", g.returns \in to,
           \A i \in Nat \ {0} : /\ ParamTypeAt(arena, g.params, i) \in from \cup {NoParam}
                                /\ ParamTypeAt(arena, f.params, i) \in to \cup {NoParam}
    PROVE  /\ \A args \in Seq(values) :
                 TakesList(LAMBDA w, part : <<w, part>> \in has, arena, g, args, FALSE) =>
                    TakesList(LAMBDA w, part : <<w, part>> \in has, arena, f, args, TRUE)
           /\ \A v \in values : <<v, f.returns>> \in has => <<v, g.returns>> \in has
<1> DEFINE P(i) == ParamTypeAt(arena, f.params, i)
           Q(i) == ParamTypeAt(arena, g.params, i)
<1>1. PICK relates :
         /\ \A c, d \in Ids(arena) : relates[<<c, d>>] => Subtype(arena, c, d)
         /\ Trivial(arena, a, b) \/ NodesRelate(arena, relates, a, b, f, g)
  BY SubtypeUnfolds
<1>2. /\ f \in Node(Ids(arena), Slots(arena)) /\ f.params \in Seq(Param(Ids(arena)))
      /\ g \in Node(Ids(arena), Slots(arena)) /\ g.params \in Seq(Param(Ids(arena)))
  BY ReadsNode, NodeParts
<1>3. /\ Len(f.params) \in Nat /\ DOMAIN f.params = 1 .. Len(f.params)
      /\ Len(g.params) \in Nat /\ DOMAIN g.params = 1 .. Len(g.params)
  BY <1>2, MembersAre
<1>4. a = b \/ FunctionRelates(arena, relates, f, g, FALSE)
  <2>1. CASE Trivial(arena, a, b)
    BY <2>1 DEF Trivial, Named
  <2>2. CASE NodesRelate(arena, relates, a, b, f, g)
    BY <2>2 DEF NodesRelate, Named, MembersClash
  <2> QED
    BY <1>1, <2>1, <2>2
<1>5. CASE a = b
  BY <1>5 DEF TakesList
<1>6. CASE FunctionRelates(arena, relates, f, g, FALSE)
  <2>1. /\ Required(f.params) <= Required(g.params) /\ relates[<<f.returns, g.returns>>]
        /\ \A i \in DOMAIN f.params \cup DOMAIN g.params :
              P(i) = NoParam \/ Q(i) = NoParam \/ relates[<<Q(i), P(i)>>]
    BY <1>6 DEF FunctionRelates
  <2>2. \A i \in Nat \ {0} : Q(i) \in from \cup {NoParam} /\ P(i) \in to \cup {NoParam}
    OBVIOUS
  (* Past the last parameter of both, what is compared is the last one's.  *)
  <2>3. ASSUME NEW i \in Nat \ {0}, P(i) # NoParam, Q(i) # NoParam
        PROVE  \E k \in DOMAIN f.params \cup DOMAIN g.params : P(k) = P(i) /\ Q(k) = Q(i)
    <3>1. CASE i \in DOMAIN f.params \cup DOMAIN g.params
      BY <3>1
    <3>2. CASE i \notin DOMAIN f.params \cup DOMAIN g.params
      <4>1. PICK k \in Nat : /\ k \in {Len(f.params), Len(g.params)}
                             /\ k >= Len(f.params) /\ k >= Len(g.params)
        BY <1>3
      <4>2. i > k
        BY <1>3, <3>2, <4>1
      <4>3. Len(f.params) # 0 /\ P(k) = P(i)
        BY <1>3, <2>3, <4>1, <4>2, PastTheLast
      <4>4. Len(g.params) # 0 /\ Q(k) = Q(i)
        BY <1>3, <2>3, <4>1, <4>2, PastTheLast
      <4>5. k \in DOMAIN f.params \cup DOMAIN g.params
        BY <1>3, <4>1, <4>3, <4>4
      <4> QED
        BY <4>3, <4>4, <4>5
    <3> QED
      BY <3>1, <3>2
  <2> HIDE DEF P, Q
  <2>4. ASSUME NEW i \in Nat \ {0}, P(i) # NoParam, Q(i) # NoParam,
               NEW v \in values, <<v, Q(i)>> \in has
        PROVE  <<v, P(i)>> \in has
    <3>1. relates[<<Q(i), P(i)>>]
      <4>1. PICK k \in DOMAIN f.params \cup DOMAIN g.params : P(k) = P(i) /\ Q(k) = Q(i)
        BY <2>3, <2>4
      <4> QED
        BY <2>1, <2>4, <4>1
    <3>2. Q(i) \in from /\ P(i) \in to
      BY <2>2, <2>4
    <3>3. Subtype(arena, Q(i), P(i))
      BY <1>1, <3>1, <3>2 DEF IsClosed
    <3> QED
      BY <2>4, <3>2, <3>3, SubtypesAreSubsets
  <2>5. ASSUME NEW args \in Seq(values),
               TakesList(LAMBDA w, part : <<w, part>> \in has, arena, g, args, FALSE)
        PROVE  TakesList(LAMBDA w, part : <<w, part>> \in has, arena, f, args, TRUE)
    <3>1. /\ \A i \in DOMAIN args : Q(i) # NoParam /\ <<args[i], Q(i)>> \in has
          /\ Required(g.params) <= Len(args)
      BY <2>5 DEF TakesList, Q
    <3>2. Len(args) \in Nat /\ \A i \in DOMAIN args : i \in Nat \ {0} /\ args[i] \in values
      BY ElementOfSeq, LenProperties
    <3>3. \A i \in DOMAIN args : P(i) = NoParam \/ <<args[i], P(i)>> \in has
      BY <2>4, <3>1, <3>2
    <3>4. Required(f.params) <= Len(args)
      <4>1. Required(f.params) \in Nat /\ Required(g.params) \in Nat
        BY <1>3, RequiredIsNatural
      <4> QED
        BY <2>1, <3>1, <3>2, <4>1
    <3> QED
      BY <3>3, <3>4 DEF TakesList, P
  <2>6. ASSUME NEW v \in values, <<v, f.returns>> \in has PROVE <<v, g.returns>> \in has
    <3>1. Subtype(arena, f.returns, g.returns)
      BY <1>1, <2>1 DEF IsClosed
    <3> QED
      BY <2>6, <3>1, SubtypesAreSubsets
  <2> QED
    BY <2>5, <2>6
<1> QED
  BY <1>4, <1>5, <1>6

-----------------------------------------------------------------------------
(* Arenas that grow.                                                       *)

(* What one arena has reads the same in the other.                         *)
ReadsAlike(a, b) ==
    Ids(a) \subseteq Ids(b) /\ \A id \in Ids(a) : Get(b, id) = Get(a, id)

LEMMA DisjointOutlives ==
    ASSUME NEW a, IsReadable(a), IsGrounded(a), NEW b, IsReadable(b), ReadsAlike(a, b),
           NEW c \in Ids(a), NEW d \in Ids(a)
    PROVE  Disjoint(b, c, d) <=> Disjoint(a, c, d)
<1> DEFINE Differ(e, f) == ~ (Disjoint(b, e, f) <=> Disjoint(a, e, f))
           H(id) == Height(a, id)
           Sums == {n \in Nat : \E e, f \in Ids(a) : Differ(e, f) /\ n = H(e) + H(f)}
<1>1. SUFFICES ASSUME Differ(c, d) PROVE FALSE
  OBVIOUS
<1>2. \A id \in Ids(a) : H(id) \in Nat
  BY HeightFacts
<1>3. /\ Sums \subseteq Nat
      /\ \A e, f \in Ids(a) : Differ(e, f) => H(e) + H(f) \in Sums
  <2>1. \A e, f \in Ids(a) : H(e) + H(f) \in Nat
    BY <1>2
  <2> HIDE DEF H, Differ
  <2> QED
    BY <2>1
<1>4. PICK least \in Sums : \A n \in Sums : least <= n
  <2> HIDE DEF Sums
  <2>1. Sums # {}
    BY <1>1, <1>3
  <2> QED
    BY <1>3, <2>1, LeastNumber
<1>5. PICK e \in Ids(a), f \in Ids(a) : Differ(e, f) /\ least = H(e) + H(f)
  BY <1>4
<1>6. PICK x, y : x = Get(a, e) /\ y = Get(a, f)
  OBVIOUS
<1>7. PICK p : /\ \A g, h \in Ids(a) : Disjoint(a, g, h) <=> p[<<g, h>>]
               /\ \A g, h \in Ids(a) : p[<<g, h>>] <=> NodesDisjoint(p, g, h, Get(a, g), Get(a, h))
  BY DisjointUnfolds
<1>8. PICK q : /\ \A g, h \in Ids(b) : Disjoint(b, g, h) <=> q[<<g, h>>]
               /\ \A g, h \in Ids(b) : q[<<g, h>>] <=> NodesDisjoint(q, g, h, Get(b, g), Get(b, h))
  BY DisjointUnfolds
<1>9. /\ Disjoint(a, e, f) <=> NodesDisjoint(p, e, f, x, y)
      /\ Disjoint(b, e, f) <=> NodesDisjoint(q, e, f, x, y)
  BY <1>6, <1>7, <1>8 DEF ReadsAlike
<1>10. ASSUME NEW g \in Ids(a), NEW h \in Ids(a), H(g) + H(h) < H(e) + H(f)
       PROVE  p[<<g, h>>] <=> q[<<g, h>>]
  <2>1. ~ Differ(g, h)
    <3>1. H(g) + H(h) \in Nat /\ H(e) + H(f) \in Nat
      BY <1>2
    <3> HIDE DEF H, Differ, Sums
    <3> QED
      BY <1>3, <1>4, <1>5, <1>10, <3>1
  <2>2. g \in Ids(b) /\ h \in Ids(b)
    BY DEF ReadsAlike
  <2> QED
    BY <1>7, <1>8, <2>1, <2>2
<1>11. x.kind = "union" => \A i \in DOMAIN x.members : p[<<x.members[i], f>>] <=> q[<<x.members[i], f>>]
  <2> SUFFICES ASSUME x.kind = "union", NEW i \in DOMAIN x.members
               PROVE  p[<<x.members[i], f>>] <=> q[<<x.members[i], f>>]
    OBVIOUS
  <2>1. PICK m : m = x.members[i]
    OBVIOUS
  <2>2. m \in Ids(a) /\ H(m) < H(e)
    BY <1>6, <2>1, HeightFacts DEF PartTypes, Wraps
  <2>3. H(m) \in Nat /\ H(e) \in Nat /\ H(f) \in Nat
    BY <1>2, <2>2
  <2> HIDE DEF H
  <2>4. H(m) + H(f) < H(e) + H(f)
    BY <2>2, <2>3
  <2> QED
    BY <1>10, <2>1, <2>2, <2>4
<1>12. y.kind = "union" => \A i \in DOMAIN y.members : p[<<e, y.members[i]>>] <=> q[<<e, y.members[i]>>]
  <2> SUFFICES ASSUME y.kind = "union", NEW i \in DOMAIN y.members
               PROVE  p[<<e, y.members[i]>>] <=> q[<<e, y.members[i]>>]
    OBVIOUS
  <2>1. PICK m : m = y.members[i]
    OBVIOUS
  <2>2. m \in Ids(a) /\ H(m) < H(f)
    BY <1>6, <2>1, HeightFacts DEF PartTypes, Wraps
  <2>3. H(m) \in Nat /\ H(e) \in Nat /\ H(f) \in Nat
    BY <1>2, <2>2
  <2> HIDE DEF H
  <2>4. H(e) + H(m) < H(e) + H(f)
    BY <2>2, <2>3
  <2> QED
    BY <1>10, <2>1, <2>2, <2>4
<1>13. NodesDisjoint(p, e, f, x, y) <=> NodesDisjoint(q, e, f, x, y)
  BY <1>11, <1>12 DEF NodesDisjoint
<1> QED
  BY <1>5, <1>9, <1>13

LEMMA ClashOutlives ==
    ASSUME NEW a, IsReadable(a), IsGrounded(a), NEW b, IsReadable(b), ReadsAlike(a, b),
           NEW x \in Node(Ids(a), Slots(a))
    PROVE  MembersClash(b, x) <=> MembersClash(a, x)
<1>1. ASSUME NEW id \in Ids(a) PROVE IsUnit(b, id) <=> IsUnit(a, id)
  <2>1. PICK node : node = Get(a, id) /\ node = Get(b, id)
    BY <1>1 DEF ReadsAlike
  <2>2. node.kind = "union" =>
           \A i \in DOMAIN node.members : Get(b, node.members[i]) = Get(a, node.members[i])
    BY <2>1, ReadsNode, NodeParts, MembersAre DEF ReadsAlike
  <2> QED
    BY <2>1, <2>2 DEF IsUnit
<1>2. ASSUME NEW u \in Node(Ids(a), Slots(a)), NEW v \in Node(Ids(a), Slots(a))
      PROVE  Clash(b, u, v) <=> Clash(a, u, v)
  <2>1. /\ u.kind = "object" => \A name \in DOMAIN u.properties : u.properties[name].type \in Ids(a)
        /\ v.kind = "object" => \A name \in DOMAIN v.properties : v.properties[name].type \in Ids(a)
    BY <1>2, NodeParts, PropertyIsTyped
  <2>2. CASE u.kind = "object" /\ v.kind = "object"
    <3>1. ASSUME NEW name \in DOMAIN u.properties \cap DOMAIN v.properties
          PROVE  /\ Disjoint(b, u.properties[name].type, v.properties[name].type)
                    <=> Disjoint(a, u.properties[name].type, v.properties[name].type)
                 /\ IsUnit(b, u.properties[name].type) <=> IsUnit(a, u.properties[name].type)
                 /\ IsUnit(b, v.properties[name].type) <=> IsUnit(a, v.properties[name].type)
      <4>1. PICK s, t : s = u.properties[name].type /\ t = v.properties[name].type
        OBVIOUS
      <4>2. s \in Ids(a) /\ t \in Ids(a)
        BY <2>1, <2>2, <4>1
      <4> QED
        BY <1>1, <4>1, <4>2, DisjointOutlives
    <3>2. ASSUME NEW arena
          PROVE  Clash(arena, u, v) <=>
                    \E name \in DOMAIN u.properties \cap DOMAIN v.properties :
                       /\ Disjoint(arena, u.properties[name].type, v.properties[name].type)
                       /\ \/ IsUnit(arena, u.properties[name].type)
                          \/ IsUnit(arena, v.properties[name].type)
      BY <2>2, Zenon DEF Clash
    <3> QED
      BY <3>1, <3>2
  <2>3. CASE ~ (u.kind = "object" /\ v.kind = "object")
    BY <2>3 DEF Clash
  <2> QED
    BY <2>2, <2>3
<1>3. CASE x.kind = "intersection"
  <2>1. \A i \in DOMAIN x.members : x.members[i] \in Ids(a)
    BY <1>3, NodeParts, MembersAre
  <2>2. \A i, j \in DOMAIN x.members :
           Clash(b, Get(b, x.members[i]), Get(b, x.members[j]))
           <=> Clash(a, Get(a, x.members[i]), Get(a, x.members[j]))
    <3> TAKE i, j \in DOMAIN x.members
    <3>1. PICK u, v : u = Get(a, x.members[i]) /\ v = Get(a, x.members[j])
      OBVIOUS
    <3>2. u = Get(b, x.members[i]) /\ v = Get(b, x.members[j])
      BY <2>1, <3>1 DEF ReadsAlike
    <3>3. u \in Node(Ids(a), Slots(a)) /\ v \in Node(Ids(a), Slots(a))
      BY <2>1, <3>1, ReadsNode
    <3>4. Clash(b, u, v) <=> Clash(a, u, v)
      BY <1>2, <3>3
    <3> QED
      BY <3>1, <3>2, <3>4
  <2> QED
    BY <2>2 DEF MembersClash
<1>4. CASE x.kind # "intersection"
  BY <1>4 DEF MembersClash
<1> QED
  BY <1>3, <1>4

LEMMA ParamTypeOutlives ==
    ASSUME NEW a, IsReadable(a), NEW b, ReadsAlike(a, b),
           NEW params \in Seq(Param(Ids(a))), NEW i \in Nat \ {0}
    PROVE  ParamTypeAt(b, params, i) = ParamTypeAt(a, params, i)
<1> DEFINE last == Len(params)
           at == IF i <= last THEN i ELSE last
<1>1. last \in Nat /\ \A k \in 1 .. last : params[k] \in Param(Ids(a))
  BY MembersAre
<1>2. CASE last = 0 \/ (i > last /\ ~ params[last].rest)
  BY <1>2 DEF ParamTypeAt
<1>3. CASE ~ (last = 0 \/ (i > last /\ ~ params[last].rest))
  <2>1. at \in 1 .. last
    BY <1>1, <1>3
  <2>2. params[at].type \in Ids(a)
    BY <1>1, <2>1 DEF Param
  <2>3. PICK node : node = Get(a, params[at].type)
    OBVIOUS
  <2>4. node = Get(b, params[at].type)
    BY <2>2, <2>3 DEF ReadsAlike
  <2>5. ASSUME NEW arena, node = Get(arena, params[at].type)
        PROVE  ParamTypeAt(arena, params, i) =
                  IF params[at].rest
                  THEN IF node.kind = "array" THEN node.element ELSE params[at].type
                  ELSE params[at].type
    BY <1>3, <2>5, Zenon DEF ParamTypeAt
  <2>6. PICK type : type = IF params[at].rest
                           THEN IF node.kind = "array" THEN node.element ELSE params[at].type
                           ELSE params[at].type
    OBVIOUS
  <2>7. ParamTypeAt(a, params, i) = type
    BY <2>3, <2>5, <2>6
  <2>8. ParamTypeAt(b, params, i) = type
    BY <2>4, <2>5, <2>6
  <2> QED
    BY <2>7, <2>8
<1> QED
  BY <1>2, <1>3

(* The rules read what the types mention and nothing else.                 *)
LEMMA RulesOutlive ==
    ASSUME NEW a, IsReadable(a), IsGrounded(a), NEW b, IsReadable(b), ReadsAlike(a, b), NEW r,
           NEW c \in Ids(a), NEW d \in Ids(a),
           NEW x \in Node(Ids(a), Slots(a)), NEW y \in Node(Ids(a), Slots(a))
    PROVE  NodesRelate(b, r, c, d, x, y) <=> NodesRelate(a, r, c, d, x, y)
<1>1. ASSUME NEW f \in Node(Ids(a), Slots(a)), f.kind = "function",
             NEW g \in Node(Ids(a), Slots(a)), g.kind = "function", NEW either
      PROVE  FunctionRelates(b, r, f, g, either) <=> FunctionRelates(a, r, f, g, either)
  <2>1. f.params \in Seq(Param(Ids(a))) /\ g.params \in Seq(Param(Ids(a)))
    BY <1>1, NodeParts
  <2>2. \A i \in DOMAIN f.params \cup DOMAIN g.params : i \in Nat \ {0}
    BY <2>1, MembersAre
  <2>3. \A i \in DOMAIN f.params \cup DOMAIN g.params :
           /\ ParamTypeAt(b, f.params, i) = ParamTypeAt(a, f.params, i)
           /\ ParamTypeAt(b, g.params, i) = ParamTypeAt(a, g.params, i)
    BY <2>1, <2>2, ParamTypeOutlives
  <2> QED
    BY <2>3 DEF FunctionRelates
<1>2. ASSUME NEW type \in Ids(a), NEW wanted, wanted.type \in Ids(a)
      PROVE  PropertyRelates(b, r, type, wanted) <=> PropertyRelates(a, r, type, wanted)
  <2>1. PICK f, g : f = Get(a, type) /\ g = Get(a, wanted.type)
    OBVIOUS
  <2>2. f = Get(b, type) /\ g = Get(b, wanted.type)
    BY <1>2, <2>1 DEF ReadsAlike
  <2>3. f \in Node(Ids(a), Slots(a)) /\ g \in Node(Ids(a), Slots(a))
    BY <1>2, <2>1, ReadsNode
  <2>4. ASSUME NEW arena, f = Get(arena, type), g = Get(arena, wanted.type)
        PROVE  PropertyRelates(arena, r, type, wanted)
               <=> IF wanted.method /\ f.kind = "function" /\ g.kind = "function"
                   THEN FunctionRelates(arena, r, f, g, TRUE) ELSE r[<<type, wanted.type>>]
    BY <2>4 DEF PropertyRelates
  <2>5. /\ PropertyRelates(a, r, type, wanted)
           <=> IF wanted.method /\ f.kind = "function" /\ g.kind = "function"
               THEN FunctionRelates(a, r, f, g, TRUE) ELSE r[<<type, wanted.type>>]
        /\ PropertyRelates(b, r, type, wanted)
           <=> IF wanted.method /\ f.kind = "function" /\ g.kind = "function"
               THEN FunctionRelates(b, r, f, g, TRUE) ELSE r[<<type, wanted.type>>]
    BY <2>1, <2>2, <2>4
  <2>6. f.kind = "function" /\ g.kind = "function" =>
           (FunctionRelates(b, r, f, g, TRUE) <=> FunctionRelates(a, r, f, g, TRUE))
    BY <1>1, <2>3
  <2> QED
    BY <2>5, <2>6
<1>3. ASSUME NEW u \in Node(Ids(a), Slots(a)), u.kind = "object", NEW name \in DOMAIN u.properties
      PROVE  u.properties[name].type \in Ids(a)
  BY <1>3, NodeParts, PropertyIsTyped
<1>4. x.kind = "function" /\ y.kind = "function" =>
         (FunctionRelates(b, r, x, y, FALSE) <=> FunctionRelates(a, r, x, y, FALSE))
  BY <1>1
<1>5. x.kind = "object" /\ y.kind = "object" =>
         (ObjectRelates(b, r, x, y) <=> ObjectRelates(a, r, x, y))
  <2> SUFFICES ASSUME x.kind = "object", y.kind = "object"
               PROVE  ObjectRelates(b, r, x, y) <=> ObjectRelates(a, r, x, y)
    OBVIOUS
  <2>1. \A name \in DOMAIN y.properties : name \in DOMAIN x.properties =>
           (PropertyRelates(b, r, x.properties[name].type, y.properties[name])
            <=> PropertyRelates(a, r, x.properties[name].type, y.properties[name]))
    BY <1>2, <1>3
  <2> QED
    BY <2>1 DEF ObjectRelates
<1>6. x.kind = "intersection" /\ y.kind = "object" =>
         (TogetherProvide(b, r, x.members, y) <=> TogetherProvide(a, r, x.members, y))
  <2> SUFFICES ASSUME x.kind = "intersection", y.kind = "object"
               PROVE  TogetherProvide(b, r, x.members, y) <=> TogetherProvide(a, r, x.members, y)
    OBVIOUS
  <2>1. \A i \in DOMAIN x.members : x.members[i] \in Ids(a)
    BY NodeParts, MembersAre
  <2>2. PICK nodes : nodes = {Get(a, x.members[i]) : i \in DOMAIN x.members}
    OBVIOUS
  <2>3. nodes = {Get(b, x.members[i]) : i \in DOMAIN x.members}
    BY <2>1, <2>2 DEF ReadsAlike
  <2>4. \A node \in nodes : node \in Node(Ids(a), Slots(a))
    BY <2>1, <2>2, ReadsNode
  <2>5. \A name : \A p \in Given(nodes, name) : p.type \in Ids(a)
    BY <1>3, <2>4 DEF Given
  <2>6. \A name \in DOMAIN y.properties :
           Provided(b, r, Given(nodes, name), y.properties[name])
           <=> Provided(a, r, Given(nodes, name), y.properties[name])
    <3> TAKE name \in DOMAIN y.properties
    <3>1. PICK given, wanted : given = Given(nodes, name) /\ wanted = y.properties[name]
      OBVIOUS
    <3>2. wanted.type \in Ids(a) /\ \A p \in given : p.type \in Ids(a)
      BY <1>3, <2>5, <3>1
    <3>3. \A p \in given : PropertyRelates(b, r, p.type, wanted) <=> PropertyRelates(a, r, p.type, wanted)
      BY <1>2, <3>2
    <3>4. Provided(b, r, given, wanted) <=> Provided(a, r, given, wanted)
      BY <3>3 DEF Provided
    <3> QED
      BY <3>1, <3>4
  <2>7. /\ TogetherProvide(a, r, x.members, y)
           <=> \A name \in DOMAIN y.properties : Provided(a, r, Given(nodes, name), y.properties[name])
        /\ TogetherProvide(b, r, x.members, y)
           <=> \A name \in DOMAIN y.properties : Provided(b, r, Given(nodes, name), y.properties[name])
    BY <2>2, <2>3 DEF TogetherProvide
  <2> QED
    BY <2>6, <2>7
<1>7. MembersClash(b, x) <=> MembersClash(a, x)
  BY ClashOutlives
<1> QED
  BY <1>4, <1>5, <1>6, <1>7 DEF NodesRelate

(* What the relations say of the types of an arena they also say when more *)
(* types have come: an answer that is remembered need not be forgotten for *)
(* the sake of new types (RelationCache, empty_intersections).             *)
THEOREM AnswersOutlive ==
    ASSUME NEW a, IsReadable(a), IsGrounded(a), NEW b, IsReadable(b), ReadsAlike(a, b),
           NEW c \in Ids(a), NEW d \in Ids(a)
    PROVE  /\ Subtype(b, c, d) <=> Subtype(a, c, d)
           /\ Disjoint(b, c, d) <=> Disjoint(a, c, d)
           /\ ReducesToNever(b, c) <=> ReducesToNever(a, c)
<1>1. IdPairs(a) \subseteq IdPairs(b)
  BY DEF ReadsAlike, IdPairs
<1>2. ASSUME NEW e \in Ids(a), NEW f \in Ids(a)
      PROVE  /\ Trivial(b, e, f) <=> Trivial(a, e, f)
             /\ \A r : Rules(b, r, e, f) <=> NodesRelate(a, r, e, f, Get(a, e), Get(a, f))
  <2>1. PICK x, y : x = Get(a, e) /\ y = Get(a, f)
    OBVIOUS
  <2>2. x = Get(b, e) /\ y = Get(b, f)
    BY <1>2, <2>1 DEF ReadsAlike
  <2>3. x \in Node(Ids(a), Slots(a)) /\ y \in Node(Ids(a), Slots(a))
    BY <1>2, <2>1, ReadsNode
  <2>4. Trivial(b, e, f) <=> Trivial(a, e, f)
    BY <1>2 DEF Trivial, ReadsAlike
  <2>5. \A r : Rules(b, r, e, f) <=> NodesRelate(b, r, e, f, x, y)
    BY <2>2 DEF Rules
  <2>6. \A r : NodesRelate(b, r, e, f, x, y) <=> NodesRelate(a, r, e, f, x, y)
    BY <1>2, <2>3, RulesOutlive
  <2> QED
    BY <2>1, <2>4, <2>5, <2>6
<1>3. ASSUME NEW r, NEW s, Weaker(a, r, s), NEW e \in Ids(a), NEW f \in Ids(a),
             NodesRelate(a, r, e, f, Get(a, e), Get(a, f))
      PROVE  NodesRelate(a, s, e, f, Get(a, e), Get(a, f))
  <2>1. Get(a, e) \in Node(Ids(a), Slots(a)) /\ Get(a, f) \in Node(Ids(a), Slots(a))
    BY <1>3, ReadsNode
  <2> QED
    BY <1>3, <2>1, NodesMonotone
<1>4. ASSUME Subtype(a, c, d) PROVE Subtype(b, c, d)
  <2>1. PICK held \in SUBSET IdPairs(a) : <<c, d>> \in held /\ Allowed(a, held)
    BY <1>4, SubtypeIsLargest
  <2>2. Weaker(a, Among(a, held), Among(b, held))
    BY <1>1 DEF Weaker, Among
  <2>3. ASSUME NEW pair \in held
        PROVE  Trivial(b, pair[1], pair[2]) \/ Rules(b, Among(b, held), pair[1], pair[2])
    <3>1. PICK e, f : e = pair[1] /\ f = pair[2]
      OBVIOUS
    <3>2. e \in Ids(a) /\ f \in Ids(a)
      BY <2>1, <2>3, <3>1 DEF IdPairs
    <3>3. Trivial(a, e, f) \/ NodesRelate(a, Among(a, held), e, f, Get(a, e), Get(a, f))
      BY <2>1, <2>3, <3>1 DEF Allowed, Rules
    <3>4. Trivial(a, e, f) \/ NodesRelate(a, Among(b, held), e, f, Get(a, e), Get(a, f))
      BY <1>3, <2>2, <3>2, <3>3
    <3>5. Trivial(b, e, f) \/ Rules(b, Among(b, held), e, f)
      BY <1>2, <3>2, <3>4
    <3> QED
      BY <3>1, <3>5
  <2>4. held \in SUBSET IdPairs(b) /\ Allowed(b, held)
    BY <1>1, <2>1, <2>3 DEF Allowed
  <2>5. c \in Ids(b) /\ d \in Ids(b)
    BY DEF ReadsAlike
  <2> QED
    BY <2>1, <2>4, <2>5, SubtypeIsLargest
<1>5. ASSUME Subtype(b, c, d) PROVE Subtype(a, c, d)
  <2>1. c \in Ids(b) /\ d \in Ids(b)
    BY DEF ReadsAlike
  <2>2. PICK held \in SUBSET IdPairs(b) : <<c, d>> \in held /\ Allowed(b, held)
    BY <1>5, <2>1, SubtypeIsLargest
  <2>3. PICK kept : kept = held \cap IdPairs(a)
    OBVIOUS
  <2>4. Weaker(a, Among(b, held), Among(a, kept))
    BY <1>1, <2>3 DEF Weaker, Among
  <2>5. ASSUME NEW pair \in kept
        PROVE  Trivial(a, pair[1], pair[2]) \/ Rules(a, Among(a, kept), pair[1], pair[2])
    <3>1. PICK e, f : e = pair[1] /\ f = pair[2]
      OBVIOUS
    <3>2. pair \in held /\ e \in Ids(a) /\ f \in Ids(a)
      BY <2>3, <2>5, <3>1 DEF IdPairs
    <3>3. Trivial(b, e, f) \/ Rules(b, Among(b, held), e, f)
      BY <2>2, <3>1, <3>2 DEF Allowed
    <3>4. Trivial(a, e, f) \/ NodesRelate(a, Among(b, held), e, f, Get(a, e), Get(a, f))
      BY <1>2, <3>2, <3>3
    <3>5. Trivial(a, e, f) \/ NodesRelate(a, Among(a, kept), e, f, Get(a, e), Get(a, f))
      BY <1>3, <2>4, <3>2, <3>4
    <3> QED
      BY <3>1, <3>5 DEF Rules
  <2>6. kept \in SUBSET IdPairs(a) /\ <<c, d>> \in kept /\ Allowed(a, kept)
    BY <2>2, <2>3, <2>5 DEF Allowed, IdPairs
  <2> QED
    BY <2>6, SubtypeIsLargest
<1>6. Disjoint(b, c, d) <=> Disjoint(a, c, d)
  BY DisjointOutlives
<1>7. ReducesToNever(b, c) <=> ReducesToNever(a, c)
  <2>1. PICK x : x = Get(a, c)
    OBVIOUS
  <2>2. x = Get(b, c)
    BY <2>1 DEF ReadsAlike
  <2>3. x \in Node(Ids(a), Slots(a))
    BY <2>1, ReadsNode
  <2>4. MembersClash(b, x) <=> MembersClash(a, x)
    BY <2>3, ClashOutlives
  <2> QED
    BY <2>1, <2>2, <2>4 DEF ReducesToNever
<1> QED
  BY <1>4, <1>5, <1>6, <1>7
=============================================================================
