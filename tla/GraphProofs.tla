------------------------------ MODULE GraphProofs ------------------------------
(***************************************************************************)
(* For any finite graph: Depth is the length of the longest chain of       *)
(* components below a node, and LayersOf puts the nodes into layers in     *)
(* which every dependency comes earlier or belongs to the same component.  *)
(* With what the proofs use of sequences and of recursive functions.       *)
(***************************************************************************)
EXTENDS Digraphs, SequenceTheorems, FiniteSetTheorems, WellFoundedInduction, TLAPS

(* A finite graph whose dependencies are nodes of it.                      *)
IsGraph(graph) ==
    IsFiniteSet(Nodes(graph)) /\ graph \in [Nodes(graph) -> SUBSET Nodes(graph)]

(* What the component of a node depends on outside itself.                 *)
Below(graph) ==
    [m \in Nodes(graph) |->
        (UNION {graph[n] : n \in ComponentOf(graph)[m]}) \ ComponentOf(graph)[m]]

(* d is one more than the highest of the levels below m, 0 when there are  *)
(* none.                                                                   *)
OneAbove(graph, levels, m, d) ==
    /\ \A b \in Below(graph)[m] : levels[b] < d
    /\ d = 0 \/ \E b \in Below(graph)[m] : levels[b] = d - 1

-----------------------------------------------------------------------------
(* Sequences of anything.                                                  *)
IsSeq(s) == Len(s) \in Nat /\ s = [i \in 1 .. Len(s) |-> s[i]]

LEMMA SeqOver ==
    ASSUME NEW s, IsSeq(s), NEW S, \A i \in 1 .. Len(s) : s[i] \in S
    PROVE  s \in Seq(S)
<1>1. s \in [1 .. Len(s) -> S] /\ Len(s) \in Nat
  BY DEF IsSeq
<1> QED
  BY <1>1, SeqDef

LEMMA SeqIsSeq ==
    ASSUME NEW S, NEW s \in Seq(S)
    PROVE  IsSeq(s)
BY LenProperties DEF IsSeq

LEMMA Appended ==
    ASSUME NEW s, IsSeq(s), NEW x
    PROVE  /\ IsSeq(Append(s, x)) /\ Len(Append(s, x)) = Len(s) + 1
           /\ Append(s, x)[Len(s) + 1] = x
           /\ \A i \in 1 .. Len(s) : Append(s, x)[i] = s[i]
<1> DEFINE S == {s[i] : i \in 1 .. Len(s)} \cup {x}
<1>1. s \in Seq(S) /\ x \in S
  BY SeqOver
<1> HIDE DEF S
<1>2. /\ Append(s, x) \in Seq(S) /\ Len(Append(s, x)) = Len(s) + 1
      /\ \A i \in 1 .. Len(s) : Append(s, x)[i] = s[i]
      /\ Append(s, x)[Len(s) + 1] = x
  BY <1>1, AppendProperties
<1>3. IsSeq(Append(s, x))
  BY <1>2, SeqIsSeq
<1> QED
  BY <1>2, <1>3

-----------------------------------------------------------------------------
(* A nonempty set of numbers has a least element.                          *)
LEMMA LeastNumber ==
    ASSUME NEW S, S \subseteq Nat, S # {}
    PROVE  \E m \in S : \A k \in S : m <= k
<1>1. IsWellFoundedOn(OpToRel(<, Nat), Nat)
  BY NatLessThanWellFounded
<1>2. PICK m \in S : \A k \in S : ~ (<<k, m>> \in OpToRel(<, Nat))
  BY <1>1, WFMin
<1>3. \A x, k \in Nat : <<k, x>> \in OpToRel(<, Nat) <=> k < x
  BY DEF OpToRel
<1>4. \A k \in S : ~ (k < m)
  BY <1>2, <1>3
<1> QED
  BY <1>4

(* A set of numbers below a bound has a greatest element.                  *)
LEMMA GreatestNumber ==
    ASSUME NEW S, NEW n \in Nat, S \subseteq 0 .. n, S # {}
    PROVE  \E m \in S : \A k \in S : k <= m
<1> DEFINE U == {u \in 0 .. n : \A k \in S : k <= u}
<1>1. U \subseteq Nat /\ n \in U
  OBVIOUS
<1>2. PICK u \in U : \A v \in U : u <= v
  BY <1>1, LeastNumber
<1>3. CASE u \in S
  BY <1>3
<1>4. CASE u \notin S
  <2>1. u \in 0 .. n /\ \A k \in S : k <= u /\ k # u /\ k \in 0 .. n
    BY <1>4
  <2>2. u # 0
    <3>1. PICK k \in S : TRUE
      OBVIOUS
    <3> QED
      BY <2>1, <3>1
  <2>3. u - 1 \in 0 .. n /\ \A k \in S : k <= u - 1
    BY <2>1, <2>2
  <2>4. u - 1 \in U
    BY <2>3
  <2> QED
    BY <1>2, <2>1, <2>4
<1> QED
  BY <1>3, <1>4

(* Every step from a set of values leads into the next.                    *)
Advances(N, S, G) == \A n \in 1 .. N : \A x \in S[n - 1] : G[n][x] \in S[n]

(* A function defined by its value before exists as far as its values stay *)
(* where the next one is defined.                                          *)
LEMMA Iterated ==
    ASSUME NEW N \in Nat, NEW S, NEW b \in S[0], NEW G, Advances(N, S, G)
    PROVE  \E f : /\ f = [n \in 0 .. N |-> f[n]]
                  /\ f[0] = b
                  /\ \A n \in 1 .. N : f[n] = G[n][f[n - 1]]
                  /\ \A n \in 0 .. N : f[n] \in S[n]
<1> DEFINE Upto(k, f) == /\ f = [n \in 0 .. k |-> IF n = 0 THEN b ELSE G[n][f[n - 1]]]
                         /\ \A n \in 0 .. k : f[n] \in S[n]
           Missing == {k \in 0 .. N : ~ \E f : Upto(k, f)}
<1>1. SUFFICES ASSUME Missing # {} PROVE FALSE
  <2>1. N \in 0 .. N /\ \A n \in 1 .. N : n \in 0 .. N /\ n # 0
    OBVIOUS
  <2>2. SUFFICES ASSUME NEW f, Upto(N, f)
                 PROVE  \A n \in 1 .. N : f[n] = G[n][f[n - 1]]
    BY <2>1
  <2> QED
    BY <2>1, <2>2
<1>2. PICK k \in Missing : \A j \in Missing : k <= j
  <2>1. Missing \subseteq Nat
    OBVIOUS
  <2> HIDE DEF Missing
  <2> QED
    BY <1>1, <2>1, LeastNumber
<1>3. k # 0
  <2>1. Upto(0, [n \in 0 .. 0 |-> b])
    OBVIOUS
  <2> QED
    BY <1>2, <2>1
<1>4. k - 1 \in 0 .. N /\ k - 1 \notin Missing /\ k \in 1 .. N
  <2>1. k \in 0 .. N
    OBVIOUS
  <2> HIDE DEF Missing
  <2> QED
    BY <1>2, <1>3, <2>1
<1>5. PICK f : Upto(k - 1, f)
  <2> HIDE DEF Upto
  <2> QED
    BY <1>4
<1> DEFINE g == [n \in 0 .. k |-> IF n = k THEN G[k][f[k - 1]] ELSE f[n]]
<1>6. \A n \in 0 .. k - 1 : g[n] = f[n] /\ n \in 0 .. k
  BY <1>4
<1>7. g[k] = G[k][f[k - 1]] /\ f[k - 1] \in S[k - 1] /\ g[k] \in S[k]
  BY <1>4, <1>5 DEF Advances
<1>8. \A n \in 0 .. k : g[n] = IF n = 0 THEN b ELSE G[n][g[n - 1]]
  <2> SUFFICES ASSUME NEW n \in 0 .. k PROVE g[n] = IF n = 0 THEN b ELSE G[n][g[n - 1]]
    OBVIOUS
  <2>1. CASE n = k
    BY <1>3, <1>4, <1>6, <1>7, <2>1
  <2>2. CASE n # k
    <3>1. n \in 0 .. k - 1 /\ (n # 0 => n - 1 \in 0 .. k - 1)
      BY <1>4, <2>2
    <3>2. f[n] = IF n = 0 THEN b ELSE G[n][f[n - 1]]
      BY <1>5, <3>1
    <3> QED
      BY <1>6, <3>1, <3>2
  <2> QED
    BY <2>1, <2>2
<1>9. \A n \in 0 .. k : g[n] \in S[n]
  <2>1. \A n \in 0 .. k : n = k \/ n \in 0 .. k - 1
    BY <1>4
  <2> QED
    BY <1>5, <1>6, <1>7, <2>1
<1>10. Upto(k, g)
  <2> HIDE DEF g
  <2>1. g = [n \in 0 .. k |-> g[n]]
    BY DEF g
  <2> QED
    BY <1>8, <1>9, <2>1
<1> QED
  BY <1>2, <1>10

-----------------------------------------------------------------------------
(* Reachability is reflexive, transitive, follows dependencies and does    *)
(* not leave a closed set.                                                 *)
LEMMA ReachableFacts ==
    ASSUME NEW graph, graph \in [Nodes(graph) -> SUBSET Nodes(graph)]
    PROVE  LET N == Nodes(graph)
               R == Reachable(graph)
           IN  /\ R \in [N -> SUBSET N]
               /\ \A m \in N : m \in R[m]
               /\ \A m \in N : \A n \in R[m] : graph[n] \subseteq R[m] /\ R[n] \subseteq R[m]
               /\ \A m \in N, S \in SUBSET N :
                     Closed(graph, S) /\ m \in S => R[m] \subseteq S
<1> DEFINE N == Nodes(graph)
           R == Reachable(graph)
<1>1. graph \in [N -> SUBSET N]
  OBVIOUS
<1>2. R \in [N -> SUBSET N]
  BY DEF Reachable
<1>3. \A m \in N : \A n : n \in R[m] <=>
          n \in N /\ \A S \in SUBSET N : Closed(graph, S) /\ m \in S => n \in S
  BY DEF Reachable
<1> HIDE DEF R
<1>4. ASSUME NEW m \in N, NEW n \in R[m] PROVE graph[n] \subseteq R[m] /\ R[n] \subseteq R[m]
  <2>1. n \in N /\ graph[n] \subseteq N
    BY <1>1, <1>3
  <2>2. \A S \in SUBSET N : Closed(graph, S) /\ m \in S => n \in S /\ graph[n] \subseteq S
    BY <1>3 DEF Closed
  <2>3. graph[n] \subseteq R[m]
    BY <1>3, <2>1, <2>2
  <2>4. R[n] \subseteq R[m]
    BY <1>3, <2>1, <2>2
  <2> QED
    BY <2>3, <2>4
<1> QED
  BY <1>2, <1>3, <1>4 DEF R

(* Components: a node is in its own, all nodes of one have the same, and   *)
(* what is below a component does not reach back to it.                    *)
LEMMA ComponentFacts ==
    ASSUME NEW graph, IsGraph(graph)
    PROVE  LET N == Nodes(graph)
               R == Reachable(graph)
               C == ComponentOf(graph)
           IN  /\ C \in [N -> SUBSET N]
               /\ \A m \in N : m \in C[m]
               /\ \A m \in N : \A n \in C[m] : C[n] = C[m] /\ R[n] = R[m]
               /\ \A m \in N : \A n \in graph[m] \ C[m] : n \in Below(graph)[m]
               /\ Below(graph) \in [N -> SUBSET N]
               /\ \A m \in N : \A n \in C[m] : Below(graph)[n] = Below(graph)[m]
               /\ \A m \in N : \A b \in Below(graph)[m] :
                     R[b] \subseteq R[m] /\ b \in R[m] /\ m \notin R[b]
<1> DEFINE N == Nodes(graph)
           R == Reachable(graph)
           C == ComponentOf(graph)
           B == Below(graph)
<1>1. graph \in [N -> SUBSET N]
  BY DEF IsGraph
<1>2. /\ R \in [N -> SUBSET N]
      /\ \A m \in N : m \in R[m]
      /\ \A m \in N : \A n \in R[m] : graph[n] \subseteq R[m] /\ R[n] \subseteq R[m]
  BY <1>1, ReachableFacts
<1>3. C = [m \in N |-> {n \in R[m] : m \in R[n]}]
  BY DEF ComponentOf
<1>4. B = [m \in N |-> (UNION {graph[n] : n \in C[m]}) \ C[m]]
  BY DEF Below
<1> HIDE DEF R, C, B
<1>5. C \in [N -> SUBSET N] /\ \A m \in N : m \in C[m]
  BY <1>2, <1>3
<1>6. ASSUME NEW m \in N, NEW n \in C[m] PROVE C[n] = C[m] /\ R[n] = R[m] /\ B[n] = B[m]
  <2>1. n \in N /\ n \in R[m] /\ m \in R[n]
    BY <1>3, <1>5
  <2>2. R[n] = R[m]
    BY <1>2, <2>1
  <2>3. C[n] = C[m]
    <3>1. C[n] = {o \in R[n] : n \in R[o]} /\ C[m] = {o \in R[m] : m \in R[o]}
      BY <1>3, <2>1
    <3>2. \A o \in R[m] : n \in R[o] <=> m \in R[o]
      BY <1>2, <2>1
    <3> QED
      BY <2>2, <3>1, <3>2
  <2>4. B[n] = B[m]
    BY <1>4, <2>1, <2>3
  <2> QED
    BY <2>2, <2>3, <2>4
<1>7. \A m \in N : \A n \in graph[m] \ C[m] : n \in B[m]
  BY <1>4, <1>5
<1>8. B \in [N -> SUBSET N]
  <2>1. \A m \in N : UNION {graph[n] : n \in C[m]} \subseteq N
    BY <1>1, <1>5
  <2> QED
    BY <1>4, <2>1
<1>9. ASSUME NEW m \in N, NEW b \in B[m]
      PROVE  R[b] \subseteq R[m] /\ b \in R[m] /\ m \notin R[b]
  <2>1. PICK n \in C[m] : b \in graph[n]
    BY <1>4
  <2>2. b \notin C[m]
    BY <1>4
  <2>3. b \in R[m]
    BY <1>2, <1>3, <2>1
  <2>4. R[b] \subseteq R[m]
    BY <1>2, <2>3
  <2>5. m \notin R[b]
    BY <1>3, <2>2, <2>3
  <2> QED
    BY <2>3, <2>4, <2>5
<1> QED
  BY <1>5, <1>6, <1>7, <1>8, <1>9 DEF R, C, B

-----------------------------------------------------------------------------
(* Depth.                                                                  *)

(* Only one level is one above others.                                     *)
LEMMA OnlyOneAbove ==
    ASSUME NEW graph, IsGraph(graph), NEW m \in Nodes(graph),
           NEW levels \in [Nodes(graph) -> Nat],
           NEW d \in Nat, NEW e \in Nat,
           OneAbove(graph, levels, m, d), OneAbove(graph, levels, m, e)
    PROVE  d = e
<1>1. Below(graph)[m] \subseteq Nodes(graph)
  BY ComponentFacts
<1>2. \A b \in Below(graph)[m] : levels[b] \in Nat
  BY <1>1
<1>3. CASE d < e
  <2>1. PICK b \in Below(graph)[m] : levels[b] = e - 1
    BY <1>3 DEF OneAbove
  <2> QED
    BY <1>2, <1>3, <2>1 DEF OneAbove
<1>4. CASE e < d
  <2>1. PICK b \in Below(graph)[m] : levels[b] = d - 1
    BY <1>4 DEF OneAbove
  <2> QED
    BY <1>2, <1>4, <2>1 DEF OneAbove
<1> QED
  BY <1>3, <1>4

(* There is one, no further up than they are.                              *)
LEMMA OneAboveExists ==
    ASSUME NEW graph, IsGraph(graph), NEW n \in Nat, NEW m \in Nodes(graph),
           NEW levels, \A b \in Nodes(graph) : levels[b] \in 0 .. n
    PROVE  \E d \in 0 .. n + 1 : OneAbove(graph, levels, m, d)
<1> DEFINE B == Below(graph)[m]
           L == {levels[b] : b \in B}
<1>1. B \subseteq Nodes(graph)
  BY ComponentFacts
<1>2. L \subseteq 0 .. n
  BY <1>1
<1>3. CASE L = {}
  <2>1. B = {}
    BY <1>3
  <2>2. OneAbove(graph, levels, m, 0)
    BY <2>1 DEF OneAbove
  <2> QED
    BY <2>2
<1>4. CASE L # {}
  <2> HIDE DEF L
  <2>1. PICK top \in L : \A k \in L : k <= top
    BY <1>2, <1>4, GreatestNumber
  <2>2. top \in 0 .. n /\ top + 1 \in 0 .. n + 1
    BY <1>2
  <2>3. \A b \in B : levels[b] \in L
    BY DEF L
  <2>4. PICK b \in B : levels[b] = top
    BY DEF L
  <2>5. \A c \in B : levels[c] < top + 1
    <3> SUFFICES ASSUME NEW c \in B PROVE levels[c] < top + 1
      OBVIOUS
    <3>1. levels[c] \in 0 .. n /\ levels[c] <= top
      BY <1>2, <2>1, <2>3
    <3> QED
      BY <2>2, <3>1
  <2>6. levels[b] = (top + 1) - 1
    BY <2>2, <2>4
  <2>7. OneAbove(graph, levels, m, top + 1)
    BY <2>5, <2>6 DEF OneAbove
  <2> QED
    BY <2>2, <2>7
<1> QED
  BY <1>3, <1>4

(* Depth is the last of a row of levels, each one above the one before it. *)
LEMMA DepthRow ==
    ASSUME NEW graph, IsGraph(graph)
    PROVE  LET N == Cardinality(Nodes(graph))
           IN  \E D : /\ Depth(graph) = D[N]
                      /\ \A n \in 0 .. N : D[n] \in [Nodes(graph) -> 0 .. n]
                      /\ \A n \in 1 .. N : \A m \in Nodes(graph) :
                            OneAbove(graph, D[n - 1], m, D[n][m])
<1> DEFINE N == Cardinality(Nodes(graph))
           Zero == [m \in Nodes(graph) |-> 0]
           Next(lower) ==
               [m \in Nodes(graph) |->
                  CHOOSE d \in 0 .. N :
                      /\ \A b \in Below(graph)[m] : lower[b] < d
                      /\ d = 0 \/ \E b \in Below(graph)[m] : lower[b] = d - 1]
           D == CHOOSE f : f = [n \in 0 .. N |-> IF n = 0 THEN Zero ELSE Next(f[n - 1])]
           S == [n \in 0 .. N |-> [Nodes(graph) -> 0 .. n]]
           G == [n \in 1 .. N |-> [lower \in S[n - 1] |-> Next(lower)]]
<1>1. N \in Nat
  BY FS_CardinalityType DEF IsGraph
<1>2. Depth(graph) = D[N]
  BY DEF Depth, Below
<1> HIDE DEF N
<1>3. \A n \in 1 .. N : n - 1 \in 0 .. N /\ n \in 0 .. N
  BY <1>1
<1>4. ASSUME NEW n \in 1 .. N, NEW lower \in S[n - 1]
      PROVE  /\ G[n][lower] = Next(lower) /\ Next(lower) \in S[n]
             /\ \A m \in Nodes(graph) : OneAbove(graph, lower, m, Next(lower)[m])
  <2>1. lower \in [Nodes(graph) -> 0 .. n - 1]
    BY <1>3
  <2>2. ASSUME NEW m \in Nodes(graph)
        PROVE  Next(lower)[m] \in 0 .. n /\ OneAbove(graph, lower, m, Next(lower)[m])
    <3>1. n - 1 \in Nat /\ n - 1 + 1 = n
      BY <1>1
    <3>2. \E d \in 0 .. n : OneAbove(graph, lower, m, d)
      BY <2>1, <3>1, OneAboveExists
    <3>3. Next(lower)[m] = CHOOSE d \in 0 .. N : OneAbove(graph, lower, m, d)
      BY DEF OneAbove
    <3>4. 0 .. n \subseteq 0 .. N
      BY <1>1
    <3>5. Next(lower)[m] \in 0 .. N /\ OneAbove(graph, lower, m, Next(lower)[m])
      BY <3>2, <3>3, <3>4
    <3>6. PICK d \in 0 .. n : OneAbove(graph, lower, m, d)
      BY <3>2
    <3>7. d = Next(lower)[m]
      <4> HIDE DEF Next
      <4>1. d \in Nat /\ Next(lower)[m] \in Nat
        BY <1>1, <3>5
      <4> QED
        BY <2>1, <3>5, <3>6, <4>1, OnlyOneAbove
    <3> QED
      BY <3>5, <3>6, <3>7
  <2>3. Next(lower) \in [Nodes(graph) -> 0 .. n]
    <3>1. \A m \in Nodes(graph) : Next(lower)[m] \in 0 .. n
      BY <2>2
    <3> QED
      BY <3>1
  <2>4. G[n][lower] = Next(lower)
    OBVIOUS
  <2> HIDE DEF Next, G
  <2> QED
    BY <1>3, <2>2, <2>3, <2>4
<1>5. PICK f : /\ f = [n \in 0 .. N |-> f[n]]
               /\ f[0] = Zero
               /\ \A n \in 1 .. N : f[n] = G[n][f[n - 1]]
               /\ \A n \in 0 .. N : f[n] \in S[n]
  <2>1. Zero \in S[0]
    BY <1>1
  <2>2. Advances(N, S, G)
    BY <1>4 DEF Advances
  <2> HIDE DEF Zero, S, G, Next, D
  <2> QED
    BY <1>1, <2>1, <2>2, Iterated, SMTT(30)
<1> HIDE DEF Next, S, G, Zero
<1>6. \A n \in 1 .. N : f[n] = Next(f[n - 1])
  BY <1>3, <1>4, <1>5
<1>7. f = [n \in 0 .. N |-> IF n = 0 THEN Zero ELSE Next(f[n - 1])]
  <2>1. \A n \in 0 .. N : n # 0 => n \in 1 .. N /\ f[n - 1] \in S[n - 1]
    BY <1>1, <1>3, <1>5
  <2>2. \A n \in 0 .. N : f[n] = IF n = 0 THEN Zero ELSE Next(f[n - 1])
    BY <1>5, <1>6, <2>1
  <2> QED
    BY <1>5, <2>2
<1>8. D = [n \in 0 .. N |-> IF n = 0 THEN Zero ELSE Next(D[n - 1])]
  BY <1>7
<1> HIDE DEF D
<1>9. \A n \in 0 .. N : D[n] \in S[n]
  <2> DEFINE Bad == {n \in 0 .. N : D[n] \notin S[n]}
  <2>1. SUFFICES ASSUME Bad # {} PROVE FALSE
    OBVIOUS
  <2>2. Bad \subseteq Nat
    OBVIOUS
  <2>3. PICK n \in Bad : \A k \in Bad : n <= k
    <3> HIDE DEF Bad
    <3> QED
      BY <2>1, <2>2, LeastNumber
  <2>4. CASE n = 0
    <3>1. D[0] = Zero
      BY <1>1, <1>8
    <3>2. Zero \in S[0]
      BY <1>1 DEF Zero, S
    <3> QED
      BY <2>4, <3>1, <3>2
  <2>5. CASE n # 0
    <3>1. n \in 1 .. N /\ n - 1 \notin Bad /\ n - 1 \in 0 .. N
      BY <1>1, <2>3, <2>5
    <3>2. D[n - 1] \in S[n - 1]
      BY <3>1
    <3>3. D[n] = Next(D[n - 1])
      BY <1>8, <2>5
    <3> QED
      BY <1>4, <3>1, <3>2, <3>3
  <2> QED
    BY <2>4, <2>5
<1>10. \A n \in 0 .. N : D[n] \in [Nodes(graph) -> 0 .. n]
  BY <1>9 DEF S
<1>11. \A n \in 1 .. N : \A m \in Nodes(graph) : OneAbove(graph, D[n - 1], m, D[n][m])
  <2>1. \A n \in 1 .. N : D[n] = Next(D[n - 1]) /\ D[n - 1] \in S[n - 1]
    BY <1>1, <1>3, <1>8, <1>9
  <2> QED
    BY <1>4, <2>1
<1> QED
  BY <1>2, <1>10, <1>11 DEF N

(* Depth is the fixed point of its own step: a level that still changes in *)
(* a step is that of a node with more nodes within reach than steps so far.*)
LEMMA DepthFacts ==
    ASSUME NEW graph, IsGraph(graph)
    PROVE  LET depth == Depth(graph)
           IN  /\ depth \in [Nodes(graph) -> Nat]
               /\ \A m \in Nodes(graph) : OneAbove(graph, depth, m, depth[m])
               /\ \A m \in Nodes(graph) : \A n \in ComponentOf(graph)[m] : depth[n] = depth[m]
<1> DEFINE V == Nodes(graph)
           N == Cardinality(V)
           R == Reachable(graph)
           B == Below(graph)
           depth == Depth(graph)
<1>1. N \in Nat /\ IsFiniteSet(V) /\ graph \in [V -> SUBSET V]
  BY FS_CardinalityType DEF IsGraph
<1>2. PICK D : /\ depth = D[N]
               /\ \A n \in 0 .. N : D[n] \in [V -> 0 .. n]
               /\ \A n \in 1 .. N : \A m \in V : OneAbove(graph, D[n - 1], m, D[n][m])
  BY DepthRow
<1>3. /\ B \in [V -> SUBSET V]
      /\ \A m \in V : \A b \in B[m] : R[b] \subseteq R[m] /\ b \in R[m] /\ m \notin R[b]
      /\ R \in [V -> SUBSET V]
      /\ \A m \in V : m \in R[m]
  BY <1>1, ComponentFacts, ReachableFacts
<1> HIDE DEF N, R, B, depth
<1>4. \A m \in V : Cardinality(R[m]) \in Nat /\ Cardinality(R[m]) <= N
  BY <1>1, <1>3, FS_Subset, FS_CardinalityType DEF N
<1>5. ASSUME NEW m \in V, NEW b \in B[m] PROVE Cardinality(R[b]) < Cardinality(R[m])
  <2>1. IsFiniteSet(R[m]) /\ R[b] \subseteq R[m] /\ R[b] # R[m] /\ b \in V
    BY <1>1, <1>3, FS_Subset
  <2>2. Cardinality(R[b]) <= Cardinality(R[m]) /\ Cardinality(R[b]) # Cardinality(R[m])
    BY <2>1, FS_Subset
  <2> QED
    BY <1>4, <2>1, <2>2
<1>6. ASSUME NEW m \in V PROVE Cardinality(R[m]) >= 1
  <2>1. R[m] # {} /\ IsFiniteSet(R[m])
    BY <1>1, <1>3, FS_Subset
  <2>2. Cardinality(R[m]) # 0
    BY <2>1, FS_EmptySet
  <2> QED
    BY <1>4, <2>2
<1> DEFINE Late == {n \in 1 .. N : \E m \in V : D[n - 1][m] # D[n][m] /\ Cardinality(R[m]) < n + 1}
<1>7. Late = {}
  <2>1. SUFFICES ASSUME Late # {} PROVE FALSE
    OBVIOUS
  <2>2. Late \subseteq Nat
    BY <1>1
  <2>3. PICK n \in Late : \A k \in Late : n <= k
    <3> HIDE DEF Late
    <3> QED
      BY <2>1, <2>2, LeastNumber
  <2>4. n \in 1 .. N /\ n - 1 \in 0 .. N /\ n \in 0 .. N
    BY <1>1
  <2>5. PICK m \in V : D[n - 1][m] # D[n][m] /\ Cardinality(R[m]) < n + 1
    OBVIOUS
  <2>6. D[n - 1] \in [V -> 0 .. n - 1] /\ D[n] \in [V -> 0 .. n]
    BY <1>2, <2>4
  <2>7. OneAbove(graph, D[n - 1], m, D[n][m])
    BY <1>2, <2>4
  <2>8. CASE n = 1
    <3>1. D[0][m] = 0 /\ D[n][m] # 0
      BY <2>5, <2>6, <2>8
    <3>2. PICK b \in B[m] : TRUE
      BY <2>7, <3>1 DEF OneAbove, B
    <3>3. b \in V
      BY <1>3
    <3> QED
      BY <1>4, <1>5, <1>6, <2>5, <2>8, <3>2, <3>3
  <2>9. CASE n # 1
    <3>1. n - 1 \in 1 .. N /\ n - 2 \in 0 .. N /\ n - 1 - 1 = n - 2 /\ n - 1 < n
      BY <1>1, <2>4, <2>9
    <3>2. n - 1 \notin Late
      <4> HIDE DEF Late
      <4> QED
        BY <2>3, <2>2, <3>1, <2>4
    <3>3. D[n - 2] \in [V -> 0 .. n - 2]
      BY <1>2, <3>1
    <3>4. OneAbove(graph, D[n - 2], m, D[n - 1][m])
      BY <1>2, <3>1
    <3>5. ASSUME \A b \in B[m] : D[n - 2][b] = D[n - 1][b] PROVE FALSE
      <4>1. OneAbove(graph, D[n - 1], m, D[n - 1][m])
        BY <3>4, <3>5 DEF OneAbove, B
      <4>2. D[n - 1][m] \in Nat /\ D[n][m] \in Nat /\ n - 1 \in Nat
        BY <2>6, <3>1, <2>4
      <4>3. D[n - 1] \in [V -> Nat]
        BY <2>6
      <4>4. D[n - 1][m] = D[n][m]
        BY <4>1, <4>2, <4>3, <2>7, OnlyOneAbove
      <4> QED
        BY <2>5, <4>4
    <3>6. PICK b \in B[m] : D[n - 2][b] # D[n - 1][b]
      BY <3>5
    <3>7. b \in V
      BY <1>3
    <3>8. ~ (Cardinality(R[b]) < n - 1 + 1)
      BY <3>1, <3>2, <3>6, <3>7
    <3> QED
      BY <1>4, <1>5, <2>4, <2>5, <3>7, <3>8
  <2> QED
    BY <2>8, <2>9
<1>8. depth \in [V -> Nat]
  <2>1. depth \in [V -> 0 .. N]
    BY <1>1, <1>2
  <2> QED
    BY <2>1
<1>9. ASSUME NEW m \in V PROVE OneAbove(graph, depth, m, depth[m])
  <2>1. N # 0
    BY <1>4, <1>6
  <2>2. N \in 1 .. N /\ N - 1 \in 0 .. N
    BY <1>1, <2>1
  <2>3. \A b \in V : D[N - 1][b] = D[N][b]
    BY <1>4, <1>7, <2>2
  <2>4. OneAbove(graph, D[N - 1], m, D[N][m])
    BY <1>2, <2>2
  <2>5. \A b \in B[m] : b \in V
    BY <1>3
  <2>6. \A b \in Below(graph)[m] : D[N - 1][b] = depth[b]
    BY <1>2, <2>3, <2>5 DEF B
  <2> QED
    BY <1>2, <2>4, <2>6 DEF OneAbove
<1>10. ASSUME NEW m \in V, NEW n \in ComponentOf(graph)[m] PROVE depth[n] = depth[m]
  <2>1. n \in V /\ Below(graph)[n] = Below(graph)[m]
    BY ComponentFacts
  <2>2. OneAbove(graph, depth, m, depth[n])
    BY <1>9, <2>1 DEF OneAbove
  <2>3. OneAbove(graph, depth, m, depth[m])
    BY <1>9
  <2> QED
    BY <1>8, <2>1, <2>2, <2>3, OnlyOneAbove
<1> QED
  BY <1>8, <1>9, <1>10 DEF depth

(* The layers are a sequence, a node is in the one of its depth and in no  *)
(* other, and what it depends on is in an earlier one, or in its component *)
(* and so in the same one.                                                 *)
LEMMA LayerFacts ==
    ASSUME NEW graph, IsGraph(graph)
    PROVE  LET V == Nodes(graph)
               L == LayersOf(graph)
               depth == Depth(graph)
           IN  /\ L \in Seq(SUBSET V)
               /\ \A m \in V : depth[m] + 1 \in 1 .. Len(L)
               /\ \A i \in 1 .. Len(L) : L[i] # {}
               /\ \A i \in 1 .. Len(L) : L[i] = {m \in V : depth[m] + 1 = i}
               /\ \A m \in V : \A d \in graph[m] :
                     \/ d \in ComponentOf(graph)[m] /\ depth[d] = depth[m]
                     \/ depth[d] < depth[m]
<1> DEFINE V == Nodes(graph)
           L == LayersOf(graph)
           depth == Depth(graph)
           depths == {depth[m] : m \in V}
<1>1. /\ depth \in [V -> Nat]
      /\ \A m \in V : OneAbove(graph, depth, m, depth[m])
      /\ \A m \in V : \A n \in ComponentOf(graph)[m] : depth[n] = depth[m]
  BY DepthFacts
<1>2. L = [i \in {d + 1 : d \in depths} |-> {m \in V : depth[m] = i - 1}]
  BY DEF LayersOf
<1>3. Below(graph) \in [V -> SUBSET V] /\ graph \in [V -> SUBSET V] /\ IsFiniteSet(V)
  BY ComponentFacts DEF IsGraph
<1> HIDE DEF depth
<1>4. \E n \in Nat : {d + 1 : d \in depths} = 1 .. n
  <2>1. CASE V = {}
    <3>1. {d + 1 : d \in depths} = 1 .. 0
      BY <2>1
    <3> QED
      BY <3>1
  <2>2. CASE V # {}
    <3>1. depths \subseteq Nat /\ depths # {}
      BY <1>1, <2>2
    <3>2. \A m \in V : depth[m] <= Cardinality(V) /\ Cardinality(V) \in Nat
      <4>1. PICK D : /\ depth = D[Cardinality(V)]
                     /\ \A n \in 0 .. Cardinality(V) : D[n] \in [V -> 0 .. n]
        BY DepthRow DEF depth
      <4>2. Cardinality(V) \in Nat /\ Cardinality(V) \in 0 .. Cardinality(V)
        BY <1>3, FS_CardinalityType
      <4> QED
        BY <4>1, <4>2
    <3>3. depths \subseteq 0 .. Cardinality(V) /\ Cardinality(V) \in Nat
      BY <1>1, <2>2, <3>2
    <3> DEFINE Gap == {g \in Nat : g \notin depths}
    <3>4. Cardinality(V) + 1 \in Gap
      BY <3>3
    <3>5. PICK g \in Gap : \A h \in Gap : g <= h
      <4>1. Gap \subseteq Nat /\ Gap # {}
        BY <3>4
      <4> HIDE DEF Gap
      <4> QED
        BY <4>1, LeastNumber
    <3>6. \A d \in Nat : d < g => d \in depths
      BY <3>5
    <3>7. ASSUME NEW e \in depths, e >= g PROVE FALSE
      <4> DEFINE High == {h \in depths : h >= g}
      <4>1. PICK h \in High : \A k \in High : h <= k
        <5>1. High \subseteq Nat /\ High # {}
          BY <3>1, <3>7
        <5> HIDE DEF High
        <5> QED
          BY <5>1, LeastNumber
      <4>2. h # g /\ h \in Nat /\ h >= g /\ g \in Nat
        BY <3>1, <3>5
      <4>3. PICK m \in V : depth[m] = h
        BY DEF depths
      <4>4. h # 0
        BY <4>2
      <4>5. PICK b \in Below(graph)[m] : depth[b] = h - 1
        BY <1>1, <4>3, <4>4 DEF OneAbove
      <4>6. b \in V /\ h - 1 \in High
        BY <1>3, <4>2, <4>5
      <4> HIDE DEF High
      <4> QED
        BY <4>1, <4>2, <4>6
    <3>8. depths = {d \in Nat : d < g}
      BY <3>1, <3>5, <3>6, <3>7
    <3>9. {d + 1 : d \in depths} = 1 .. g
      <4> HIDE DEF depths
      <4>1. \A i \in 1 .. g : i - 1 \in depths /\ (i - 1) + 1 = i
        BY <3>5, <3>8
      <4>2. \A d \in depths : d + 1 \in 1 .. g
        BY <3>5, <3>8
      <4> QED
        BY <4>1, <4>2
    <3> QED
      BY <3>5, <3>9
  <2> QED
    BY <2>1, <2>2
<1>5. PICK n \in Nat : {d + 1 : d \in depths} = 1 .. n
  BY <1>4
<1> HIDE DEF L, depths
<1>6. L \in [1 .. n -> SUBSET V] /\ Len(L) = n
  BY <1>2, <1>5
<1>7. L \in Seq(SUBSET V)
  BY <1>5, <1>6
<1>8. \A m \in V : depth[m] + 1 \in 1 .. n
  BY <1>5 DEF depths
<1>9. ASSUME NEW i \in 1 .. n PROVE L[i] = {m \in V : depth[m] + 1 = i}
  <2>1. L[i] = {m \in V : depth[m] = i - 1}
    BY <1>2, <1>5
  <2>2. \A m \in V : depth[m] = i - 1 <=> depth[m] + 1 = i
    BY <1>1
  <2> QED
    BY <2>1, <2>2
<1>10. ASSUME NEW i \in 1 .. n PROVE L[i] # {}
  <2>1. PICK d \in depths : d + 1 = i
    BY <1>5
  <2>2. PICK m \in V : depth[m] = d
    BY DEF depths
  <2> QED
    BY <1>9, <2>1, <2>2
<1>11. ASSUME NEW m \in V, NEW d \in graph[m]
       PROVE  \/ d \in ComponentOf(graph)[m] /\ depth[d] = depth[m]
              \/ depth[d] < depth[m]
  <2>1. CASE d \in ComponentOf(graph)[m]
    BY <1>1, <2>1
  <2>2. CASE d \notin ComponentOf(graph)[m]
    <3>1. d \in Below(graph)[m]
      BY <2>2, ComponentFacts
    <3> QED
      BY <1>1, <3>1 DEF OneAbove
  <2> QED
    BY <2>1, <2>2
<1> QED
  BY <1>6, <1>7, <1>8, <1>9, <1>10, <1>11 DEF L, depth
=============================================================================
