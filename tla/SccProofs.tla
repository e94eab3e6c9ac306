------------------------------- MODULE SccProofs -------------------------------
(***************************************************************************)
(* For any graphs: the iterative component search emits the components of  *)
(* mutual reachability, each whole, once, and after what it depends on.    *)
(***************************************************************************)
EXTENDS Scc, GraphProofs

Reaches(m, n) == n \in Reachable(dependencies)[m]

Emitted == Order!Emitted

(* The nodes whose frames are open.                                        *)
InProgress == {frames[i].node : i \in 1 .. Len(frames)}

(* The dependencies of a node that have been looked at.                    *)
LookedAt(m) ==
    {d \in dependencies[m] : \A i \in 1 .. Len(frames) : frames[i].node = m => d \notin frames[i].left}

Frame == [node : Nodes(dependencies), left : SUBSET Nodes(dependencies)]

SearchTypeOK ==
    /\ dependencies \in Graphs
    /\ Visited \subseteq Nodes(dependencies)
    /\ order \in [Visited -> Nat]
    /\ lowLink \in [Visited -> Nat]
    /\ stack \in Seq(Nodes(dependencies))
    /\ frames \in Seq(Frame)
    /\ found \in Seq(SUBSET Nodes(dependencies))

(* A node is numbered when it is first seen.                               *)
Numbered ==
    /\ \A m \in Visited : order[m] < Cardinality(Visited)
    /\ \A m, n \in Visited : order[m] = order[n] => m = n

(* Both stacks hold nodes in the order they were seen in.                  *)
StackInOrder ==
    \A i, j \in 1 .. Len(stack) : i < j => order[stack[i]] < order[stack[j]]

FramesInOrder ==
    /\ \A i \in 1 .. Len(frames) : frames[i].node \in OnStack
    /\ \A i, j \in 1 .. Len(frames) : i < j => order[frames[i].node] < order[frames[j].node]

(* What has been seen is on the stack until it is emitted, and what is     *)
(* emitted depends on nothing else.                                        *)
SeenOrEmitted ==
    /\ Visited = OnStack \cup Emitted
    /\ OnStack \cap Emitted = {}
    /\ Closed(dependencies, Emitted)

(* What a node on the stack has looked at was seen, and if it is on the    *)
(* stack, the low link is not above it.                                    *)
LowSeesLookedAt ==
    \A m \in OnStack :
        /\ LookedAt(m) \subseteq Visited
        /\ \A d \in LookedAt(m) \cap OnStack : lowLink[m] <= order[d]

(* A low link is the number of a node on the stack that can be reached; an *)
(* older one once the node's frame is closed.                              *)
LowIsReached ==
    \A m \in OnStack :
        /\ \E n \in OnStack : order[n] = lowLink[m] /\ Reaches(m, n)
        /\ lowLink[m] <= order[m]
        /\ m \notin InProgress => lowLink[m] < order[m]

(* Whatever was seen after a node in progress is reached from it.          *)
FramesReach ==
    \A i \in 1 .. Len(frames), x \in OnStack :
        order[frames[i].node] <= order[x] => Reaches(frames[i].node, x)

(* A frame knows the low links of what was finished above it.              *)
FramesKnow ==
    \A i \in 1 .. Len(frames), x \in OnStack \ InProgress :
        /\ order[frames[i].node] < order[x]
        /\ \A j \in 1 .. Len(frames) : i < j => order[x] < order[frames[j].node]
        => lowLink[frames[i].node] <= lowLink[x]

(* What a frame has left to look at are dependencies of its node.          *)
LeftToLookAt ==
    \A i \in 1 .. Len(frames) : frames[i].left \subseteq dependencies[frames[i].node]

SearchInv ==
    /\ LeftToLookAt
    /\ SearchTypeOK /\ Numbered /\ StackInOrder /\ FramesInOrder /\ SeenOrEmitted
    /\ LowSeesLookedAt /\ LowIsReached /\ FramesReach /\ FramesKnow

-----------------------------------------------------------------------------
(* A sequence without its last element.                                    *)
LEMMA FrontOf ==
    ASSUME NEW S, NEW s \in Seq(S), s # << >>
    PROVE  /\ Len(s) \in Nat \ {0} /\ Last(s) = s[Len(s)] /\ Last(s) \in S
           /\ Front(s) \in Seq(S) /\ Len(Front(s)) = Len(s) - 1
           /\ \A i \in 1 .. Len(s) - 1 : Front(s)[i] = s[i]
<1>1. Len(s) \in Nat \ {0}
  BY LenProperties, EmptySeq
<1>2. s[Len(s)] \in S
  BY <1>1, ElementOfSeq
<1> DEFINE n == Len(s) - 1
<1>3. n \in Nat /\ \A i \in 1 .. n : s[i] \in S
  <2>1. \A i \in 1 .. n : i \in 1 .. Len(s)
    BY <1>1
  <2> QED
    BY <1>1, <2>1, ElementOfSeq
<1> HIDE DEF n
<1>4. /\ SubSeq(s, 1, n) \in Seq(S)
      /\ Len(SubSeq(s, 1, n)) = n
      /\ \A i \in 1 .. n : SubSeq(s, 1, n)[i] = s[i]
  <2>1. /\ SubSeq(s, 1, n) \in Seq(S)
        /\ Len(SubSeq(s, 1, n)) = IF 1 <= n THEN n - 1 + 1 ELSE 0
        /\ \A i \in 1 .. n - 1 + 1 : SubSeq(s, 1, n)[i] = s[1 + i - 1]
    <3>1. \A m, k \in Int : (\A i \in m .. k : s[i] \in S) =>
             /\ SubSeq(s, m, k) \in Seq(S)
             /\ Len(SubSeq(s, m, k)) = IF m <= k THEN k - m + 1 ELSE 0
             /\ \A i \in 1 .. k - m + 1 : SubSeq(s, m, k)[i] = s[m + i - 1]
      BY SubSeqProperties
    <3> QED
      BY <1>3, <3>1
  <2>2. n - 1 + 1 = n /\ \A i \in 1 .. n : 1 + i - 1 = i
    BY <1>3
  <2>3. Len(SubSeq(s, 1, n)) = n
    BY <1>3, <2>1
  <2> QED
    BY <2>1, <2>2, <2>3
<1> QED
  BY <1>1, <1>2, <1>4 DEF Front, Last, n

(* Reachability is reflexive, follows dependencies, is transitive, and     *)
(* does not leave a closed set.                                            *)
LEMMA Reaching ==
    ASSUME dependencies \in Graphs
    PROVE  /\ \A m \in Nodes(dependencies) : Reaches(m, m)
           /\ \A m, n \in Nodes(dependencies) : \A d \in dependencies[n] :
                 Reaches(m, n) => Reaches(m, d)
           /\ \A m, n, o \in Nodes(dependencies) :
                 Reaches(m, n) /\ Reaches(n, o) => Reaches(m, o)
           /\ \A m \in Nodes(dependencies) : \A n : Reaches(m, n) => n \in Nodes(dependencies)
           /\ \A m, n \in Nodes(dependencies), S \in SUBSET Nodes(dependencies) :
                 Closed(dependencies, S) /\ m \in S /\ Reaches(m, n) => n \in S
<1> DEFINE N == Nodes(dependencies)
<1>1. dependencies \in [N -> SUBSET N]
  BY GraphsAssumption
<1>2. \A m \in N : \A n : Reaches(m, n) <=>
          n \in N /\ \A S \in SUBSET N : Closed(dependencies, S) /\ m \in S => n \in S
  BY DEF Reaches, Reachable
<1>3. \A m \in N : Reaches(m, m)
  BY <1>2
<1>4. ASSUME NEW m \in N, NEW n \in N, NEW d \in dependencies[n], Reaches(m, n)
      PROVE  Reaches(m, d)
  <2>1. d \in N
    BY <1>1
  <2>2. \A S \in SUBSET N : Closed(dependencies, S) /\ m \in S => d \in S
    BY <1>2, <1>4 DEF Closed
  <2> QED
    BY <1>2, <2>1, <2>2
<1>5. ASSUME NEW m \in N, NEW n \in N, NEW o \in N, Reaches(m, n), Reaches(n, o)
      PROVE  Reaches(m, o)
  BY <1>2, <1>5
<1> QED
  BY <1>2, <1>3, <1>4, <1>5

-----------------------------------------------------------------------------
(* What the invariant says of the stacks.                                  *)
LEMMA Stacks ==
    ASSUME SearchInv
    PROVE  /\ OnStack \subseteq Visited /\ Visited \subseteq Nodes(dependencies)
           /\ OnStack = {stack[i] : i \in 1 .. Len(stack)}
           /\ Len(stack) \in Nat /\ DOMAIN stack = 1 .. Len(stack)
           /\ Len(frames) \in Nat /\ DOMAIN frames = 1 .. Len(frames)
           /\ \A i \in 1 .. Len(frames) : frames[i] \in Frame
           /\ InProgress \subseteq OnStack
           /\ dependencies \in [Nodes(dependencies) -> SUBSET Nodes(dependencies)]
           /\ \A m \in Visited : order[m] \in Nat /\ lowLink[m] \in Nat
<1>1. SearchTypeOK /\ FramesInOrder /\ SeenOrEmitted
  BY DEF SearchInv
<1>2. /\ Len(stack) \in Nat /\ DOMAIN stack = 1 .. Len(stack)
      /\ Len(frames) \in Nat /\ DOMAIN frames = 1 .. Len(frames)
      /\ \A i \in 1 .. Len(frames) : frames[i] \in Frame
  BY <1>1, LenProperties, ElementOfSeq DEF SearchTypeOK
<1>3. OnStack = {stack[i] : i \in 1 .. Len(stack)}
  BY <1>2 DEF OnStack, ToSet
<1>4. OnStack \subseteq Visited /\ Visited \subseteq Nodes(dependencies)
  BY <1>1 DEF SeenOrEmitted, SearchTypeOK
<1>5. InProgress \subseteq OnStack
  BY <1>1 DEF InProgress, FramesInOrder
<1>6. dependencies \in [Nodes(dependencies) -> SUBSET Nodes(dependencies)]
  BY <1>1, GraphsAssumption DEF SearchTypeOK
<1>7. \A m \in Visited : order[m] \in Nat /\ lowLink[m] \in Nat
  BY <1>1 DEF SearchTypeOK
<1> QED
  BY <1>2, <1>3, <1>4, <1>5, <1>6, <1>7

(* The frame on top is the youngest, and the only one of its node.         *)
LEMMA TopFrame ==
    ASSUME SearchInv, frames # << >>
    PROVE  /\ Len(frames) \in 1 .. Len(frames) /\ Top = frames[Len(frames)]
           /\ Top \in Frame /\ Top.node \in OnStack /\ Top.left \subseteq Nodes(dependencies)
           /\ \A i \in 1 .. Len(frames) : i # Len(frames) =>
                 order[frames[i].node] < order[Top.node] /\ frames[i].node # Top.node
           /\ \A m \in InProgress : m # Top.node => order[m] < order[Top.node]
           /\ Front(frames) \in Seq(Frame) /\ Len(Front(frames)) = Len(frames) - 1
           /\ \A i \in 1 .. Len(frames) - 1 : Front(frames)[i] = frames[i]
<1>1. SearchTypeOK /\ FramesInOrder
  BY DEF SearchInv
<1>2. /\ Len(frames) \in Nat \ {0} /\ Top = frames[Len(frames)] /\ Top \in Frame
      /\ Front(frames) \in Seq(Frame) /\ Len(Front(frames)) = Len(frames) - 1
      /\ \A i \in 1 .. Len(frames) - 1 : Front(frames)[i] = frames[i]
  BY <1>1, FrontOf DEF SearchTypeOK, Top
<1>3. Len(frames) \in 1 .. Len(frames)
  BY <1>2
<1>4. Top.node \in OnStack /\ Top.left \subseteq Nodes(dependencies)
  BY <1>1, <1>2, <1>3 DEF FramesInOrder, Frame
<1>5. ASSUME NEW i \in 1 .. Len(frames), i # Len(frames)
      PROVE  order[frames[i].node] < order[Top.node] /\ frames[i].node # Top.node
  <2>1. i < Len(frames)
    BY <1>2, <1>5
  <2>2. order[frames[i].node] < order[Top.node]
    BY <1>1, <1>2, <1>3, <2>1 DEF FramesInOrder
  <2>3. order[Top.node] \in Nat
    BY <1>4, Stacks
  <2> QED
    BY <2>2, <2>3
<1>6. \A m \in InProgress : m # Top.node => order[m] < order[Top.node]
  BY <1>2, <1>5 DEF InProgress
<1> QED
  BY <1>2, <1>3, <1>4, <1>5, <1>6

(* Emitted and reachable depend on no other variable.                      *)
LEMMA Unmoved ==
    ASSUME dependencies' = dependencies
    PROVE  /\ \A m, n : Reaches(m, n)' <=> Reaches(m, n)
           /\ found' = found => Emitted' = Emitted
<1>1. \A m, n : Reaches(m, n)' <=> Reaches(m, n)
  BY DEF Reaches
<1>2. found' = found => Emitted' = Emitted
  BY DEF Emitted, Order!Emitted
<1> QED
  BY <1>1, <1>2

(* A node seen for the first time, with the frames that wait for it.       *)
LEMMA VisitKeeps ==
    ASSUME SearchInv, NEW node \in Unvisited, NEW waiting \in Seq(Frame),
           Len(waiting) = Len(frames),
           \A i \in 1 .. Len(frames) :
              /\ waiting[i].node = frames[i].node
              /\ frames[i].left \ {node} \subseteq waiting[i].left
              /\ waiting[i].left \subseteq frames[i].left
              /\ Reaches(frames[i].node, node),
           Visit(node, waiting)
    PROVE  SearchInv'
<1> DEFINE K == Len(frames)
           now == Cardinality(Visited)
           opened == [node |-> node, left |-> dependencies[node]]
<1>1. /\ LeftToLookAt /\ SearchTypeOK /\ Numbered /\ StackInOrder /\ FramesInOrder
      /\ SeenOrEmitted /\ LowSeesLookedAt /\ LowIsReached /\ FramesReach /\ FramesKnow
  BY DEF SearchInv
<1>2. node \in Nodes(dependencies) /\ node \notin Visited
  BY DEF Unvisited
<1>3. /\ dependencies' = dependencies /\ found' = found
      /\ order' = [m \in Visited \cup {node} |-> IF m = node THEN now ELSE order[m]]
      /\ lowLink' = [m \in Visited \cup {node} |-> IF m = node THEN now ELSE lowLink[m]]
      /\ stack' = Append(stack, node) /\ frames' = Append(waiting, opened)
  BY DEF Visit
<1>4. IsFiniteSet(Visited) /\ now \in Nat
  <2>1. IsFiniteSet(Nodes(dependencies))
    BY <1>1, GraphsAssumption DEF SearchTypeOK
  <2> QED
    BY <1>1, <2>1, FS_Subset, FS_CardinalityType DEF SearchTypeOK
<1>5. /\ Visited' = Visited \cup {node}
      /\ order'[node] = now /\ lowLink'[node] = now
      /\ \A m \in Visited : order'[m] = order[m] /\ lowLink'[m] = lowLink[m]
  BY <1>2, <1>3 DEF Visited
<1>6. \A m \in Visited : order[m] < now /\ order[m] \in Nat /\ lowLink[m] \in Nat
  BY <1>1, Stacks DEF Numbered
<1>7. dependencies[node] \in SUBSET Nodes(dependencies) /\ opened \in Frame
  BY <1>2, Stacks DEF Frame
<1>8. /\ K \in Nat /\ Len(frames') = K + 1 /\ frames' \in Seq(Frame)
      /\ frames'[K + 1] = opened
      /\ \A i \in 1 .. K : /\ frames'[i].node = frames[i].node
                           /\ frames[i].left \ {node} \subseteq frames'[i].left
                           /\ frames'[i].left \subseteq frames[i].left
  <2>1. /\ Append(waiting, opened) \in Seq(Frame)
        /\ Len(Append(waiting, opened)) = Len(waiting) + 1
        /\ \A i \in 1 .. Len(waiting) : Append(waiting, opened)[i] = waiting[i]
        /\ Append(waiting, opened)[Len(waiting) + 1] = opened
    BY <1>7, AppendProperties
  <2> QED
    BY <1>3, <2>1, Stacks
<1>9. /\ Len(stack) \in Nat /\ Len(stack') = Len(stack) + 1 /\ stack' \in Seq(Nodes(dependencies))
      /\ stack'[Len(stack) + 1] = node
      /\ \A i \in 1 .. Len(stack) : stack'[i] = stack[i]
  BY <1>1, <1>2, <1>3, AppendProperties, Stacks DEF SearchTypeOK
<1>10. OnStack' = OnStack \cup {node}
  <2>1. DOMAIN stack' = 1 .. Len(stack) + 1
    BY <1>9, LenProperties
  <2>2. OnStack' = {stack'[i] : i \in 1 .. Len(stack) + 1}
    BY <2>1 DEF OnStack, ToSet
  <2>3. 1 .. Len(stack) + 1 = (1 .. Len(stack)) \cup {Len(stack) + 1}
    BY <1>9
  <2> QED
    BY <1>9, <2>2, <2>3, Stacks, SMTT(30)
<1>11. /\ \A i \in 1 .. Len(frames') : i \in 1 .. K \/ i = K + 1
       /\ \A i \in 1 .. K : i \in 1 .. Len(frames')
       /\ K + 1 \in 1 .. Len(frames')
  BY <1>8
<1>12. InProgress' = InProgress \cup {node}
  BY <1>8, <1>11 DEF InProgress
<1>13. Emitted' = Emitted /\ \A m, n : Reaches(m, n)' <=> Reaches(m, n)
  BY <1>3, Unmoved
<1>14. OnStack \subseteq Visited /\ InProgress \subseteq OnStack /\ Visited \subseteq Nodes(dependencies)
  BY Stacks
<1>15. \A i \in 1 .. K : frames[i].node \in InProgress
  BY DEF InProgress
<1>16. \A m \in OnStack : LookedAt(m)' \subseteq LookedAt(m) \cup {node}
  <2> SUFFICES ASSUME NEW m \in OnStack, NEW d \in LookedAt(m)', d # node
               PROVE  d \in LookedAt(m)
    OBVIOUS
  <2>1. d \in dependencies[m]
    BY <1>3 DEF LookedAt
  <2>2. \A i \in 1 .. K : frames[i].node = m => d \notin frames[i].left
    BY <1>8, <1>11 DEF LookedAt
  <2> QED
    BY <2>1, <2>2 DEF LookedAt
<1>17. LookedAt(node)' = {}
  BY <1>3, <1>8, <1>11 DEF LookedAt
<1> HIDE DEF K, now, opened
<1>20. LeftToLookAt'
  <2> SUFFICES ASSUME NEW i \in 1 .. Len(frames')
               PROVE  frames'[i].left \subseteq dependencies[frames'[i].node]
    BY <1>3 DEF LeftToLookAt
  <2>1. CASE i = K + 1
    BY <1>8, <2>1 DEF opened
  <2>2. CASE i \in 1 .. K
    <3>1. frames[i].left \subseteq dependencies[frames[i].node]
      BY <1>1, <2>2 DEF LeftToLookAt, K
    <3> QED
      BY <1>8, <2>2, <3>1
  <2> QED
    BY <1>11, <2>1, <2>2
<1>21. SearchTypeOK'
  <2>1. order' \in [Visited' -> Nat] /\ lowLink' \in [Visited' -> Nat]
    BY <1>2, <1>3, <1>4, <1>5, <1>6 DEF Visited
  <2> QED
    BY <1>1, <1>2, <1>3, <1>5, <1>8, <1>9, <1>14, <2>1 DEF SearchTypeOK, Frame
<1>22. Numbered'
  <2>1. Cardinality(Visited') = now + 1
    BY <1>2, <1>4, <1>5, FS_AddElement DEF now
  <2>2. \A m \in Visited' : order'[m] < Cardinality(Visited')
    BY <1>4, <1>5, <1>6, <2>1
  <2>3. \A m, n \in Visited' : order'[m] = order'[n] => m = n
    BY <1>1, <1>4, <1>5, <1>6 DEF Numbered
  <2> QED
    BY <2>2, <2>3 DEF Numbered
<1>23. StackInOrder'
  <2> SUFFICES ASSUME NEW i \in 1 .. Len(stack'), NEW j \in 1 .. Len(stack'), i < j
               PROVE  order'[stack'[i]] < order'[stack'[j]]
    BY DEF StackInOrder
  <2>1. i \in 1 .. Len(stack) /\ stack'[i] = stack[i] /\ stack[i] \in OnStack
    <3>1. i \in 1 .. Len(stack)
      BY <1>9
    <3> QED
      BY <1>9, <3>1, Stacks
  <2>2. CASE j = Len(stack) + 1
    BY <1>5, <1>6, <1>9, <1>14, <2>1, <2>2
  <2>3. CASE j # Len(stack) + 1
    <3>1. j \in 1 .. Len(stack) /\ stack'[j] = stack[j] /\ stack[j] \in OnStack
      <4>1. j \in 1 .. Len(stack)
        BY <1>9, <2>3, SMTT(30)
      <4> QED
        BY <1>9, <4>1, Stacks
    <3>2. order[stack[i]] < order[stack[j]]
      BY <1>1, <2>1, <3>1 DEF StackInOrder
    <3> QED
      BY <1>5, <1>14, <2>1, <3>1, <3>2
  <2> QED
    BY <2>2, <2>3
<1>24. FramesInOrder'
  <2>1. \A i \in 1 .. Len(frames') : frames'[i].node \in OnStack'
    BY <1>8, <1>10, <1>11, <1>14, <1>15 DEF opened
  <2> SUFFICES ASSUME NEW i \in 1 .. Len(frames'), NEW j \in 1 .. Len(frames'), i < j
               PROVE  order'[frames'[i].node] < order'[frames'[j].node]
    BY <2>1 DEF FramesInOrder
  <2>2. i \in 1 .. K /\ frames'[i].node = frames[i].node /\ frames[i].node \in Visited
    BY <1>8, <1>14, <1>15
  <2>3. CASE j = K + 1
    BY <1>5, <1>6, <1>8, <2>2, <2>3 DEF opened
  <2>4. CASE j # K + 1
    <3>1. j \in 1 .. K /\ frames'[j].node = frames[j].node /\ frames[j].node \in Visited
      BY <1>8, <1>11, <1>14, <1>15, <2>4
    <3>2. order[frames[i].node] < order[frames[j].node]
      BY <1>1, <2>2, <3>1 DEF FramesInOrder, K
    <3> QED
      BY <1>5, <2>2, <3>1, <3>2
  <2> QED
    BY <2>3, <2>4
<1>25. SeenOrEmitted'
  <2>1. node \notin Emitted
    BY <1>1, <1>2 DEF SeenOrEmitted
  <2> QED
    BY <1>1, <1>3, <1>5, <1>10, <1>13, <2>1 DEF SeenOrEmitted, Closed
<1>26. LowSeesLookedAt'
  <2> SUFFICES ASSUME NEW m \in OnStack'
               PROVE  /\ LookedAt(m)' \subseteq Visited'
                      /\ \A d \in LookedAt(m)' \cap OnStack' : lowLink'[m] <= order'[d]
    BY DEF LowSeesLookedAt
  <2>1. CASE m = node
    BY <1>17, <2>1
  <2>2. CASE m # node
    <3>1. m \in OnStack /\ m \in Visited
      BY <1>10, <1>14, <2>2
    <3>2. LookedAt(m) \subseteq Visited /\ \A d \in LookedAt(m) \cap OnStack : lowLink[m] <= order[d]
      BY <1>1, <3>1 DEF LowSeesLookedAt
    <3>3. lowLink[m] <= order[m] /\ order[m] < now /\ order[m] \in Nat /\ lowLink[m] \in Nat
      BY <1>1, <1>6, <3>1 DEF LowIsReached
    <3>4. lowLink'[m] <= now
      BY <1>4, <1>5, <3>1, <3>3
    <3>5. \A d \in LookedAt(m)' \cap OnStack' : d = node \/ d \in LookedAt(m) \cap OnStack
      BY <1>10, <1>16, <3>1
    <3> QED
      BY <1>5, <1>14, <1>16, <3>1, <3>2, <3>4, <3>5
  <2> QED
    BY <2>1, <2>2
<1>27. LowIsReached'
  <2> SUFFICES ASSUME NEW m \in OnStack'
               PROVE  /\ \E n \in OnStack' : order'[n] = lowLink'[m] /\ Reaches(m, n)
                      /\ lowLink'[m] <= order'[m]
                      /\ m \notin InProgress' => lowLink'[m] < order'[m]
    BY <1>13 DEF LowIsReached
  <2>1. CASE m = node
    <3>1. Reaches(node, node)
      BY <1>1, <1>2, Reaching DEF SearchTypeOK
    <3> QED
      BY <1>4, <1>5, <1>10, <1>12, <2>1, <3>1
  <2>2. CASE m # node
    <3>1. m \in OnStack /\ m \in Visited
      BY <1>10, <1>14, <2>2
    <3> QED
      BY <1>1, <1>5, <1>10, <1>12, <1>14, <3>1 DEF LowIsReached
  <2> QED
    BY <2>1, <2>2
<1>28. FramesReach'
  <2> SUFFICES ASSUME NEW i \in 1 .. Len(frames'), NEW x \in OnStack',
                      order'[frames'[i].node] <= order'[x]
               PROVE  Reaches(frames'[i].node, x)
    BY <1>13 DEF FramesReach
  <2>1. CASE i = K + 1
    <3>1. x = node
      BY <1>4, <1>5, <1>6, <1>8, <1>10, <1>14, <2>1 DEF opened
    <3> QED
      BY <1>1, <1>2, <1>8, <2>1, <3>1, Reaching DEF SearchTypeOK, opened
  <2>2. CASE i # K + 1
    <3>1. i \in 1 .. K /\ frames'[i].node = frames[i].node /\ frames[i].node \in Visited
      BY <1>8, <1>11, <1>14, <1>15, <2>2
    <3>2. CASE x = node
      BY <3>1, <3>2 DEF K
    <3>3. CASE x # node
      <4>1. x \in OnStack /\ x \in Visited
        BY <1>10, <1>14, <3>3
      <4> QED
        BY <1>1, <1>5, <3>1, <4>1 DEF FramesReach, K
    <3> QED
      BY <3>2, <3>3
  <2> QED
    BY <2>1, <2>2
<1>29. FramesKnow'
  <2> SUFFICES ASSUME NEW i \in 1 .. Len(frames'), NEW x \in OnStack' \ InProgress',
                      order'[frames'[i].node] < order'[x],
                      \A j \in 1 .. Len(frames') : i < j => order'[x] < order'[frames'[j].node]
               PROVE  lowLink'[frames'[i].node] <= lowLink'[x]
    BY DEF FramesKnow
  <2>1. x \in OnStack \ InProgress /\ x \in Visited
    BY <1>10, <1>12, <1>14
  <2>2. i \in 1 .. K
    <3>1. CASE i = K + 1
      BY <1>4, <1>5, <1>6, <1>8, <2>1, <3>1 DEF opened
    <3> QED
      BY <1>11, <3>1
  <2>3. frames'[i].node = frames[i].node /\ frames[i].node \in Visited
    BY <1>8, <1>14, <1>15, <2>2
  <2>4. \A j \in 1 .. K : i < j => order[x] < order[frames[j].node]
    BY <1>5, <1>8, <1>11, <1>14, <1>15, <2>1
  <2>5. lowLink[frames[i].node] <= lowLink[x]
    BY <1>1, <1>5, <2>1, <2>2, <2>3, <2>4 DEF FramesKnow, K
  <2> QED
    BY <1>5, <2>1, <2>3, <2>5
<1> QED
  BY <1>20, <1>21, <1>22, <1>23, <1>24, <1>25, <1>26, <1>27, <1>28, <1>29 DEF SearchInv

LEMMA StartRootKeeps ==
    ASSUME SearchInv, StartRoot
    PROVE  SearchInv'
<1>1. PICK root \in Unvisited : frames = << >> /\ Visit(root, frames)
  BY DEF StartRoot
<1>2. Len(frames) = 0 /\ frames \in Seq(Frame)
  BY <1>1 DEF SearchInv, SearchTypeOK
<1>3. 1 .. Len(frames) = {}
  BY <1>2
<1> QED
  BY <1>1, <1>2, <1>3, VisitKeeps

(* The frames once the one on top has looked at next.                      *)
LEMMA LookedFrames ==
    ASSUME SearchInv, frames # << >>, NEW next \in Top.left
    PROVE  /\ Looked(next) \in Seq(Frame) /\ Len(Looked(next)) = Len(frames)
           /\ \A i \in 1 .. Len(frames) :
                 /\ Looked(next)[i].node = frames[i].node
                 /\ frames[i].left \ {next} \subseteq Looked(next)[i].left
                 /\ Looked(next)[i].left \subseteq frames[i].left
           /\ \A i \in 1 .. Len(frames) - 1 : Looked(next)[i] = frames[i]
           /\ Looked(next)[Len(frames)].left = Top.left \ {next}
<1> DEFINE K == Len(frames)
           top == [Top EXCEPT !.left = @ \ {next}]
<1>1. /\ K \in Nat /\ K \in 1 .. K /\ Top = frames[K] /\ Top \in Frame
      /\ Front(frames) \in Seq(Frame) /\ Len(Front(frames)) = K - 1
      /\ \A i \in 1 .. K - 1 : Front(frames)[i] = frames[i]
  BY TopFrame, Stacks
<1>2. top \in Frame /\ top.node = Top.node /\ top.left = Top.left \ {next}
  BY <1>1 DEF Frame
<1>3. /\ Looked(next) \in Seq(Frame) /\ Len(Looked(next)) = K
      /\ \A i \in 1 .. K - 1 : Looked(next)[i] = frames[i]
      /\ Looked(next)[K] = top
  <2>1. /\ Append(Front(frames), top) \in Seq(Frame)
        /\ Len(Append(Front(frames), top)) = Len(Front(frames)) + 1
        /\ \A i \in 1 .. Len(Front(frames)) : Append(Front(frames), top)[i] = Front(frames)[i]
        /\ Append(Front(frames), top)[Len(Front(frames)) + 1] = top
    BY <1>1, <1>2, AppendProperties
  <2>2. K - 1 + 1 = K
    BY <1>1
  <2> QED
    BY <1>1, <2>1, <2>2 DEF Looked
<1>4. \A i \in 1 .. K : i \in 1 .. K - 1 \/ i = K
  BY <1>1
<1> HIDE DEF top, K
<1>5. \A i \in 1 .. K : /\ Looked(next)[i].node = frames[i].node
                        /\ frames[i].left \ {next} \subseteq Looked(next)[i].left
                        /\ Looked(next)[i].left \subseteq frames[i].left
  BY <1>1, <1>2, <1>3, <1>4
<1> QED
  BY <1>2, <1>3, <1>5 DEF K

LEMMA DescendKeeps ==
    ASSUME SearchInv, Descend
    PROVE  SearchInv'
<1>1. PICK next \in Top.left \cap Unvisited : frames # << >> /\ Visit(next, Looked(next))
  BY DEF Descend
<1>2. next \in dependencies[Top.node]
  BY <1>1, TopFrame DEF SearchInv, LeftToLookAt
<1>3. /\ Top.node \in Nodes(dependencies) /\ Top.node \in OnStack
      /\ Len(frames) \in 1 .. Len(frames) /\ Top = frames[Len(frames)]
  BY <1>1, TopFrame, Stacks
<1>4. dependencies \in Graphs
  BY DEF SearchInv, SearchTypeOK
<1>5. \A i \in 1 .. Len(frames) : Reaches(frames[i].node, next)
  <2> SUFFICES ASSUME NEW i \in 1 .. Len(frames)
               PROVE  Reaches(frames[i].node, next)
    OBVIOUS
  <2>1. frames[i].node \in Nodes(dependencies) /\ order[frames[i].node] <= order[Top.node]
    <3>1. frames[i].node \in OnStack /\ frames[i].node \in Nodes(dependencies)
      BY Stacks DEF InProgress
    <3>2. order[Top.node] \in Nat /\ order[frames[i].node] \in Nat
      BY <1>3, <3>1, Stacks
    <3> QED
      BY <1>1, <1>3, <3>1, <3>2, TopFrame
  <2>2. Reaches(frames[i].node, Top.node)
    BY <1>3, <2>1 DEF SearchInv, FramesReach
  <2> QED
    BY <1>2, <1>3, <1>4, <2>1, <2>2, Reaching
<1>6. /\ Looked(next) \in Seq(Frame) /\ Len(Looked(next)) = Len(frames)
      /\ \A i \in 1 .. Len(frames) :
            /\ Looked(next)[i].node = frames[i].node
            /\ frames[i].left \ {next} \subseteq Looked(next)[i].left
            /\ Looked(next)[i].left \subseteq frames[i].left
  BY <1>1, LookedFrames
<1> QED
  BY <1>1, <1>5, <1>6, VisitKeeps

LEMMA LookAtVisitedKeeps ==
    ASSUME SearchInv, LookAtVisited
    PROVE  SearchInv'
<1> DEFINE K == Len(frames)
<1>0. PICK T : T = Top.node
  OBVIOUS
<1>1. /\ LeftToLookAt /\ SearchTypeOK /\ Numbered /\ StackInOrder /\ FramesInOrder
      /\ SeenOrEmitted /\ LowSeesLookedAt /\ LowIsReached /\ FramesReach /\ FramesKnow
  BY DEF SearchInv
<1>2. PICK next \in Top.left \cap Visited :
          /\ lowLink' = IF next \in OnStack
                        THEN [lowLink EXCEPT ![T] = Less(@, order[next])] ELSE lowLink
          /\ frames' = Looked(next)
  BY <1>0 DEF LookAtVisited
<1>3. /\ frames # << >> /\ dependencies' = dependencies /\ order' = order
      /\ stack' = stack /\ found' = found
  BY DEF LookAtVisited
<1>4. /\ Visited' = Visited /\ OnStack' = OnStack /\ Emitted' = Emitted
      /\ \A m, n : Reaches(m, n)' <=> Reaches(m, n)
  BY <1>3, Unmoved DEF Visited, OnStack
<1>5. /\ T \in OnStack /\ T \in Visited /\ T \in Nodes(dependencies)
      /\ K \in 1 .. K /\ K \in Nat /\ Top = frames[K]
      /\ OnStack \subseteq Visited /\ InProgress \subseteq OnStack
      /\ \A m \in Visited : order[m] \in Nat /\ lowLink[m] \in Nat
  BY <1>0, <1>3, TopFrame, Stacks
<1>6. next \in dependencies[T]
  BY <1>0, <1>1, <1>2, <1>5 DEF LeftToLookAt
<1>7. /\ lowLink' \in [Visited -> Nat] /\ lowLink'[T] <= lowLink[T]
      /\ \A m \in Visited : m # T => lowLink'[m] = lowLink[m]
      /\ next \in OnStack => lowLink'[T] <= order[next]
      /\ lowLink'[T] = lowLink[T] \/ (next \in OnStack /\ lowLink'[T] = order[next])
  <2>1. lowLink \in [Visited -> Nat] /\ order[next] \in Nat /\ lowLink[T] \in Nat
    BY <1>1, <1>5 DEF SearchTypeOK
  <2> QED
    BY <1>2, <1>5, <2>1 DEF Less
<1>8. \A m \in Visited : lowLink'[m] \in Nat /\ lowLink'[m] <= lowLink[m]
  BY <1>5, <1>7
<1>9. /\ frames' \in Seq(Frame) /\ Len(frames') = K
      /\ \A i \in 1 .. K : /\ frames'[i].node = frames[i].node
                           /\ frames[i].left \ {next} \subseteq frames'[i].left
                           /\ frames'[i].left \subseteq frames[i].left
      /\ \A i \in 1 .. K - 1 : frames'[i] = frames[i]
  BY <1>2, <1>3, LookedFrames
<1>10. InProgress' = InProgress /\ \A i \in 1 .. K : frames[i].node \in InProgress
  BY <1>9 DEF InProgress
<1>11. \A m : m # T => LookedAt(m)' \subseteq LookedAt(m)
  <2> SUFFICES ASSUME NEW m, m # T, NEW d \in LookedAt(m)'
               PROVE  d \in LookedAt(m)
    OBVIOUS
  <2>1. d \in dependencies[m]
    BY <1>3 DEF LookedAt
  <2>2. \A i \in 1 .. K : frames[i].node = m => d \notin frames[i].left
    <3> SUFFICES ASSUME NEW i \in 1 .. K, frames[i].node = m
                 PROVE  d \notin frames[i].left
      OBVIOUS
    <3>1. i \in 1 .. K - 1
      BY <1>0, <1>5
    <3> QED
      BY <1>9, <3>1 DEF LookedAt
  <2> QED
    BY <2>1, <2>2 DEF LookedAt
<1>12. LookedAt(T)' \subseteq LookedAt(T) \cup {next}
  <2> SUFFICES ASSUME NEW d \in LookedAt(T)', d # next
               PROVE  d \in LookedAt(T)
    OBVIOUS
  <2>1. d \in dependencies[T]
    BY <1>3 DEF LookedAt
  <2>2. \A i \in 1 .. K : frames[i].node = T => d \notin frames[i].left
    BY <1>9 DEF LookedAt
  <2> QED
    BY <2>1, <2>2 DEF LookedAt
<1> HIDE DEF K
<1>20. LeftToLookAt'
  BY <1>1, <1>3, <1>9 DEF LeftToLookAt, K
<1>21. SearchTypeOK'
  BY <1>1, <1>3, <1>4, <1>7, <1>9 DEF SearchTypeOK, Frame
<1>22. Numbered' /\ StackInOrder' /\ SeenOrEmitted'
  BY <1>1, <1>3, <1>4 DEF Numbered, StackInOrder, SeenOrEmitted, Closed
<1>23. FramesInOrder'
  BY <1>1, <1>3, <1>4, <1>9 DEF FramesInOrder, K
<1>24. LowSeesLookedAt'
  <2> SUFFICES ASSUME NEW m \in OnStack
               PROVE  /\ LookedAt(m)' \subseteq Visited
                      /\ \A d \in LookedAt(m)' \cap OnStack : lowLink'[m] <= order[d]
    BY <1>3, <1>4 DEF LowSeesLookedAt
  <2>1. /\ LookedAt(m) \subseteq Visited /\ lowLink[m] \in Nat
        /\ \A d \in LookedAt(m) \cap OnStack : lowLink[m] <= order[d]
    BY <1>1, <1>5 DEF LowSeesLookedAt
  <2>2. CASE m # T
    BY <1>5, <1>7, <1>11, <2>1, <2>2
  <2>3. CASE m = T
    <3>1. LookedAt(T)' \subseteq Visited
      BY <1>2, <1>12, <2>1, <2>3
    <3>2. ASSUME NEW d \in LookedAt(T)' \cap OnStack
          PROVE  lowLink'[T] <= order[d]
      <4>1. CASE d = next
        BY <1>7, <3>2, <4>1
      <4>2. CASE d # next
        <5>1. d \in LookedAt(T) \cap OnStack /\ order[d] \in Nat
          BY <1>5, <1>12, <3>2, <4>2
        <5>2. lowLink[T] <= order[d]
          BY <2>1, <2>3, <5>1
        <5> QED
          BY <1>5, <1>8, <5>1, <5>2
      <4> QED
        BY <4>1, <4>2
    <3> QED
      BY <2>3, <3>1, <3>2
  <2> QED
    BY <2>2, <2>3
<1>25. LowIsReached'
  <2> SUFFICES ASSUME NEW m \in OnStack
               PROVE  /\ \E n \in OnStack : order[n] = lowLink'[m] /\ Reaches(m, n)
                      /\ lowLink'[m] <= order[m]
                      /\ m \notin InProgress => lowLink'[m] < order[m]
    BY <1>3, <1>4, <1>10 DEF LowIsReached
  <2>1. /\ \E n \in OnStack : order[n] = lowLink[m] /\ Reaches(m, n)
        /\ lowLink[m] <= order[m]
        /\ m \notin InProgress => lowLink[m] < order[m]
    BY <1>1 DEF LowIsReached
  <2>2. \E n \in OnStack : order[n] = lowLink'[m] /\ Reaches(m, n)
    <3>1. CASE lowLink'[m] = lowLink[m]
      BY <2>1, <3>1
    <3>2. CASE lowLink'[m] # lowLink[m]
      <4>1. m = T /\ next \in OnStack /\ lowLink'[m] = order[next]
        BY <1>5, <1>7, <3>2
      <4>2. Reaches(T, next)
        BY <1>1, <1>5, <1>6, Reaching DEF SearchTypeOK
      <4> QED
        BY <4>1, <4>2
    <3> QED
      BY <3>1, <3>2
  <2>3. lowLink'[m] <= lowLink[m] /\ lowLink'[m] \in Nat /\ lowLink[m] \in Nat /\ order[m] \in Nat
    BY <1>5, <1>8
  <2> QED
    BY <2>1, <2>2, <2>3
<1>26. FramesReach'
  BY <1>1, <1>3, <1>4, <1>9 DEF FramesReach, K
<1>27. FramesKnow'
  <2> SUFFICES ASSUME NEW i \in 1 .. K, NEW x \in OnStack \ InProgress,
                      order[frames[i].node] < order[x],
                      \A j \in 1 .. K : i < j => order[x] < order[frames[j].node]
               PROVE  lowLink'[frames[i].node] <= lowLink'[x]
    BY <1>3, <1>4, <1>9, <1>10 DEF FramesKnow
  <2>1. lowLink[frames[i].node] <= lowLink[x]
    BY <1>1 DEF FramesKnow, K
  <2>2. x # T /\ x \in Visited /\ frames[i].node \in Visited
    BY <1>0, <1>5, <1>10
  <2> QED
    BY <1>5, <1>7, <1>8, <2>1, <2>2
<1> QED
  BY <1>20, <1>21, <1>22, <1>23, <1>24, <1>25, <1>26, <1>27 DEF SearchInv

-----------------------------------------------------------------------------
(* What is on the stack from the node of the top frame on.                 *)
Younger == {x \in OnStack : order[Top.node] <= order[x]}

(* Cutting the stack at that node takes the younger nodes off it.          *)
LEMMA CutAt ==
    ASSUME SearchInv, frames # << >>,
           NEW from, from = CHOOSE i \in DOMAIN stack : stack[i] = Top.node
    PROVE  /\ {stack[i] : i \in from .. Len(stack)} = Younger
           /\ from \in 1 .. Len(stack)
           /\ SubSeq(stack, 1, from - 1) \in Seq(Nodes(dependencies))
           /\ Len(SubSeq(stack, 1, from - 1)) = from - 1
           /\ \A i \in 1 .. from - 1 : SubSeq(stack, 1, from - 1)[i] = stack[i]
           /\ ToSet(SubSeq(stack, 1, from - 1)) = OnStack \ Younger
<1> DEFINE L == Len(stack)
           cut == SubSeq(stack, 1, from - 1)
<1>1. /\ L \in Nat /\ DOMAIN stack = 1 .. L /\ OnStack = {stack[i] : i \in 1 .. L}
      /\ Top.node \in OnStack /\ stack \in Seq(Nodes(dependencies)) /\ StackInOrder
      /\ \A m \in OnStack : order[m] \in Nat
  <2>1. Top.node \in OnStack
    BY TopFrame
  <2>2. stack \in Seq(Nodes(dependencies)) /\ StackInOrder
    BY DEF SearchInv, SearchTypeOK
  <2> QED
    BY <2>1, <2>2, Stacks
<1>2. from \in 1 .. L /\ stack[from] = Top.node
  <2>1. \E i \in DOMAIN stack : stack[i] = Top.node
    BY <1>1
  <2> QED
    BY <1>1, <2>1
<1>3. \A i \in 1 .. L : stack[i] \in Younger <=> from <= i
  <2> SUFFICES ASSUME NEW i \in 1 .. L
               PROVE  stack[i] \in Younger <=> from <= i
    OBVIOUS
  <2>1. /\ stack[i] \in OnStack /\ order[stack[i]] \in Nat /\ order[Top.node] \in Nat
        /\ i \in Nat /\ from \in Nat
    BY <1>1, <1>2
  <2>2. CASE i = from
    BY <1>2, <2>1, <2>2 DEF Younger
  <2>3. CASE i < from
    <3>1. order[stack[i]] < order[Top.node]
      BY <1>1, <1>2, <2>3 DEF StackInOrder
    <3> QED
      BY <2>1, <2>3, <3>1 DEF Younger
  <2>4. CASE from < i
    <3>1. order[Top.node] < order[stack[i]]
      BY <1>1, <1>2, <2>4 DEF StackInOrder
    <3> QED
      BY <2>1, <2>4, <3>1 DEF Younger
  <2> QED
    BY <2>1, <2>2, <2>3, <2>4
<1>4. {stack[i] : i \in from .. L} = Younger
  <2>1. \A i \in from .. L : i \in 1 .. L /\ from <= i
    BY <1>1, <1>2
  <2>2. \A i \in 1 .. L : from <= i => i \in from .. L
    BY <1>1, <1>2
  <2>3. Younger \subseteq OnStack
    BY DEF Younger
  <2> QED
    BY <1>1, <1>3, <2>1, <2>2, <2>3
<1>5. cut \in Seq(Nodes(dependencies)) /\ Len(cut) = from - 1 /\ \A i \in 1 .. from - 1 : cut[i] = stack[i]
  <2> DEFINE n == from - 1
  <2>1. n \in Nat /\ n \in Int /\ 1 \in Int /\ \A i \in 1 .. n : i \in 1 .. L
    BY <1>1, <1>2
  <2>2. \A i \in 1 .. n : stack[i] \in Nodes(dependencies)
    BY <1>1, <2>1, ElementOfSeq
  <2> HIDE DEF n
  <2>3. /\ SubSeq(stack, 1, n) \in Seq(Nodes(dependencies))
        /\ Len(SubSeq(stack, 1, n)) = IF 1 <= n THEN n - 1 + 1 ELSE 0
        /\ \A i \in 1 .. n - 1 + 1 : SubSeq(stack, 1, n)[i] = stack[1 + i - 1]
    <3>1. \A m, k \in Int : (\A i \in m .. k : stack[i] \in Nodes(dependencies)) =>
             /\ SubSeq(stack, m, k) \in Seq(Nodes(dependencies))
             /\ Len(SubSeq(stack, m, k)) = IF m <= k THEN k - m + 1 ELSE 0
             /\ \A i \in 1 .. k - m + 1 : SubSeq(stack, m, k)[i] = stack[m + i - 1]
      BY SubSeqProperties
    <3> QED
      BY <2>1, <2>2, <3>1
  <2>4. n - 1 + 1 = n /\ \A i \in 1 .. n : 1 + i - 1 = i
    BY <2>1
  <2>5. Len(SubSeq(stack, 1, n)) = n
    BY <2>1, <2>3
  <2> QED
    BY <2>3, <2>4, <2>5 DEF n
<1> HIDE DEF cut
<1>6. ToSet(cut) = OnStack \ Younger
  <2>1. DOMAIN cut = 1 .. from - 1
    BY <1>5, LenProperties
  <2>2. ToSet(cut) = {stack[i] : i \in 1 .. from - 1}
    BY <1>5, <2>1 DEF ToSet
  <2>3. \A i \in 1 .. L : i \in 1 .. from - 1 <=> ~ (from <= i)
    BY <1>1, <1>2
  <2>4. \A i \in 1 .. from - 1 : i \in 1 .. L
    BY <1>1, <1>2
  <2> QED
    BY <1>1, <1>3, <2>2, <2>3, <2>4, ZenonT(40)
<1> QED
  BY <1>2, <1>4, <1>5, <1>6 DEF cut

(* A node that reaches nothing older than itself has its component on top  *)
(* of the stack.                                                           *)
LEMMA Closing ==
    ASSUME SearchInv, frames # << >>, Top.left = {}, lowLink[Top.node] = order[Top.node]
    PROVE  /\ Younger = ComponentOf(dependencies)[Top.node]
           /\ Closed(dependencies, Younger \cup Emitted)
<1> DEFINE K == Len(frames)
<1>0. PICK T : T = Top.node
  OBVIOUS
<1>1. /\ SearchTypeOK /\ Numbered /\ SeenOrEmitted
      /\ LowSeesLookedAt /\ LowIsReached /\ FramesReach /\ FramesKnow
  BY DEF SearchInv
<1>2. /\ T \in OnStack /\ T \in Nodes(dependencies) /\ lowLink[T] = order[T]
      /\ K \in 1 .. K /\ K \in Nat /\ frames[K].node = T /\ frames[K].left = {}
      /\ \A i \in 1 .. K : i # K => frames[i].node # T
      /\ \A m \in InProgress : m # T => order[m] < order[T]
  BY <1>0, TopFrame, Stacks
<1>3. /\ OnStack \subseteq Visited /\ Visited \subseteq Nodes(dependencies)
      /\ Emitted \subseteq Nodes(dependencies)
      /\ \A m \in Visited : order[m] \in Nat /\ lowLink[m] \in Nat
      /\ dependencies \in [Nodes(dependencies) -> SUBSET Nodes(dependencies)]
      /\ dependencies \in Graphs
  BY <1>1, Stacks DEF SeenOrEmitted, SearchTypeOK
<1>4. Younger = {x \in OnStack : order[T] <= order[x]} /\ T \in Younger
  BY <1>0, <1>2, <1>3 DEF Younger
<1>5. ASSUME NEW x \in Younger, x # T
      PROVE  order[T] < order[x] /\ x \notin InProgress /\ order[T] <= lowLink[x]
  <2>1. /\ x \in OnStack /\ order[T] <= order[x] /\ order[x] \in Nat /\ order[T] \in Nat
        /\ x \in Visited /\ T \in Visited
    BY <1>2, <1>3, <1>4
  <2>2. order[T] < order[x]
    BY <1>1, <1>5, <2>1 DEF Numbered
  <2>3. x \notin InProgress
    BY <1>2, <1>5, <2>1, <2>2
  <2>4. \A j \in 1 .. K : ~ (K < j)
    BY <1>2
  <2>5. lowLink[T] <= lowLink[x]
    BY <1>1, <1>2, <2>1, <2>2, <2>3, <2>4 DEF FramesKnow
  <2> QED
    BY <1>2, <2>2, <2>3, <2>5
<1>6. ASSUME NEW x \in Younger, NEW d \in dependencies[x]
      PROVE  d \in Younger \cup Emitted
  <2>1. d \in LookedAt(x)
    <3>1. \A i \in 1 .. K : frames[i].node = x => d \notin frames[i].left
      BY <1>2, <1>5 DEF InProgress
    <3> QED
      BY <1>6, <3>1 DEF LookedAt
  <2>2. x \in OnStack
    BY <1>4
  <2>3. d \in OnStack \cup Emitted
    BY <1>1, <2>1, <2>2 DEF LowSeesLookedAt, SeenOrEmitted
  <2>4. CASE d \in OnStack
    <3>1. lowLink[x] <= order[d]
      BY <1>1, <2>1, <2>2, <2>4 DEF LowSeesLookedAt
    <3>2. order[T] <= lowLink[x]
      BY <1>2, <1>3, <1>5
    <3> QED
      BY <1>2, <1>3, <1>4, <2>2, <2>4, <3>1, <3>2
  <2> QED
    BY <2>3, <2>4
<1>7. Closed(dependencies, Younger \cup Emitted)
  BY <1>1, <1>6 DEF Closed, SeenOrEmitted
<1>8. \A x \in Younger : Reaches(T, x)
  BY <1>1, <1>2, <1>4 DEF FramesReach
<1>9. \A x \in Younger : Reaches(x, T)
  <2> DEFINE bad == {x \in Younger : ~ Reaches(x, T)}
             numbers == {order[x] : x \in bad}
  <2> SUFFICES ASSUME bad # {}
               PROVE  FALSE
    OBVIOUS
  <2>1. numbers \subseteq Nat /\ numbers # {}
    BY <1>3, <1>4
  <2>2. PICK least \in numbers : \A k \in numbers : least <= k
    BY <2>1, LeastNumber
  <2>3. PICK x \in bad : \A y \in bad : order[x] <= order[y]
    BY <2>2
  <2>4. x \in Younger /\ ~ Reaches(x, T) /\ x # T
    BY <1>2, <1>3, Reaching
  <2>5. x \in OnStack /\ x \in Visited /\ x \notin InProgress /\ order[T] <= lowLink[x]
    BY <1>3, <1>4, <1>5, <2>4
  <2>6. PICK n \in OnStack : order[n] = lowLink[x] /\ Reaches(x, n) /\ lowLink[x] < order[x]
    BY <1>1, <2>5 DEF LowIsReached
  <2>7. n \in Younger
    BY <1>4, <2>5, <2>6
  <2>8. order[n] < order[x] /\ order[n] \in Nat /\ order[x] \in Nat
    BY <1>3, <2>5, <2>6
  <2>9. n \notin bad
    BY <2>3, <2>8
  <2>10. Reaches(n, T)
    BY <2>7, <2>9
  <2>11. n \in Nodes(dependencies) /\ x \in Nodes(dependencies)
    BY <1>3, <2>5, <2>6
  <2> QED
    BY <1>2, <1>3, <2>4, <2>6, <2>10, <2>11, Reaching
<1>10. ComponentOf(dependencies)[T] = {n \in Nodes(dependencies) : Reaches(T, n) /\ Reaches(n, T)}
  <2>1. \A n : Reaches(T, n) => n \in Nodes(dependencies)
    BY <1>2, <1>3, Reaching
  <2>2. ComponentOf(dependencies)[T] = {n \in Reachable(dependencies)[T] : T \in Reachable(dependencies)[n]}
    BY <1>2 DEF ComponentOf
  <2> QED
    BY <2>1, <2>2 DEF Reaches
<1>11. ASSUME NEW n \in Nodes(dependencies), Reaches(T, n), Reaches(n, T)
       PROVE  n \in Younger
  <2>1. Younger \cup Emitted \in SUBSET Nodes(dependencies) /\ T \in Younger \cup Emitted
    BY <1>3, <1>4
  <2>2. n \in Younger \cup Emitted
    BY <1>2, <1>3, <1>7, <1>11, <2>1, Reaching
  <2>3. CASE n \in Emitted
    <3>1. T \in Emitted
      BY <1>1, <1>2, <1>3, <1>11, <2>3, Reaching DEF SeenOrEmitted
    <3> QED
      BY <1>1, <1>2, <3>1 DEF SeenOrEmitted
  <2> QED
    BY <2>2, <2>3
<1>12. \A x \in Younger : x \in Nodes(dependencies)
  BY <1>3, <1>4
<1> QED
  BY <1>0, <1>7, <1>8, <1>9, <1>10, <1>11, <1>12

(* What closing a frame does to the stack and to what is emitted.          *)
LEMMA FinishTakes ==
    ASSUME SearchInv, Finish
    PROVE  /\ lowLink[Top.node] = order[Top.node] =>
                 /\ found' = Append(found, Younger)
                 /\ OnStack' = OnStack \ Younger /\ Emitted' = Emitted \cup Younger
           /\ lowLink[Top.node] # order[Top.node] =>
                 found' = found /\ OnStack' = OnStack /\ Emitted' = Emitted
           /\ stack' \in Seq(Nodes(dependencies)) /\ found' \in Seq(SUBSET Nodes(dependencies))
           /\ StackInOrder'
<1> PICK from : from = CHOOSE i \in DOMAIN stack : stack[i] = Top.node
  OBVIOUS
<1>1. /\ frames # << >> /\ dependencies' = dependencies /\ order' = order
      /\ IF lowLink[Top.node] = order[Top.node]
         THEN /\ found' = Append(found, {stack[i] : i \in from .. Len(stack)})
              /\ stack' = SubSeq(stack, 1, from - 1)
         ELSE UNCHANGED <<found, stack>>
  BY DEF Finish
<1>2. /\ found \in Seq(SUBSET Nodes(dependencies)) /\ stack \in Seq(Nodes(dependencies))
      /\ StackInOrder
  BY DEF SearchInv, SearchTypeOK
<1>3. CASE lowLink[Top.node] # order[Top.node]
  <2>1. found' = found /\ stack' = stack
    BY <1>1, <1>3
  <2>2. OnStack' = OnStack /\ Emitted' = Emitted
    BY <1>1, <2>1, Unmoved DEF OnStack
  <2>3. StackInOrder'
    BY <1>1, <1>2, <2>1 DEF StackInOrder
  <2> QED
    BY <1>2, <1>3, <2>1, <2>2, <2>3
<1>4. CASE lowLink[Top.node] = order[Top.node]
  <2>1. /\ {stack[i] : i \in from .. Len(stack)} = Younger
        /\ from \in 1 .. Len(stack)
        /\ stack' \in Seq(Nodes(dependencies)) /\ Len(stack') = from - 1
        /\ \A i \in 1 .. from - 1 : stack'[i] = stack[i]
        /\ ToSet(stack') = OnStack \ Younger
        /\ found' = Append(found, Younger)
    <3>1. /\ found' = Append(found, {stack[i] : i \in from .. Len(stack)})
          /\ stack' = SubSeq(stack, 1, from - 1)
      BY <1>1, <1>4
    <3> DEFINE cut == SubSeq(stack, 1, from - 1)
    <3>2. /\ {stack[i] : i \in from .. Len(stack)} = Younger
          /\ from \in 1 .. Len(stack)
          /\ cut \in Seq(Nodes(dependencies)) /\ Len(cut) = from - 1
          /\ \A i \in 1 .. from - 1 : cut[i] = stack[i]
          /\ ToSet(cut) = OnStack \ Younger
      BY <1>1, CutAt
    <3>3. stack' = cut
      BY <3>1
    <3> HIDE DEF cut
    <3> QED
      BY <3>1, <3>2, <3>3
  <2>2. Younger \in SUBSET Nodes(dependencies)
    BY Stacks DEF Younger
  <2>3. OnStack' = OnStack \ Younger
    BY <2>1 DEF OnStack
  <2>4. /\ found' \in Seq(SUBSET Nodes(dependencies)) /\ Len(found) \in Nat
        /\ Len(found') = Len(found) + 1 /\ found'[Len(found) + 1] = Younger
        /\ \A i \in 1 .. Len(found) : found'[i] = found[i]
    BY <1>2, <2>1, <2>2, AppendProperties, LenProperties
  <2>5. Emitted' = Emitted \cup Younger
    <3>1. DOMAIN found = 1 .. Len(found) /\ DOMAIN found' = 1 .. Len(found) + 1
      BY <1>2, <2>4, LenProperties
    <3>2. Emitted = UNION {found[i] : i \in 1 .. Len(found)}
      BY <3>1 DEF Emitted, Order!Emitted
    <3>3. Emitted' = UNION {found'[i] : i \in 1 .. Len(found) + 1}
      BY <3>1 DEF Emitted, Order!Emitted
    <3>4. 1 .. Len(found) + 1 = (1 .. Len(found)) \cup {Len(found) + 1}
      BY <2>4
    <3>5. {found'[i] : i \in 1 .. Len(found) + 1} = {found[i] : i \in 1 .. Len(found)} \cup {Younger}
      BY <2>4, <3>4
    <3> QED
      BY <3>2, <3>3, <3>5
  <2>6. StackInOrder'
    <3> SUFFICES ASSUME NEW i \in 1 .. Len(stack'), NEW j \in 1 .. Len(stack'), i < j
                 PROVE  order'[stack'[i]] < order'[stack'[j]]
      BY DEF StackInOrder
    <3>1. i \in 1 .. Len(stack) /\ j \in 1 .. Len(stack) /\ stack'[i] = stack[i] /\ stack'[j] = stack[j]
      <4>1. Len(stack) \in Nat
        BY Stacks
      <4> QED
        BY <2>1, <4>1
    <3> QED
      BY <1>1, <1>2, <3>1 DEF StackInOrder
  <2> QED
    BY <1>4, <2>1, <2>3, <2>4, <2>5, <2>6
<1> QED
  BY <1>3, <1>4

LEMMA FinishKeeps ==
    ASSUME SearchInv, Finish
    PROVE  SearchInv'
<1> DEFINE K == Len(frames)
<1>0. PICK T, closed : T = Top.node /\ closed = IF lowLink[T] = order[T] THEN Younger ELSE {}
  OBVIOUS
<1>1. /\ LeftToLookAt /\ SearchTypeOK /\ Numbered /\ StackInOrder /\ FramesInOrder
      /\ SeenOrEmitted /\ LowSeesLookedAt /\ LowIsReached /\ FramesReach /\ FramesKnow
  BY DEF SearchInv
<1>2. /\ frames # << >> /\ Top.left = {} /\ frames' = Front(frames)
      /\ dependencies' = dependencies /\ order' = order
      /\ lowLink' = IF Len(frames) = 1 THEN lowLink
                    ELSE [lowLink EXCEPT ![Last(Front(frames)).node] = Less(@, lowLink[Top.node])]
  BY DEF Finish
<1>3. /\ Visited' = Visited /\ \A m, n : Reaches(m, n)' <=> Reaches(m, n)
  BY <1>2, Unmoved DEF Visited
<1>4. /\ T \in OnStack /\ T \in Visited /\ T \in Nodes(dependencies)
      /\ K \in 1 .. K /\ K \in Nat /\ frames[K].node = T /\ frames[K].left = {}
      /\ \A i \in 1 .. K : i # K => order[frames[i].node] < order[T] /\ frames[i].node # T
      /\ OnStack \subseteq Visited /\ InProgress \subseteq OnStack
      /\ Visited \subseteq Nodes(dependencies)
      /\ \A m \in Visited : order[m] \in Nat /\ lowLink[m] \in Nat
  BY <1>0, <1>2, TopFrame, Stacks
<1>5. /\ frames' \in Seq(Frame) /\ Len(frames') = K - 1
      /\ \A i \in 1 .. K - 1 : i \in 1 .. K /\ i # K /\ frames'[i] = frames[i]
  BY <1>2, <1>4, TopFrame
<1>6. /\ closed = {} \/ closed = {x \in OnStack : order[T] <= order[x]}
      /\ lowLink[T] # order[T] => closed = {}
      /\ lowLink[T] = order[T] => closed = {x \in OnStack : order[T] <= order[x]}
  BY <1>0 DEF Younger
<1>7. /\ OnStack' = OnStack \ closed /\ Emitted' = Emitted \cup closed
      /\ stack' \in Seq(Nodes(dependencies)) /\ found' \in Seq(SUBSET Nodes(dependencies))
      /\ StackInOrder'
  BY <1>0, FinishTakes
<1>8. Closed(dependencies, Emitted \cup closed)
  <2>1. CASE closed = {}
    BY <1>1, <2>1 DEF SeenOrEmitted
  <2>2. CASE closed # {}
    <3>1. closed = Younger /\ lowLink[Top.node] = order[Top.node]
      BY <1>0, <2>2
    <3>2. Closed(dependencies, Younger \cup Emitted)
      BY <1>2, <3>1, Closing
    <3>3. Younger \cup Emitted = Emitted \cup closed
      BY <3>1
    <3> QED
      BY <3>2, <3>3
  <2> QED
    BY <2>1, <2>2
<1>9. \A i \in 1 .. K : frames[i].node \in InProgress /\ frames[i].node \in Visited
  BY <1>4 DEF InProgress
<1>10. InProgress' = InProgress \ {T}
  <2>1. \A i \in 1 .. K : i # K => i \in 1 .. K - 1
    BY <1>4
  <2>2. InProgress' = {frames[i].node : i \in 1 .. K - 1}
    BY <1>5 DEF InProgress
  <2> QED
    BY <1>4, <1>5, <2>1, <2>2 DEF InProgress
<1>11. /\ lowLink' \in [Visited -> Nat]
       /\ \A m \in Visited : lowLink'[m] \in Nat /\ lowLink'[m] <= lowLink[m]
       /\ \A m \in Visited : m \notin InProgress \/ m = T => lowLink'[m] = lowLink[m]
       /\ \A m \in Visited : lowLink'[m] # lowLink[m] =>
             order[m] < order[T] /\ lowLink'[m] = lowLink[T] /\ lowLink[T] < lowLink[m]
       /\ \A i \in 1 .. K : i = K - 1 => lowLink'[frames[i].node] <= lowLink[T]
  <2>1. lowLink \in [Visited -> Nat]
    BY <1>1 DEF SearchTypeOK
  <2>2. CASE K = 1
    BY <1>2, <1>4, <2>1, <2>2
  <2>3. CASE K # 1
    <3>1. K - 1 \in 1 .. K - 1 /\ K - 1 \in 1 .. K /\ K - 1 # K
      <4>1. \A k \in Nat : k \in 1 .. k /\ k # 1 =>
               k - 1 \in 1 .. k - 1 /\ k - 1 \in 1 .. k /\ k - 1 # k
        OBVIOUS
      <4> HIDE DEF K
      <4> QED
        BY <1>4, <2>3, <4>1
    <3>2. PICK P : P = frames[K - 1].node
      OBVIOUS
    <3>3. P \in InProgress /\ P \in Visited /\ P # T /\ order[P] < order[T]
      BY <1>4, <1>9, <3>1, <3>2
    <3>4. Last(Front(frames)) = frames[K - 1]
      BY <1>2, <1>5, <3>1 DEF Last
    <3>5. lowLink' = [lowLink EXCEPT ![P] = Less(@, lowLink[T])]
      BY <1>0, <1>2, <2>3, <3>2, <3>4
    <3>6. \A m \in Visited : lowLink'[m] = IF m = P THEN Less(lowLink[P], lowLink[T]) ELSE lowLink[m]
      BY <2>1, <3>5
    <3>7. lowLink[P] \in Nat /\ lowLink[T] \in Nat
      BY <1>4, <3>3
    <3>8. Less(lowLink[P], lowLink[T]) \in Nat
      BY <3>7 DEF Less
    <3>9. lowLink' \in [Visited -> Nat]
      BY <2>1, <3>5, <3>8
    <3>10. /\ lowLink'[P] \in Nat /\ lowLink'[P] <= lowLink[P] /\ lowLink'[P] <= lowLink[T]
           /\ lowLink'[P] # lowLink[P] => lowLink'[P] = lowLink[T] /\ lowLink[T] < lowLink[P]
      BY <3>3, <3>6, <3>7 DEF Less
    <3>11. \A m \in Visited : m # P => lowLink'[m] = lowLink[m]
      BY <3>6
    <3>12. \A m \in Visited : lowLink'[m] \in Nat /\ lowLink'[m] <= lowLink[m]
      BY <1>4, <3>10, <3>11
    <3>13. \A m \in Visited : m \notin InProgress \/ m = T => lowLink'[m] = lowLink[m]
      BY <3>3, <3>11
    <3>14. \A m \in Visited : lowLink'[m] # lowLink[m] =>
              order[m] < order[T] /\ lowLink'[m] = lowLink[T] /\ lowLink[T] < lowLink[m]
      BY <3>3, <3>10, <3>11
    <3>15. \A i \in 1 .. K : i = K - 1 => lowLink'[frames[i].node] <= lowLink[T]
      BY <3>2, <3>10
    <3> QED
      BY <3>9, <3>12, <3>13, <3>14, <3>15
  <2> QED
    BY <2>2, <2>3
<1>12. \A m : LookedAt(m)' \subseteq LookedAt(m)
  <2> SUFFICES ASSUME NEW m, NEW d \in LookedAt(m)'
               PROVE  d \in LookedAt(m)
    OBVIOUS
  <2>1. d \in dependencies[m]
    BY <1>2 DEF LookedAt
  <2>2. \A i \in 1 .. K : frames[i].node = m => d \notin frames[i].left
    <3> SUFFICES ASSUME NEW i \in 1 .. K, frames[i].node = m
                 PROVE  d \notin frames[i].left
      OBVIOUS
    <3>1. i = K \/ i \in 1 .. K - 1
      BY <1>4
    <3> QED
      BY <1>4, <1>5, <3>1 DEF LookedAt
  <2> QED
    BY <2>1, <2>2 DEF LookedAt
<1>13. \A m \in OnStack : order[m] < order[T] => m \in OnStack \ closed
  <2>1. order[T] \in Nat /\ \A m \in OnStack : order[m] \in Nat
    BY <1>4
  <2> QED
    BY <1>6, <2>1
<1> HIDE DEF K
<1>20. LeftToLookAt'
  BY <1>1, <1>2, <1>5 DEF LeftToLookAt, K
<1>21. SearchTypeOK'
  BY <1>1, <1>2, <1>3, <1>5, <1>7, <1>11 DEF SearchTypeOK, Frame
<1>22. Numbered'
  BY <1>1, <1>2, <1>3 DEF Numbered
<1>23. FramesInOrder'
  <2>1. \A i \in 1 .. K - 1 : frames[i].node \in OnStack \ closed
    BY <1>1, <1>4, <1>5, <1>13 DEF FramesInOrder, K
  <2>2. \A i, j \in 1 .. K - 1 : i < j => order[frames[i].node] < order[frames[j].node]
    BY <1>1, <1>5 DEF FramesInOrder, K
  <2> QED
    BY <1>2, <1>5, <1>7, <2>1, <2>2 DEF FramesInOrder
<1>24. SeenOrEmitted'
  <2>1. closed \subseteq OnStack
    BY <1>6
  <2>2. Visited = OnStack \cup Emitted /\ OnStack \cap Emitted = {}
    BY <1>1 DEF SeenOrEmitted
  <2>3. Closed(dependencies', Emitted')
    BY <1>2, <1>7, <1>8
  <2> QED
    BY <1>3, <1>7, <2>1, <2>2, <2>3 DEF SeenOrEmitted
<1>25. LowSeesLookedAt'
  <2> SUFFICES ASSUME NEW m \in OnStack
               PROVE  /\ LookedAt(m)' \subseteq Visited
                      /\ \A d \in LookedAt(m)' \cap OnStack : lowLink'[m] <= order[d]
    BY <1>2, <1>3, <1>7 DEF LowSeesLookedAt
  <2>1. LookedAt(m) \subseteq Visited /\ \A d \in LookedAt(m) \cap OnStack : lowLink[m] <= order[d]
    BY <1>1 DEF LowSeesLookedAt
  <2>2. lowLink'[m] \in Nat /\ lowLink'[m] <= lowLink[m] /\ lowLink[m] \in Nat
    BY <1>4, <1>11
  <2> QED
    BY <1>4, <1>12, <2>1, <2>2
<1>26. LowIsReached'
  <2> SUFFICES ASSUME NEW m \in OnStack \ closed
               PROVE  /\ \E n \in OnStack \ closed : order[n] = lowLink'[m] /\ Reaches(m, n)
                      /\ lowLink'[m] <= order[m]
                      /\ m \notin InProgress' => lowLink'[m] < order[m]
    BY <1>2, <1>3, <1>7 DEF LowIsReached
  <2>1. \A o \in OnStack :
           /\ \E n \in OnStack : order[n] = lowLink[o] /\ Reaches(o, n)
           /\ lowLink[o] <= order[o]
           /\ o \notin InProgress => lowLink[o] < order[o]
    BY <1>1 DEF LowIsReached
  <2>2. /\ m \in OnStack /\ m \in Visited /\ order[m] \in Nat /\ lowLink[m] \in Nat
        /\ lowLink'[m] \in Nat /\ lowLink'[m] <= lowLink[m]
        /\ order[T] \in Nat /\ lowLink[T] \in Nat /\ lowLink[T] <= order[T]
    BY <1>4, <1>11, <2>1
  <2>3. m \notin InProgress' => lowLink'[m] < order[m]
    <3>1. CASE m # T
      BY <1>10, <2>1, <2>2, <3>1
    <3>2. CASE m = T
      BY <1>6, <2>2, <3>2
    <3> QED
      BY <3>1, <3>2
  <2>4. CASE lowLink'[m] = lowLink[m]
    <3>1. PICK n \in OnStack : order[n] = lowLink[m] /\ Reaches(m, n)
      BY <2>1, <2>2
    <3>2. n \in OnStack \ closed
      <4>1. CASE lowLink[T] # order[T]
        BY <1>6, <4>1
      <4>2. CASE lowLink[T] = order[T]
        BY <1>6, <1>13, <2>1, <2>2, <3>1, <4>2
      <4> QED
        BY <4>1, <4>2
    <3> QED
      BY <2>1, <2>2, <2>3, <2>4, <3>1, <3>2
  <2>5. CASE lowLink'[m] # lowLink[m]
    <3>1. order[m] < order[T] /\ lowLink'[m] = lowLink[T] /\ lowLink[T] < lowLink[m]
      BY <1>11, <2>2, <2>5
    <3>2. lowLink[T] < order[T]
      BY <2>1, <2>2, <3>1
    <3>3. PICK n \in OnStack : order[n] = lowLink[T] /\ Reaches(T, n)
      BY <1>4, <2>1
    <3>4. m \in InProgress
      BY <1>11, <2>2, <2>5
    <3>5. Reaches(m, T)
      <4>1. PICK i \in 1 .. Len(frames) : frames[i].node = m
        BY <3>4 DEF InProgress
      <4> QED
        BY <1>1, <1>4, <2>2, <3>1, <4>1 DEF FramesReach
    <3>6. n \in Nodes(dependencies) /\ m \in Nodes(dependencies)
      BY <1>4, <2>2, <3>3
    <3>7. Reaches(m, n)
      BY <1>1, <1>4, <3>3, <3>5, <3>6, Reaching DEF SearchTypeOK
    <3>8. n \in OnStack \ closed
      BY <1>13, <3>2, <3>3
    <3> QED
      BY <2>1, <2>2, <2>3, <3>1, <3>3, <3>7, <3>8
  <2> QED
    BY <2>4, <2>5
<1>27. FramesReach'
  BY <1>1, <1>2, <1>3, <1>5, <1>7 DEF FramesReach, K
<1>28. FramesKnow'
  <2> SUFFICES ASSUME NEW i \in 1 .. K - 1, NEW x \in OnStack \ closed, x \notin InProgress',
                      order[frames[i].node] < order[x],
                      \A j \in 1 .. K - 1 : i < j => order[x] < order[frames[j].node]
               PROVE  lowLink'[frames[i].node] <= lowLink'[x]
    BY <1>2, <1>5, <1>7 DEF FramesKnow
  <2>1. /\ i \in 1 .. K /\ frames[i].node \in Visited /\ x \in Visited
        /\ lowLink'[frames[i].node] \in Nat /\ lowLink'[frames[i].node] <= lowLink[frames[i].node]
        /\ order[x] \in Nat /\ order[T] \in Nat /\ lowLink[T] \in Nat
        /\ lowLink[frames[i].node] \in Nat /\ lowLink[x] \in Nat
    BY <1>4, <1>5, <1>9, <1>11
  <2>2. (x \notin InProgress \/ x = T) /\ lowLink'[x] = lowLink[x]
    BY <1>10, <1>11, <2>1
  <2>3. CASE order[x] < order[T]
    <3>1. x \notin InProgress
      BY <2>1, <2>2, <2>3
    <3>2. \A j \in 1 .. K : i < j => order[x] < order[frames[j].node]
      <4>1. \A j \in 1 .. K : j \in 1 .. K - 1 \/ j = K
        BY <1>4
      <4> QED
        BY <1>4, <2>3, <4>1
    <3>3. lowLink[frames[i].node] <= lowLink[x]
      BY <1>1, <2>1, <3>1, <3>2 DEF FramesKnow, K
    <3> QED
      BY <2>1, <2>2, <3>3
  <2>4. CASE ~ (order[x] < order[T])
    <3>1. i = K - 1
      <4>1. CASE i # K - 1
        <5>1. K - 1 \in 1 .. K - 1 /\ i < K - 1 /\ K - 1 # K /\ K - 1 \in 1 .. K
          BY <1>4, <4>1
        <5>2. order[x] < order[frames[K - 1].node] /\ order[frames[K - 1].node] < order[T]
          BY <1>4, <5>1
        <5>3. order[frames[K - 1].node] \in Nat
          BY <1>4, <1>9, <5>1
        <5> QED
          BY <2>1, <2>4, <5>2, <5>3
      <4> QED
        BY <4>1
    <3>2. lowLink'[frames[i].node] <= lowLink[T]
      BY <1>11, <2>1, <3>1
    <3>3. lowLink[T] <= lowLink[x]
      <4>1. CASE x = T
        BY <2>1, <4>1
      <4>2. CASE x # T
        <5>1. order[T] < order[x]
          BY <1>1, <1>4, <2>1, <2>4, <4>2 DEF Numbered
        <5>2. \A j \in 1 .. K : ~ (K < j)
          BY <1>4
        <5> QED
          BY <1>1, <1>4, <2>2, <4>2, <5>1, <5>2 DEF FramesKnow, K
      <4> QED
        BY <4>1, <4>2
    <3> QED
      BY <2>1, <2>2, <3>2, <3>3
  <2> QED
    BY <2>3, <2>4
<1> QED
  BY <1>7, <1>20, <1>21, <1>22, <1>23, <1>24, <1>25, <1>26, <1>27, <1>28 DEF SearchInv

-----------------------------------------------------------------------------
LEMMA StillKeeps ==
    ASSUME SearchInv, UNCHANGED <<dependencies, search>>
    PROVE  SearchInv'
<1>1. /\ dependencies' = dependencies /\ order' = order /\ lowLink' = lowLink
      /\ stack' = stack /\ frames' = frames /\ found' = found
  BY DEF search
<1>2. /\ Visited' = Visited /\ OnStack' = OnStack /\ InProgress' = InProgress
      /\ Emitted' = Emitted /\ \A m, n : Reaches(m, n)' <=> Reaches(m, n)
  BY <1>1, Unmoved DEF Visited, OnStack, InProgress
<1>3. \A m : LookedAt(m)' = LookedAt(m)
  BY <1>1 DEF LookedAt
<1>4. LeftToLookAt' /\ SearchTypeOK' /\ Numbered' /\ StackInOrder'
  BY <1>1, <1>2 DEF SearchInv, LeftToLookAt, SearchTypeOK, Numbered, StackInOrder, Frame
<1>5. FramesInOrder' /\ SeenOrEmitted' /\ FramesReach' /\ FramesKnow'
  BY <1>1, <1>2 DEF SearchInv, FramesInOrder, SeenOrEmitted, Closed, FramesReach, FramesKnow
<1>6. LowSeesLookedAt' /\ LowIsReached'
  BY <1>1, <1>2, <1>3 DEF SearchInv, LowSeesLookedAt, LowIsReached
<1> QED
  BY <1>4, <1>5, <1>6 DEF SearchInv

LEMMA StartKeeps ==
    ASSUME SccInit
    PROVE  SearchInv
<1>1. /\ dependencies \in Graphs /\ found = << >> /\ order = << >> /\ lowLink = << >>
      /\ stack = << >> /\ frames = << >>
  BY DEF SccInit
<1>2. Visited = {} /\ OnStack = {} /\ Emitted = {}
  BY <1>1 DEF Visited, OnStack, ToSet, Emitted, Order!Emitted
<1>3. 1 .. Len(frames) = {} /\ 1 .. Len(stack) = {}
  BY <1>1
<1>4. SearchTypeOK
  BY <1>1, <1>2 DEF SearchTypeOK, Visited
<1>5. /\ LeftToLookAt /\ Numbered /\ StackInOrder /\ FramesInOrder /\ SeenOrEmitted
      /\ LowSeesLookedAt /\ LowIsReached /\ FramesReach /\ FramesKnow
  BY <1>2, <1>3 DEF LeftToLookAt, Numbered, StackInOrder, FramesInOrder, SeenOrEmitted, Closed,
                    LowSeesLookedAt, LowIsReached, FramesReach, FramesKnow
<1> QED
  BY <1>4, <1>5 DEF SearchInv

(* Every step of the search and of the layering keeps what it relies on.   *)
LEMMA StepKeeps ==
    ASSUME SearchInv, [SccNext]_vars
    PROVE  SearchInv'
<1>1. CASE StartRoot
  BY <1>1, StartRootKeeps
<1>2. CASE Descend
  BY <1>2, DescendKeeps
<1>3. CASE LookAtVisited
  BY <1>3, LookAtVisitedKeeps
<1>4. CASE Finish
  BY <1>4, FinishKeeps
<1>5. CASE PlaceComponent
  BY <1>5, StillKeeps DEF PlaceComponent
<1>6. CASE Done \/ UNCHANGED vars
  BY <1>6, StillKeeps DEF Done, vars
<1> QED
  BY <1>1, <1>2, <1>3, <1>4, <1>5, <1>6 DEF SccNext

(* A finished frame that closes a component emits it whole, and only after *)
(* what it depends on.                                                     *)
LEMMA FinishEmits ==
    ASSUME SearchInv, Finish
    PROVE  Order!Emit \/ UNCHANGED <<dependencies, found>>
<1>1. frames # << >> /\ Top.left = {} /\ dependencies' = dependencies
  BY DEF Finish
<1>2. CASE lowLink[Top.node] # order[Top.node]
  BY <1>1, <1>2, FinishTakes
<1>3. CASE lowLink[Top.node] = order[Top.node]
  <2>1. /\ Younger = ComponentOf(dependencies)[Top.node]
        /\ Closed(dependencies, Younger \cup Emitted)
        /\ found' = Append(found, Younger)
    BY <1>1, <1>3, Closing, FinishTakes
  <2>2. Younger \cap Emitted = {}
    BY DEF SearchInv, SeenOrEmitted, Younger
  <2>3. Order!Ready(Younger)
    BY <2>1, <2>2 DEF Order!Ready, Closed, Emitted
  <2>4. Top.node \in Nodes(dependencies)
    BY <1>1, TopFrame, Stacks
  <2> QED
    <3>1. /\ Order!Nodes(dependencies) = Nodes(dependencies)
          /\ Order!ComponentOf(dependencies) = ComponentOf(dependencies)
      BY DEF Nodes, Closed, Reachable, ComponentOf,
             Order!Nodes, Order!Closed, Order!Reachable, Order!ComponentOf
    <3>2. Order!Ready(ComponentOf(dependencies)[Top.node])
          /\ found' = Append(found, ComponentOf(dependencies)[Top.node])
      BY <2>1, <2>3
    <3> QED
      BY <1>1, <2>4, <3>1, <3>2 DEF Order!Emit
<1> QED
  BY <1>2, <1>3

(* For any finite graphs, the iterative search of scc.rs, in whatever      *)
(* order it visits nodes and dependencies, emits components whole, each    *)
(* once, and each only after every component it depends on.                *)
THEOREM SearchImplementsOrder ==
    SccSpec => OrderSpec
<1>1. SccInit => SearchInv /\ Order!OrderInit
  BY StartKeeps DEF SccInit, Order!OrderInit
<1>2. SearchInv /\ [SccNext]_vars => SearchInv'
  BY StepKeeps
<1>3. SearchInv /\ [SccNext]_vars => [Order!Emit]_<<dependencies, found>>
  <2> SUFFICES ASSUME SearchInv, [SccNext]_vars
               PROVE  Order!Emit \/ UNCHANGED <<dependencies, found>>
    OBVIOUS
  <2>1. CASE Finish
    BY <2>1, FinishEmits
  <2>2. CASE StartRoot \/ Descend
    BY <2>2 DEF StartRoot, Descend, Visit
  <2>3. CASE LookAtVisited
    BY <2>3 DEF LookAtVisited
  <2>4. CASE PlaceComponent \/ Done \/ UNCHANGED vars
    BY <2>4 DEF PlaceComponent, Done, vars, search
  <2> QED
    BY <2>1, <2>2, <2>3, <2>4 DEF SccNext
<1> QED
  BY <1>1, <1>2, <1>3, PTL DEF SccSpec, OrderSpec, Order!OrderSpec

-----------------------------------------------------------------------------
(* The layers.                                                             *)

(* What has been emitted: whole components, each once, and each after what *)
(* it depends on.                                                          *)
FoundInv ==
    /\ \A i \in 1 .. Len(found) : \E m \in Nodes(dependencies) :
          found[i] = ComponentOf(dependencies)[m]
    /\ \A i, j \in 1 .. Len(found) : i # j => found[i] \cap found[j] = {}
    /\ \A i \in 1 .. Len(found) : \A m \in found[i] : \A d \in dependencies[m] :
          \E j \in 1 .. i : d \in found[j]

(* What has been placed: every component at its nodes' depth, in as many   *)
(* layers as the deepest asks for.                                         *)
PlacedInv ==
    /\ placed \in 0 .. Len(found)
    /\ depth \in [1 .. placed -> Nat]
    /\ \A i \in 1 .. placed : \A m \in found[i] : depth[i] = Depth(dependencies)[m]
    /\ layers \in Seq(SUBSET Nodes(dependencies))
    /\ \A k \in 1 .. Len(layers) :
          layers[k] = {m \in Nodes(dependencies) :
                          \E i \in 1 .. placed : m \in found[i] /\ depth[i] + 1 = k}
    /\ \A i \in 1 .. placed : depth[i] + 1 \in 1 .. Len(layers)
    /\ Len(layers) = 0 \/ \E i \in 1 .. placed : depth[i] + 1 = Len(layers)

LayersInv == SearchInv /\ FoundInv /\ PlacedInv

(* A sequence with one more element.                                       *)
LEMMA AppendFacts ==
    ASSUME NEW S, NEW s \in Seq(S), NEW e \in S
    PROVE  /\ Append(s, e) \in Seq(S) /\ Len(s) \in Nat /\ Len(Append(s, e)) = Len(s) + 1
           /\ \A i \in 1 .. Len(s) : Append(s, e)[i] = s[i] /\ i \in 1 .. Len(s) + 1
           /\ Append(s, e)[Len(s) + 1] = e
           /\ \A i \in 1 .. Len(s) + 1 : i \in 1 .. Len(s) \/ i = Len(s) + 1
  BY AppendProperties, LenProperties

(* The search keeps what it emitted, and what it emits joins it.           *)
LEMMA EmitKeepsFound ==
    ASSUME SearchInv, FoundInv, Order!Emit \/ UNCHANGED <<dependencies, found>>
    PROVE  /\ FoundInv' /\ dependencies' = dependencies
           /\ Len(found) \in Nat /\ Len(found') \in Nat /\ Len(found) <= Len(found')
           /\ \A i \in 1 .. Len(found) : found'[i] = found[i]
<1> DEFINE V == Nodes(dependencies)
           C == ComponentOf(dependencies)
<1>1. found \in Seq(SUBSET V) /\ Len(found) \in Nat
  BY LenProperties DEF SearchInv, SearchTypeOK
<1>2. CASE UNCHANGED <<dependencies, found>>
  BY <1>1, <1>2 DEF FoundInv
<1>3. CASE Order!Emit
  <2>1. /\ Order!Nodes(dependencies) = V
        /\ Order!ComponentOf(dependencies) = C
    BY DEF Nodes, Closed, Reachable, ComponentOf,
           Order!Nodes, Order!Closed, Order!Reachable, Order!ComponentOf
  <2>2. PICK m \in V : Order!Ready(C[m]) /\ found' = Append(found, C[m])
    BY <1>3, <2>1 DEF Order!Emit
  <2>3. dependencies' = dependencies
    BY <1>3 DEF Order!Emit
  <2>4. C[m] \in SUBSET V
    BY ComponentFacts, GraphsAssumption DEF SearchInv, SearchTypeOK, IsGraph
  <2> DEFINE n == Len(found)
  <2>5. /\ Len(found') = n + 1
        /\ \A i \in 1 .. n : found'[i] = found[i] /\ i \in 1 .. n + 1
        /\ found'[n + 1] = C[m]
        /\ \A i \in 1 .. n + 1 : i \in 1 .. n \/ i = n + 1
    BY <1>1, <2>2, <2>4, AppendFacts
  <2>6. DOMAIN found = 1 .. n
    BY <1>1, LenProperties
  <2>7. /\ \A i \in 1 .. n : C[m] \cap found[i] = {}
        /\ \A o \in C[m] : \A d \in dependencies[o] :
              d \in C[m] \/ \E i \in 1 .. n : d \in found[i]
    <3>1. Order!Emitted = UNION {found[i] : i \in 1 .. n}
      BY <2>6 DEF Order!Emitted
    <3> HIDE DEF n, C
    <3>2. C[m] \cap Order!Emitted = {}
      BY <2>2 DEF Order!Ready
    <3>3. \A o \in C[m] : dependencies[o] \subseteq C[m] \cup Order!Emitted
      BY <2>2 DEF Order!Ready
    <3>4. \A i \in 1 .. n : C[m] \cap found[i] = {}
      BY <3>1, <3>2
    <3>5. \A d : d \in Order!Emitted => \E i \in 1 .. n : d \in found[i]
      BY <3>1
    <3> QED
      BY <3>3, <3>4, <3>5
  <2> HIDE DEF n, V, C
  <2>8. \A i \in 1 .. n + 1 : \E o \in V : found'[i] = C[o]
    BY <2>2, <2>5 DEF FoundInv, n, V, C
  <2>9. \A i, j \in 1 .. n + 1 : i # j => found'[i] \cap found'[j] = {}
    BY <2>5, <2>7 DEF FoundInv, n
  <2>10. ASSUME NEW i \in 1 .. n + 1, NEW o \in found'[i], NEW d \in dependencies[o]
         PROVE  \E j \in 1 .. i : d \in found'[j]
    <3>1. CASE i \in 1 .. n
      <4>1. PICK j \in 1 .. i : d \in found[j]
        BY <2>5, <3>1 DEF FoundInv, n
      <4>2. j \in 1 .. n
        BY <1>1, <3>1 DEF n
      <4> QED
        BY <2>5, <4>1, <4>2
    <3>2. CASE i = n + 1
      <4>1. d \in C[m] \/ \E j \in 1 .. n : d \in found[j]
        BY <2>5, <2>7, <3>2
      <4>2. n + 1 \in 1 .. n + 1
        BY <1>1 DEF n
      <4> QED
        BY <2>5, <3>2, <4>1, <4>2
    <3> QED
      BY <2>5, <3>1, <3>2
  <2>11. n \in Nat /\ n <= n + 1 /\ n + 1 \in Nat
    BY <1>1 DEF n
  <2>12. FoundInv'
    BY <2>3, <2>5, <2>8, <2>9, <2>10 DEF FoundInv, V, C
  <2> QED
    BY <2>3, <2>5, <2>11, <2>12 DEF n
<1> QED
  BY <1>2, <1>3

(* Once nothing is in progress, every node that was seen has been emitted. *)
LEMMA AllEmitted ==
    ASSUME SearchInv, SearchDone
    PROVE  Emitted = Nodes(dependencies)
<1>1. frames = << >> /\ Visited = Nodes(dependencies)
  BY DEF SearchDone, Unvisited, SearchInv, SearchTypeOK
<1>2. InProgress = {}
  BY <1>1 DEF InProgress
<1>3. \A m \in OnStack : m \in Visited /\ order[m] \in Nat /\ lowLink[m] < order[m]
                         /\ \E n \in OnStack : order[n] = lowLink[m]
  BY <1>2 DEF SearchInv, SearchTypeOK, LowIsReached, SeenOrEmitted
<1>4. OnStack = {}
  <2> DEFINE numbers == {order[m] : m \in OnStack}
  <2>1. SUFFICES ASSUME OnStack # {} PROVE FALSE
    OBVIOUS
  <2>2. numbers \subseteq Nat /\ numbers # {}
    BY <1>3, <2>1
  <2>3. PICK least \in numbers : \A k \in numbers : least <= k
    <3> HIDE DEF numbers
    <3> QED
      BY <2>2, LeastNumber
  <2>4. PICK m \in OnStack : order[m] = least
    OBVIOUS
  <2>5. PICK n \in OnStack : order[n] = lowLink[m]
    BY <1>3
  <2>6. order[n] < order[m] /\ least <= order[n]
    BY <1>3, <2>3, <2>5
  <2> QED
    BY <1>3, <2>4, <2>6
<1> QED
  BY <1>1, <1>4 DEF SearchInv, SeenOrEmitted

(* The level of the next component is the depth of its nodes: everything   *)
(* below them has been placed.                                             *)
LEMMA LevelIsDepth ==
    ASSUME LayersInv, SearchDone, placed < Len(found),
           NEW m \in Nodes(dependencies), found[placed + 1] = ComponentOf(dependencies)[m]
    PROVE  Level(placed + 1) = Depth(dependencies)[m]
<1> DEFINE V == Nodes(dependencies)
           C == ComponentOf(dependencies)
           B == Below(dependencies)
           deep == Depth(dependencies)
           p == placed + 1
           deps == UNION {dependencies[n] : n \in found[p]}
           others == {PositionOf(d) : d \in deps} \ {p}
           levels == {DepthAt(other) + 1 : other \in others}
<1>1. IsGraph(dependencies)
  BY GraphsAssumption DEF LayersInv, SearchInv, SearchTypeOK, IsGraph
<1>2. /\ deep \in [V -> Nat]
      /\ \A n \in V : OneAbove(dependencies, deep, n, deep[n])
      /\ \A n \in V : \A o \in C[n] : deep[o] = deep[n]
  BY <1>1, DepthFacts
<1>3. /\ B \in [V -> SUBSET V] /\ C \in [V -> SUBSET V]
      /\ B[m] = deps \ C[m]
  BY <1>1, ComponentFacts DEF Below
<1>4. /\ found \in Seq(SUBSET V) /\ DOMAIN found = 1 .. Len(found) /\ Len(found) \in Nat
      /\ placed \in Nat /\ p \in 1 .. Len(found) /\ 1 .. p \subseteq 1 .. Len(found)
  BY LenProperties DEF LayersInv, PlacedInv, SearchInv, SearchTypeOK
<1>5. ASSUME NEW i \in 1 .. Len(found), NEW d \in found[i] PROVE PositionOf(d) = i
  <2>1. \A j \in DOMAIN found : d \in found[j] => j = i
    BY <1>4, <1>5 DEF LayersInv, FoundInv
  <2>2. i \in DOMAIN found
    BY <1>4
  <2> QED
    BY <1>5, <2>1, <2>2 DEF PositionOf
<1> HIDE DEF p, deep, C, B
<1>6. ASSUME NEW d \in deps PROVE d \in C[m] <=> PositionOf(d) = p
  <2>1. PICK n \in found[p] : d \in dependencies[n]
    OBVIOUS
  <2>2. PICK j \in 1 .. p : d \in found[j]
    BY <1>4, <2>1 DEF LayersInv, FoundInv
  <2>3. j \in 1 .. Len(found) /\ PositionOf(d) = j
    BY <1>4, <1>5, <2>2
  <2>4. found[p] = C[m]
    BY DEF p, C
  <2> QED
    BY <1>4, <1>5, <2>2, <2>3, <2>4
<1>7. ASSUME NEW d \in deps, d \notin C[m]
      PROVE  /\ PositionOf(d) \in others /\ DepthAt(PositionOf(d)) = deep[d]
             /\ d \in B[m] /\ d \in V
  <2>1. PositionOf(d) # p
    BY <1>6, <1>7
  <2>2. PICK n \in found[p] : d \in dependencies[n]
    OBVIOUS
  <2>3. PICK j \in 1 .. p : d \in found[j]
    BY <1>4, <2>2 DEF LayersInv, FoundInv
  <2>4. PositionOf(d) = j
    BY <1>4, <1>5, <2>3
  <2>5. j \in 1 .. placed
    BY <1>4, <2>1, <2>3, <2>4 DEF p
  <2>6. depth[j] = deep[d] /\ DOMAIN depth = 1 .. placed
    BY <2>3, <2>5 DEF LayersInv, PlacedInv, deep
  <2>7. d \in B[m]
    BY <1>3, <1>7
  <2> QED
    BY <1>3, <2>1, <2>4, <2>5, <2>6, <2>7 DEF DepthAt
<1>8. \A other \in others : \E d \in B[m] : PositionOf(d) = other /\ DepthAt(other) = deep[d]
  <2> SUFFICES ASSUME NEW other \in others
               PROVE  \E d \in B[m] : PositionOf(d) = other /\ DepthAt(other) = deep[d]
    OBVIOUS
  <2>1. PICK d \in deps : PositionOf(d) = other
    OBVIOUS
  <2>2. d \notin C[m]
    BY <1>6, <2>1
  <2> QED
    BY <1>7, <2>1, <2>2
<1>9. \A d \in B[m] : d \in V /\ deep[d] + 1 \in levels
  <2> SUFFICES ASSUME NEW d \in B[m] PROVE d \in V /\ deep[d] + 1 \in levels
    OBVIOUS
  <2>1. d \in deps /\ d \notin C[m]
    BY <1>3
  <2> QED
    BY <1>7, <2>1
<1>10. \A k \in levels : \E d \in B[m] : k = deep[d] + 1
  BY <1>8
<1> HIDE DEF deps, others, levels
<1>11. OneAbove(dependencies, deep, m, deep[m]) /\ deep[m] \in Nat
  BY <1>2
<1>12. \A b \in B[m] : b \in V /\ deep[b] \in Nat
  BY <1>2, <1>9
<1>13. deep[m] \in levels \cup {0}
  <2>1. CASE deep[m] = 0
    BY <2>1
  <2>2. CASE deep[m] # 0
    <3>1. PICK b \in B[m] : deep[b] = deep[m] - 1
      BY <1>11, <2>2 DEF OneAbove, B
    <3>2. deep[b] + 1 = deep[m]
      BY <1>11, <3>1
    <3> QED
      BY <1>9, <3>1, <3>2
  <2> QED
    BY <2>1, <2>2
<1>14. \A k \in levels : k \in Nat /\ k <= deep[m]
  <2> SUFFICES ASSUME NEW k \in levels PROVE k \in Nat /\ k <= deep[m]
    OBVIOUS
  <2>1. PICK d \in B[m] : k = deep[d] + 1
    BY <1>10
  <2>2. deep[d] < deep[m] /\ deep[d] \in Nat
    BY <1>11, <1>12 DEF OneAbove, B
  <2> QED
    BY <1>11, <2>1, <2>2
<1>15. \A level \in levels \cup {0} :
          (\A other \in levels : other <= level) => level = deep[m]
  <2> SUFFICES ASSUME NEW level \in levels \cup {0}, \A other \in levels : other <= level
               PROVE  level = deep[m]
    OBVIOUS
  <2>1. level \in Nat /\ level <= deep[m]
    BY <1>11, <1>14
  <2>2. deep[m] <= level
    <3>1. CASE deep[m] \in levels
      BY <3>1
    <3>2. CASE deep[m] = 0
      BY <2>1, <3>2
    <3> QED
      BY <1>13, <3>1, <3>2
  <2> QED
    BY <1>11, <2>1, <2>2
<1>16. Level(p) = CHOOSE level \in levels \cup {0} : \A other \in levels : other <= level
  BY DEF Level, levels, others, deps
<1> QED
  BY <1>13, <1>14, <1>15, <1>16 DEF p, deep

(* A component is placed in the layer of its depth, and no other moves.    *)
LEMMA PlaceKeeps ==
    ASSUME LayersInv, PlaceComponent
    PROVE  PlacedInv'
<1> DEFINE V == Nodes(dependencies)
           deep == Depth(dependencies)
           p == placed + 1
           level == Level(p)
           length == IF Len(layers) <= level THEN level + 1 ELSE Len(layers)
<1>1. /\ SearchDone /\ placed < Len(found) /\ placed' = p /\ depth' = Append(depth, level)
      /\ layers' = [i \in 1 .. length |->
                       IF i = level + 1 THEN LayerAt(i) \cup found[p] ELSE LayerAt(i)]
      /\ dependencies' = dependencies /\ found' = found
  BY DEF PlaceComponent, search
<1>2. /\ found \in Seq(SUBSET V) /\ Len(found) \in Nat /\ placed \in Nat
      /\ p \in 1 .. Len(found) /\ p \in 0 .. Len(found)
      /\ 1 .. p = 1 .. placed \cup {p} /\ p \notin 1 .. placed
      /\ depth \in [1 .. placed -> Nat] /\ layers \in Seq(SUBSET V) /\ Len(layers) \in Nat
  <2>1. /\ found \in Seq(SUBSET V) /\ Len(found) \in Nat /\ placed \in 0 .. Len(found)
        /\ depth \in [1 .. placed -> Nat] /\ layers \in Seq(SUBSET V) /\ Len(layers) \in Nat
    BY LenProperties DEF LayersInv, PlacedInv, SearchInv, SearchTypeOK
  <2>2. /\ p \in 1 .. Len(found) /\ p \in 0 .. Len(found) /\ placed \in Nat
        /\ 1 .. p = 1 .. placed \cup {p} /\ p \notin 1 .. placed
    BY <1>1, <2>1
  <2> QED
    BY <2>1, <2>2
<1>3. IsGraph(dependencies)
  BY GraphsAssumption DEF LayersInv, SearchInv, SearchTypeOK, IsGraph
<1>4. PICK m \in V : found[p] = ComponentOf(dependencies)[m]
  BY <1>2 DEF LayersInv, FoundInv
<1>5. level = deep[m]
  BY <1>1, <1>4, LevelIsDepth
<1>6. /\ deep \in [V -> Nat] /\ \A n \in found[p] : deep[n] = level
      /\ found[p] \subseteq V /\ m \in found[p]
  BY <1>3, <1>4, <1>5, DepthFacts, ComponentFacts
<1>7. level \in Nat
  BY <1>5, <1>6
<1>8. /\ depth' \in [1 .. p -> Nat] /\ depth'[p] = level
      /\ \A i \in 1 .. placed : depth'[i] = depth[i] /\ depth[i] \in Nat
  <2>1. depth \in Seq(Nat) /\ Len(depth) = placed
    BY <1>2
  <2> HIDE DEF level, p
  <2>2. /\ Append(depth, level) \in Seq(Nat)
        /\ Len(Append(depth, level)) = placed + 1
        /\ \A i \in 1 .. placed : Append(depth, level)[i] = depth[i]
        /\ Append(depth, level)[placed + 1] = level
    BY <1>7, <2>1, AppendFacts
  <2>3. Append(depth, level) \in [1 .. placed + 1 -> Nat]
    BY <2>2, LenProperties
  <2> QED
    BY <1>1, <1>2, <2>2, <2>3 DEF p
<1> HIDE DEF level, p, deep
<1>9. /\ length \in Nat /\ Len(layers) <= length /\ level + 1 \in 1 .. length
      /\ length = Len(layers) \/ length = level + 1
  BY <1>2, <1>7
<1>10. \A k \in 1 .. length : LayerAt(k) = {n \in V : \E i \in 1 .. placed : n \in found[i] /\ depth[i] + 1 = k}
  <2> SUFFICES ASSUME NEW k \in 1 .. length
               PROVE  LayerAt(k) = {n \in V : \E i \in 1 .. placed : n \in found[i] /\ depth[i] + 1 = k}
    OBVIOUS
  <2>1. DOMAIN layers = 1 .. Len(layers)
    BY <1>2, LenProperties
  <2>2. CASE k \in 1 .. Len(layers)
    BY <2>1, <2>2 DEF LayerAt, LayersInv, PlacedInv
  <2>3. CASE k \notin 1 .. Len(layers)
    <3>1. \A i \in 1 .. placed : depth[i] + 1 # k
      BY <2>3 DEF LayersInv, PlacedInv
    <3> QED
      BY <2>1, <2>3, <3>1 DEF LayerAt
  <2> QED
    BY <2>2, <2>3
<1> HIDE DEF length
<1>11. /\ layers' \in [1 .. length -> SUBSET V] /\ Len(layers') = length /\ layers' \in Seq(SUBSET V)
  <2>1. \A i \in 1 .. length : LayerAt(i) \in SUBSET V
    BY <1>10
  <2>2. layers' \in [1 .. length -> SUBSET V]
    BY <1>1, <1>6, <2>1
  <2> QED
    BY <1>9, <2>2
<1>12. ASSUME NEW k \in 1 .. length
       PROVE  layers'[k] = {n \in V : \E i \in 1 .. p : n \in found[i] /\ depth'[i] + 1 = k}
  <2>1. layers'[k] = IF k = level + 1 THEN LayerAt(k) \cup found[p] ELSE LayerAt(k)
    BY <1>1
  <2>2. \A n : (\E i \in 1 .. p : n \in found[i] /\ depth'[i] + 1 = k)
               <=> \/ \E i \in 1 .. placed : n \in found[i] /\ depth[i] + 1 = k
                   \/ n \in found[p] /\ level + 1 = k
    BY <1>2, <1>8
  <2> QED
    BY <1>6, <1>10, <2>1, <2>2
<1>13. \A i \in 1 .. p : depth'[i] + 1 \in 1 .. length
  <2>1. \A i \in 1 .. placed : depth[i] + 1 \in 1 .. Len(layers) /\ depth[i] + 1 \in 1 .. length
    BY <1>2, <1>9 DEF LayersInv, PlacedInv
  <2> QED
    BY <1>2, <1>8, <1>9, <2>1
<1>14. \E i \in 1 .. p : depth'[i] + 1 = length
  <2>1. CASE length = level + 1
    BY <1>2, <1>8, <2>1
  <2>2. CASE length = Len(layers)
    <3>1. Len(layers) # 0
      BY <1>2, <1>7, <1>9, <2>2
    <3>2. PICK i \in 1 .. placed : depth[i] + 1 = Len(layers)
      BY <3>1 DEF LayersInv, PlacedInv
    <3> QED
      BY <1>2, <1>8, <2>2, <3>2
  <2> QED
    BY <1>9, <2>1, <2>2
<1>15. \A i \in 1 .. p : \A n \in found[i] : depth'[i] = deep[n]
  <2>1. \A i \in 1 .. placed : \A n \in found[i] : depth[i] = deep[n]
    BY DEF LayersInv, PlacedInv, deep
  <2>2. \A n \in found[p] : depth'[p] = deep[n]
    BY <1>6, <1>8
  <2> SUFFICES ASSUME NEW i \in 1 .. p, NEW n \in found[i] PROVE depth'[i] = deep[n]
    OBVIOUS
  <2>3. CASE i = p
    BY <2>2, <2>3
  <2>4. CASE i # p
    <3>1. i \in 1 .. placed
      BY <1>2, <2>4
    <3> QED
      BY <1>8, <2>1, <3>1
  <2> QED
    BY <2>3, <2>4
<1>16. deep' = deep /\ V' = V
  BY <1>1 DEF deep
<1>17. /\ placed' \in 0 .. Len(found') /\ depth' \in [1 .. placed' -> Nat]
       /\ \A i \in 1 .. placed' : \A n \in found'[i] : depth'[i] = deep[n]
  BY <1>1, <1>2, <1>8, <1>15
<1>18. /\ layers' \in Seq(SUBSET V)
       /\ \A k \in 1 .. Len(layers') :
             layers'[k] = {n \in V : \E i \in 1 .. placed' : n \in found'[i] /\ depth'[i] + 1 = k}
       /\ \A i \in 1 .. placed' : depth'[i] + 1 \in 1 .. Len(layers')
       /\ \E i \in 1 .. placed' : depth'[i] + 1 = Len(layers')
  <2>1. /\ placed' = p /\ found' = found /\ Len(layers') = length
        /\ layers' \in Seq(SUBSET V)
    BY <1>1, <1>11
  <2>2. \A k \in 1 .. Len(layers') :
           layers'[k] = {n \in V : \E i \in 1 .. placed' : n \in found'[i] /\ depth'[i] + 1 = k}
    BY <1>12, <2>1
  <2> QED
    BY <1>13, <1>14, <2>1, <2>2
<1> QED
  BY <1>1, <1>16, <1>17, <1>18, ZenonT(40) DEF PlacedInv, deep

(* Nothing that the search does disturbs what has been placed.             *)
LEMMA SearchKeepsPlaced ==
    ASSUME LayersInv, UNCHANGED <<depth, placed, layers>>,
           Order!Emit \/ UNCHANGED <<dependencies, found>>
    PROVE  PlacedInv'
<1>1. /\ dependencies' = dependencies
      /\ Len(found) \in Nat /\ Len(found') \in Nat /\ Len(found) <= Len(found')
      /\ \A i \in 1 .. Len(found) : found'[i] = found[i]
  BY EmitKeepsFound DEF LayersInv
<1>2. placed \in 0 .. Len(found') /\ \A i \in 1 .. placed : found'[i] = found[i]
  <2>1. placed \in 0 .. Len(found)
    BY DEF LayersInv, PlacedInv
  <2>2. \A i \in 1 .. placed : i \in 1 .. Len(found)
    BY <1>1, <2>1
  <2> QED
    BY <1>1, <2>1, <2>2
<1>3. \A k : {m \in Nodes(dependencies) : \E i \in 1 .. placed : m \in found'[i] /\ depth[i] + 1 = k}
             = {m \in Nodes(dependencies) : \E i \in 1 .. placed : m \in found[i] /\ depth[i] + 1 = k}
  BY <1>2
<1> QED
  BY <1>1, <1>2, <1>3, ZenonT(40) DEF LayersInv, PlacedInv

(* Once every component has been placed, the layers are those of the       *)
(* definition.                                                             *)
LEMMA PlacedAtDepth ==
    ASSUME LayersInv
    PROVE  LayersAreDepths
<1> SUFFICES ASSUME AllPlaced PROVE layers = LayersOf(dependencies)
  BY DEF LayersAreDepths
<1> DEFINE V == Nodes(dependencies)
           deep == Depth(dependencies)
           L == LayersOf(dependencies)
<1>1. IsGraph(dependencies)
  BY GraphsAssumption DEF LayersInv, SearchInv, SearchTypeOK, IsGraph
<1>2. /\ L \in Seq(SUBSET V)
      /\ \A m \in V : deep[m] + 1 \in 1 .. Len(L)
      /\ \A i \in 1 .. Len(L) : L[i] # {} /\ L[i] = {m \in V : deep[m] + 1 = i}
  BY <1>1, LayerFacts
<1>3. deep \in [V -> Nat]
  BY <1>1, DepthFacts
<1> HIDE DEF deep, L
<1>4. SearchDone /\ placed = Len(found)
  BY DEF AllPlaced
<1>5. /\ layers \in Seq(SUBSET V)
      /\ \A k \in 1 .. Len(layers) :
            layers[k] = {m \in V : \E i \in 1 .. placed : m \in found[i] /\ depth[i] + 1 = k}
      /\ \A i \in 1 .. placed : depth[i] + 1 \in 1 .. Len(layers)
      /\ Len(layers) = 0 \/ \E i \in 1 .. placed : depth[i] + 1 = Len(layers)
      /\ \A i \in 1 .. placed : \A m \in found[i] : depth[i] = deep[m]
  BY DEF LayersInv, PlacedInv, deep
<1>6. \A m \in V : \E i \in 1 .. placed : m \in found[i]
  <2>1. Emitted = V /\ DOMAIN found = 1 .. Len(found)
    BY <1>4, AllEmitted, LenProperties DEF LayersInv, SearchInv, SearchTypeOK
  <2> QED
    BY <1>4, <2>1 DEF Emitted, Order!Emitted
<1>7. \A i \in 1 .. placed : \E m \in V : m \in found[i]
  BY <1>1, <1>4, ComponentFacts DEF LayersInv, FoundInv
<1>8. Len(layers) \in Nat /\ Len(L) \in Nat
  BY <1>2, <1>5, LenProperties
<1>9. ASSUME NEW k \in 1 .. Len(layers) PROVE layers[k] = {m \in V : deep[m] + 1 = k}
  BY <1>5, <1>6
<1>10. Len(layers) <= Len(L)
  <2>1. CASE Len(layers) = 0
    BY <1>8, <2>1
  <2>2. CASE Len(layers) # 0
    <3>1. PICK i \in 1 .. placed : depth[i] + 1 = Len(layers)
      BY <1>5, <2>2
    <3>2. PICK m \in V : m \in found[i]
      BY <1>7
    <3>3. deep[m] + 1 = Len(layers)
      BY <1>5, <3>1, <3>2
    <3> QED
      BY <1>2, <1>8, <3>3
  <2> QED
    BY <2>1, <2>2
<1>11. Len(L) <= Len(layers)
  <2>1. CASE Len(L) = 0
    BY <1>8, <2>1
  <2>2. CASE Len(L) # 0
    <3>1. Len(L) \in 1 .. Len(L)
      BY <1>8, <2>2
    <3>2. PICK m \in V : deep[m] + 1 = Len(L)
      BY <1>2, <3>1
    <3>3. PICK i \in 1 .. placed : m \in found[i]
      BY <1>6
    <3>4. depth[i] + 1 = Len(L)
      BY <1>5, <3>2, <3>3
    <3>5. depth[i] + 1 \in 1 .. Len(layers)
      BY <1>5
    <3> QED
      BY <1>8, <3>4, <3>5
  <2> QED
    BY <2>1, <2>2
<1>12. Len(layers) = Len(L)
  BY <1>8, <1>10, <1>11
<1>13. \A k \in 1 .. Len(L) : layers[k] = L[k]
  BY <1>2, <1>9, <1>12
<1>14. layers = L
  BY <1>2, <1>5, <1>12, <1>13, SeqEqual
<1> QED
  BY <1>14 DEF L

(* For any finite graphs: when the search has ended and every component    *)
(* has been placed, the layers scc.rs computes from the order of emission  *)
(* are those of the definition, by the longest chain of components below:  *)
(* no node is in a layer before a dependency, or later than it must be.    *)
THEOREM LayersAreTheDepths == SccSpec => []LayersAreDepths
<1>1. SccInit => LayersInv
  <2> SUFFICES ASSUME SccInit PROVE LayersInv
    OBVIOUS
  <2>1. SearchInv
    BY StartKeeps
  <2>2. found = << >> /\ depth = << >> /\ placed = 0 /\ layers = << >>
    BY DEF SccInit
  <2>3. Len(found) = 0 /\ Len(layers) = 0 /\ 1 .. 0 = {} /\ 0 \in 0 .. 0
    BY <2>2
  <2>4. FoundInv
    BY <2>3 DEF FoundInv
  <2>5. depth \in [1 .. 0 -> Nat] /\ layers \in Seq(SUBSET Nodes(dependencies))
    BY <2>2, <2>3
  <2>6. PlacedInv
    BY <2>2, <2>3, <2>5 DEF PlacedInv
  <2> QED
    BY <2>1, <2>4, <2>6 DEF LayersInv
<1>2. LayersInv /\ [SccNext]_vars => LayersInv'
  <2> SUFFICES ASSUME LayersInv, [SccNext]_vars PROVE LayersInv'
    OBVIOUS
  <2>1. SearchInv'
    BY StepKeeps DEF LayersInv
  <2>2. CASE PlaceComponent
    <3>1. UNCHANGED <<dependencies, found>>
      BY <2>2 DEF PlaceComponent, search
    <3> QED
      BY <2>1, <2>2, <3>1, PlaceKeeps, EmitKeepsFound DEF LayersInv
  <2>3. ASSUME Order!Emit \/ UNCHANGED <<dependencies, found>>, UNCHANGED <<depth, placed, layers>>
        PROVE  LayersInv'
    BY <2>1, <2>3, SearchKeepsPlaced, EmitKeepsFound DEF LayersInv
  <2>4. CASE StartRoot \/ Descend
    BY <2>3, <2>4 DEF StartRoot, Descend, Visit
  <2>5. CASE LookAtVisited
    BY <2>3, <2>5 DEF LookAtVisited
  <2>6. CASE Finish
    <3>1. UNCHANGED <<depth, placed, layers>>
      BY <2>6 DEF Finish
    <3> QED
      BY <2>3, <2>6, <3>1, FinishEmits DEF LayersInv
  <2>7. CASE Done \/ UNCHANGED vars
    BY <2>3, <2>7 DEF Done, vars, search
  <2> QED
    BY <2>2, <2>4, <2>5, <2>6, <2>7 DEF SccNext
<1>3. LayersInv => LayersAreDepths
  BY PlacedAtDepth
<1> QED
  BY <1>1, <1>2, <1>3, PTL DEF SccSpec
=============================================================================
