---------------------------- MODULE ResolutionProofs ----------------------------
(***************************************************************************)
(* For any programs and digests: a declaration is never entered while it   *)
(* is being resolved, whatever fails, nothing is left half built, and a    *)
(* sound declaration gets its type at the first request; every id is one   *)
(* of the arena's, and equal content has one id; members get the types     *)
(* they name, classes what their parents have, and unions their members.   *)
(***************************************************************************)
EXTENDS ResolutionProperties, RelationProofs

IsFrame(f) == f = [name |-> f.name, ref |-> f.ref, at |-> f.at, parts |-> f.parts,
                   properties |-> f.properties]

IsEntry(e) == e = [resolved |-> e.resolved, resolving |-> e.resolving]

IsArenaRecord(a) ==
    /\ a = [types |-> a.types, decls |-> a.decls, interned |-> a.interned, unions |-> a.unions]
    /\ IsSeq(a.types) /\ IsSeq(a.decls)

(* What is written to an arena leaves its types as they were.              *)
Keeps(a, b) ==
    /\ IsArenaRecord(b)
    /\ b.decls = a.decls
    /\ Len(a.types) <= Len(b.types)
    /\ \A i \in 1 .. Len(a.types) : b.types[i] = a.types[i]

-----------------------------------------------------------------------------
(* Sequences.                                                              *)

LEMMA Pushed ==
    ASSUME NEW s, IsSeq(s), NEW x
    PROVE  /\ IsSeq(<<x>> \o s) /\ Len(<<x>> \o s) = Len(s) + 1
           /\ (<<x>> \o s)[1] = x
           /\ \A i \in 2 .. Len(s) + 1 : (<<x>> \o s)[i] = s[i - 1]
<1> DEFINE S == {s[i] : i \in 1 .. Len(s)} \cup {x}
<1>1. s \in Seq(S) /\ x \in S
  BY SeqOver
<1> HIDE DEF S
<1>2. <<x>> \in Seq(S) /\ Len(<<x>>) = 1 /\ <<x>>[1] = x
  BY <1>1
<1>3. Len(s) \in Nat
  BY DEF IsSeq
<1>4. /\ <<x>> \o s \in Seq(S)
      /\ Len(<<x>> \o s) = 1 + Len(s)
      /\ \A i \in 1 .. 1 + Len(s) : (<<x>> \o s)[i] = IF i <= 1 THEN <<x>>[i] ELSE s[i - 1]
  BY <1>1, <1>2, ConcatProperties
<1>5. IsSeq(<<x>> \o s)
  BY <1>4, SeqIsSeq
<1> QED
  BY <1>2, <1>3, <1>4, <1>5

LEMMA Popped ==
    ASSUME NEW s, IsSeq(s), s # << >>
    PROVE  /\ IsSeq(Tail(s)) /\ Len(Tail(s)) = Len(s) - 1 /\ Len(s) > 0
           /\ \A i \in 1 .. Len(s) - 1 : Tail(s)[i] = s[i + 1]
           /\ Head(s) = s[1]
<1> DEFINE S == {s[i] : i \in 1 .. Len(s)}
<1>1. s \in Seq(S)
  BY SeqOver
<1> HIDE DEF S
<1>2. Len(s) \in Nat \ {0}
  BY <1>1, EmptySeq
<1>3. /\ Tail(s) \in Seq(S) /\ Len(Tail(s)) = Len(s) - 1
      /\ \A i \in 1 .. Len(Tail(s)) : Tail(s)[i] = s[i + 1]
  BY <1>1, HeadTailProperties
<1>4. IsSeq(Tail(s))
  BY <1>3, SeqIsSeq
<1>5. Head(s) = s[1]
  BY <1>1 
<1> QED
  BY <1>2, <1>3, <1>4, <1>5

LEMMA Replaced ==
    ASSUME NEW s, IsSeq(s), s # << >>, NEW x
    PROVE  /\ IsSeq(<<x>> \o Tail(s)) /\ Len(<<x>> \o Tail(s)) = Len(s)
           /\ (<<x>> \o Tail(s))[1] = x
           /\ \A i \in 2 .. Len(s) : (<<x>> \o Tail(s))[i] = s[i]
<1>1. /\ IsSeq(Tail(s)) /\ Len(Tail(s)) = Len(s) - 1
      /\ \A i \in 1 .. Len(s) - 1 : Tail(s)[i] = s[i + 1]
  BY Popped
<1>2. Len(s) \in Nat
  BY DEF IsSeq
<1>3. \A i \in 2 .. Len(s) : (<<x>> \o Tail(s))[i] = Tail(s)[i - 1]
  BY <1>1, <1>2, Pushed
<1>4. \A i \in 2 .. Len(s) : Tail(s)[i - 1] = s[i]
  BY <1>1, <1>2
<1> QED
  BY <1>1, <1>2, <1>3, <1>4, Pushed

-----------------------------------------------------------------------------
(* What allocating a type does to an arena.                                *)

LEMMA KeepsItself ==
    ASSUME NEW a, IsArenaRecord(a)
    PROVE  Keeps(a, a)
BY DEF Keeps, IsArenaRecord, IsSeq

LEMMA PushKeeps ==
    ASSUME NEW a, IsArenaRecord(a), NEW node
    PROVE  Keeps(a, Push(a, node).arena)
<1>1. Push(a, node).arena = [types |-> Append(a.types, node), decls |-> a.decls,
                             interned |-> a.interned, unions |-> a.unions]
  BY DEF Push, IsArenaRecord
<1>2. IsSeq(a.types) /\ Len(a.types) \in Nat
  BY DEF IsArenaRecord, IsSeq
<1> QED
  BY <1>1, <1>2, Appended DEF Keeps, IsArenaRecord

LEMMA RememberedKeeps ==
    ASSUME NEW a, IsArenaRecord(a), NEW node, NEW table
    PROVE  /\ Keeps(a, [Push(a, node) EXCEPT !.arena.interned = table].arena)
           /\ Keeps(a, [Push(a, node) EXCEPT !.arena.unions = table].arena)
<1> DEFINE b == Push(a, node).arena
<1>1. Keeps(a, b)
  BY PushKeeps
<1>2. /\ [Push(a, node) EXCEPT !.arena.interned = table].arena = [b EXCEPT !.interned = table]
      /\ [Push(a, node) EXCEPT !.arena.unions = table].arena = [b EXCEPT !.unions = table]
  BY DEF Push
<1> HIDE DEF b
<1>3. /\ [b EXCEPT !.interned = table] = [types |-> b.types, decls |-> b.decls,
                                          interned |-> table, unions |-> b.unions]
      /\ [b EXCEPT !.unions = table] = [types |-> b.types, decls |-> b.decls,
                                        interned |-> b.interned, unions |-> table]
  BY <1>1 DEF Keeps, IsArenaRecord
<1>4. Keeps(a, [b EXCEPT !.interned = table]) /\ Keeps(a, [b EXCEPT !.unions = table])
  BY <1>1, <1>3 DEF Keeps, IsArenaRecord
<1> QED
  BY <1>2, <1>4

LEMMA AllocKeeps ==
    ASSUME NEW a, IsArenaRecord(a), NEW node
    PROVE  Keeps(a, Alloc(a, node).arena)
BY KeepsItself, RememberedKeeps DEF Alloc

LEMMA AllocUnionKeeps ==
    ASSUME NEW a, IsArenaRecord(a), NEW members
    PROVE  Keeps(a, AllocUnion(a, members).arena)
<1>1. ASSUME NEW flat PROVE Keeps(a, SharedUnion(a, flat).arena)
  BY KeepsItself, RememberedKeeps, PushKeeps DEF SharedUnion
<1> QED
  BY <1>1, KeepsItself DEF AllocUnion, AllocMembers

LEMMA AllocNamedKeeps ==
    ASSUME NEW a, IsArenaRecord(a), NEW inner
    PROVE  Keeps(a, AllocNamed(a, inner).arena)
BY KeepsItself, PushKeeps DEF AllocNamed

LEMMA KeepsIsTransitive ==
    ASSUME NEW a, IsArenaRecord(a), NEW b, NEW c, Keeps(a, b), Keeps(b, c)
    PROVE  Keeps(a, c)
BY DEF Keeps, IsArenaRecord, IsSeq

(* A new reference is a new declaration, being resolved.                   *)
LEMMA AllocRefAdds ==
    ASSUME NEW a, IsArenaRecord(a)
    PROVE  LET new == AllocRef(a)
               slot == Len(a.decls) + 1
           IN  /\ IsArenaRecord(new.arena)
               /\ new.id = Len(a.types) + 1
               /\ Len(new.arena.types) = Len(a.types) + 1
               /\ new.arena.types[new.id] = RefNode(slot)
               /\ \A i \in 1 .. Len(a.types) : new.arena.types[i] = a.types[i]
               /\ Len(new.arena.decls) = slot
               /\ \A i \in 1 .. Len(a.decls) : new.arena.decls[i] = a.decls[i]
<1> DEFINE slot == Len(a.decls) + 1
           decls == Append(a.decls, [state |-> "resolving", body |-> NoBody])
<1>1. AllocRef(a) = [arena |-> [types |-> Append(a.types, RefNode(slot)), decls |-> decls,
                                interned |-> a.interned, unions |-> a.unions],
                     id |-> Len(a.types) + 1]
  <2> DEFINE b == [a EXCEPT !.decls = decls]
  <2>1. b = [types |-> a.types, decls |-> decls, interned |-> a.interned, unions |-> a.unions]
    <3> HIDE DEF decls
    <3> QED
      BY DEF IsArenaRecord
  <2>2. AllocRef(a) = Push(b, RefNode(slot))
    BY DEF AllocRef
  <2>3. Push(b, RefNode(slot)) = [arena |-> [b EXCEPT !.types = Append(b.types, RefNode(slot))],
                                  id |-> Len(b.types) + 1]
    BY DEF Push, NewId
  <2> HIDE DEF b, slot, decls
  <2>4. b.types = a.types
    BY <2>1
  <2>5. [b EXCEPT !.types = Append(a.types, RefNode(slot))]
           = [types |-> Append(a.types, RefNode(slot)), decls |-> decls,
              interned |-> a.interned, unions |-> a.unions]
    BY <2>1, SMTT(30)
  <2> QED
    BY <2>2, <2>3, <2>4, <2>5
<1>2. IsSeq(a.types) /\ IsSeq(a.decls)
  BY DEF IsArenaRecord
<1>3. /\ IsSeq(Append(a.types, RefNode(slot))) /\ IsSeq(decls)
      /\ Len(Append(a.types, RefNode(slot))) = Len(a.types) + 1
      /\ Append(a.types, RefNode(slot))[Len(a.types) + 1] = RefNode(slot)
      /\ \A i \in 1 .. Len(a.types) : Append(a.types, RefNode(slot))[i] = a.types[i]
      /\ Len(decls) = slot
      /\ \A i \in 1 .. Len(a.decls) : decls[i] = a.decls[i]
  BY <1>2, Appended
<1> HIDE DEF decls
<1>4. /\ AllocRef(a).arena = [types |-> Append(a.types, RefNode(slot)), decls |-> decls,
                              interned |-> a.interned, unions |-> a.unions]
      /\ AllocRef(a).id = Len(a.types) + 1
  BY <1>1
<1>5. IsArenaRecord(AllocRef(a).arena)
  BY <1>3, <1>4 DEF IsArenaRecord
<1> QED
  BY <1>3, <1>4, <1>5

(* What happens to a declaration's slot happens to no other.               *)
LEMMA SlotWritten ==
    ASSUME NEW a, IsArenaRecord(a), NEW slot \in 1 .. Len(a.decls), NEW value,
           NEW b, b = [types |-> a.types, decls |-> [a.decls EXCEPT ![slot] = value],
                       interned |-> a.interned, unions |-> a.unions]
    PROVE  /\ IsArenaRecord(b) /\ b.types = a.types
           /\ Len(b.decls) = Len(a.decls)
           /\ b.decls[slot] = value
           /\ \A i \in 1 .. Len(a.decls) : i # slot => b.decls[i] = a.decls[i]
<1> DEFINE S == {a.decls[i] : i \in 1 .. Len(a.decls)} \cup {value}
           decls == [a.decls EXCEPT ![slot] = value]
<1>1. b = [types |-> a.types, decls |-> decls, interned |-> a.interned, unions |-> a.unions]
  OBVIOUS
<1>2. IsSeq(a.decls) /\ IsSeq(a.types)
  BY DEF IsArenaRecord
<1>3. a.decls \in Seq(S) /\ value \in S
  BY <1>2, SeqOver
<1> HIDE DEF S
<1>4. /\ decls \in Seq(S) /\ Len(decls) = Len(a.decls)
      /\ \A i \in 1 .. Len(a.decls) : decls[i] = IF i = slot THEN value ELSE a.decls[i]
  BY <1>3, ExceptSeq
<1>5. IsSeq(decls)
  BY <1>4, SeqIsSeq
<1> HIDE DEF decls
<1> QED
  BY <1>1, <1>2, <1>4, <1>5 DEF IsArenaRecord

-----------------------------------------------------------------------------
(* The invariant.  A frame's entry says that it was entered, so an entered *)
(* name is never entered again; every reference is of one declaration, so  *)
(* a body or a failure reaches that declaration alone.                     *)

HasReference(n) == IsResolved(n) /\ SelfReferenceable(n)

SlotOf(n) == arena.types[entries[n].resolved].slot

Shapes ==
    /\ IsSeq(stack)
    /\ \A i \in 1 .. Len(stack) : IsFrame(stack[i]) /\ stack[i].name \in DOMAIN program
    /\ entries = [n \in DOMAIN program |-> entries[n]]
    /\ \A n \in DOMAIN program : IsEntry(entries[n])
    /\ IsArenaRecord(arena)

Entered ==
    \A i \in 1 .. Len(stack) :
       IF SelfReferenceable(stack[i].name)
       THEN /\ stack[i].ref # NoType /\ entries[stack[i].name].resolved = stack[i].ref
            /\ ~ entries[stack[i].name].resolving
       ELSE stack[i].ref = NoType /\ entries[stack[i].name].resolving

EnteredOnce == \A i, j \in 1 .. Len(stack) : stack[i].name = stack[j].name => i = j

OwnReferences ==
    /\ \A n \in DOMAIN program : HasReference(n) =>
          /\ entries[n].resolved \in 1 .. Len(arena.types)
          /\ arena.types[entries[n].resolved] = RefNode(SlotOf(n))
          /\ SlotOf(n) \in 1 .. Len(arena.decls)
    /\ \A m, n \in DOMAIN program :
          HasReference(m) /\ HasReference(n) /\ SlotOf(m) = SlotOf(n) => m = n

OthersFinished ==
    \A n \in DOMAIN program :
       (\A i \in 1 .. Len(stack) : stack[i].name # n) =>
          /\ ~ entries[n].resolving
          /\ HasReference(n) => arena.decls[SlotOf(n)].state = "resolved"

IInv == Shapes /\ Entered /\ EnteredOnce /\ OwnReferences /\ OthersFinished

LEMMA InitIInv == Init => IInv
<1> SUFFICES ASSUME Init PROVE IInv
  OBVIOUS
<1> USE DEF Init
<1>1. Len(stack) = 0 /\ IsSeq(stack)
  BY EmptySeq, SeqIsSeq
<1>2. IsArenaRecord(arena)
  <2>1. IsSeq(arena.decls)
    BY EmptySeq, SeqIsSeq DEF NewArena
  <2>3. IsSeq(arena.types)
    <3>2. DOMAIN Primitives = 1 .. 10
      BY DEF Primitives
    <3>3. arena.types = [i \in 1 .. 10 |-> PrimitiveNode(Primitives[i])]
      BY <3>2 DEF NewArena
    <3>4. arena.types \in Seq({PrimitiveNode(Primitives[i]) : i \in 1 .. 10})
      BY <3>3, SeqDef
    <3> QED
      BY <3>4, SeqIsSeq
  <2> QED
    BY <2>1, <2>3 DEF NewArena, IsArenaRecord
<1>3. Shapes
  <2>1. \A n \in DOMAIN program : entries[n] = [resolved |-> NoType, resolving |-> FALSE]
    OBVIOUS
  <2>2. \A n \in DOMAIN program : IsEntry(entries[n])
    BY <2>1 DEF IsEntry
  <2>3. entries = [n \in DOMAIN program |-> entries[n]]
    OBVIOUS
  <2>4. \A i \in 1 .. Len(stack) : FALSE
    BY <1>1
  <2> HIDE DEF Init
  <2> QED
    BY <1>1, <1>2, <2>2, <2>3, <2>4 DEF Shapes
<1>4. \A n \in DOMAIN program : ~ HasReference(n) /\ ~ entries[n].resolving
  BY DEF HasReference, IsResolved, NoType
<1> QED
  BY <1>1, <1>3, <1>4 DEF IInv, Entered, EnteredOnce, OwnReferences, OthersFinished

LEMMA EntryFields ==
    ASSUME NEW e, IsEntry(e), NEW v
    PROVE  /\ [e EXCEPT !.resolved = v] = [resolved |-> v, resolving |-> e.resolving]
           /\ [e EXCEPT !.resolving = v] = [resolved |-> e.resolved, resolving |-> v]
BY DEF IsEntry

LEMMA EntryWritten ==
    ASSUME Shapes, NEW n \in DOMAIN program, NEW resolved, NEW resolving,
           entries' = [entries EXCEPT ![n] = [resolved |-> resolved, resolving |-> resolving]]
    PROVE  /\ entries' = [m \in DOMAIN program |-> entries'[m]]
           /\ \A m \in DOMAIN program : IsEntry(entries'[m])
           /\ \A m \in DOMAIN program : m # n => entries'[m] = entries[m]
           /\ entries'[n] = [resolved |-> resolved, resolving |-> resolving]
<1>1. DOMAIN entries = DOMAIN program
  BY DEF Shapes
<1>2. /\ entries' = [m \in DOMAIN program |-> entries'[m]]
      /\ \A m \in DOMAIN program : m # n => entries'[m] = entries[m]
      /\ entries'[n] = [resolved |-> resolved, resolving |-> resolving]
  BY <1>1
<1>3. \A m \in DOMAIN program : IsEntry(entries'[m])
  BY <1>2 DEF Shapes, IsEntry
<1> QED
  BY <1>2, <1>3

(* An action that only moves the innermost frame on.                       *)
LEMMA MoveOn ==
    ASSUME IInv, stack # << >>, UNCHANGED <<program, entries>>,
           NEW f, IsFrame(f), f.name = Top.name, f.ref = Top.ref,
           stack' = WithTop(f), Keeps(arena, arena')
    PROVE  IInv'
<1> USE DEF IInv
<1>1. /\ IsSeq(stack') /\ Len(stack') = Len(stack) /\ Len(stack) \in Nat
      /\ stack'[1] = f /\ stack[1] = Top
      /\ \A i \in 2 .. Len(stack) : stack'[i] = stack[i]
  BY Replaced, Popped DEF WithTop, Top, Shapes, IsSeq
<1>2. \A i \in 1 .. Len(stack) : /\ stack'[i].name = stack[i].name /\ stack'[i].ref = stack[i].ref
                                 /\ IsFrame(stack'[i])
  <2> TAKE i \in 1 .. Len(stack)
  <2>1. CASE i = 1
    BY <1>1, <2>1
  <2>2. CASE i # 1
    BY <1>1, <2>2 DEF Shapes
  <2> QED
    BY <2>1, <2>2
<1>3. Shapes'
  BY <1>1, <1>2 DEF Shapes, Keeps
<1>4. \A n \in DOMAIN program : HasReference(n) =>
         /\ arena'.types[entries[n].resolved] = arena.types[entries[n].resolved]
         /\ entries[n].resolved \in 1 .. Len(arena'.types)
  BY DEF OwnReferences, Keeps, Shapes, IsArenaRecord, IsSeq
<1>5. \A n \in DOMAIN program : HasReference(n) => SlotOf(n)' = SlotOf(n)
  BY <1>4 DEF SlotOf
<1>6. \A n \in DOMAIN program : HasReference(n)' <=> HasReference(n)
  BY DEF HasReference, IsResolved, Declared, SelfReferenceable
<1>7. Entered' /\ EnteredOnce'
  BY <1>1, <1>2 DEF Entered, EnteredOnce, SelfReferenceable
<1>8. OwnReferences'
  BY <1>4, <1>5, <1>6 DEF OwnReferences, Keeps
<1>9. OthersFinished'
  BY <1>1, <1>2, <1>5, <1>6 DEF OthersFinished, Keeps
<1> QED
  BY <1>3, <1>7, <1>8, <1>9

(* An action that enters a declaration.                                    *)
LEMMA EnterIInv ==
    ASSUME IInv, UNCHANGED program, NEW n, Enter(n)
    PROVE  IInv'
<1> USE DEF IInv
<1>1. n \in DOMAIN program /\ entries[n].resolved = NoType /\ ~ entries[n].resolving
  BY DEF Enter, IsUntouched, IsResolved, Declared
<1>2. \A i \in 1 .. Len(stack) : stack[i].name # n
  BY <1>1 DEF Entered
<1>3. \A m : SelfReferenceable(m)' <=> SelfReferenceable(m)
  BY DEF SelfReferenceable
<1>4. ASSUME NEW r, stack' = <<Frame(n, r)>> \o stack
      PROVE  /\ IsSeq(stack') /\ Len(stack') = Len(stack) + 1 /\ Len(stack) \in Nat
             /\ stack'[1] = Frame(n, r)
             /\ \A i \in 2 .. Len(stack) + 1 : i - 1 \in 1 .. Len(stack) /\ stack'[i] = stack[i - 1]
             /\ Frame(n, r).name = n /\ Frame(n, r).ref = r /\ IsFrame(Frame(n, r))
             /\ EnteredOnce'
             /\ \A i \in 1 .. Len(stack') : IsFrame(stack'[i]) /\ stack'[i].name \in DOMAIN program
             /\ \A m : (\A i \in 1 .. Len(stack') : stack'[i].name # m) =>
                       m # n /\ \A i \in 1 .. Len(stack) : stack[i].name # m
  <2>1. IsSeq(stack)
    BY DEF Shapes
  <2>2. /\ IsSeq(stack') /\ Len(stack') = Len(stack) + 1 /\ Len(stack) \in Nat
        /\ stack'[1] = Frame(n, r)
        /\ \A i \in 2 .. Len(stack) + 1 : stack'[i] = stack[i - 1]
    BY <1>4, <2>1, Pushed DEF IsSeq
  <2>3. \A i \in 2 .. Len(stack) + 1 : i - 1 \in 1 .. Len(stack)
    BY <2>2
  <2>4. Frame(n, r).name = n /\ Frame(n, r).ref = r /\ IsFrame(Frame(n, r))
    BY DEF Frame, IsFrame
  <2>5. EnteredOnce'
    <3> SUFFICES ASSUME NEW i \in 1 .. Len(stack'), NEW j \in 1 .. Len(stack'),
                        stack'[i].name = stack'[j].name
                 PROVE  i = j
      BY DEF EnteredOnce
    <3>1. \A k \in 1 .. Len(stack') : k # 1 => k - 1 \in 1 .. Len(stack) /\ stack'[k] = stack[k - 1]
      BY <2>2, <2>3
    <3>2. \A k \in 1 .. Len(stack') : k # 1 => stack'[k].name # n
      BY <3>1, <1>2
    <3>3. CASE i = 1 \/ j = 1
      BY <2>2, <2>4, <3>2, <3>3
    <3>4. CASE i # 1 /\ j # 1
      <4>1. stack[i - 1].name = stack[j - 1].name
        BY <3>1, <3>4
      <4>2. i - 1 = j - 1
        BY <3>1, <3>4, <4>1 DEF EnteredOnce
      <4> QED
        BY <4>2, <2>2
    <3> QED
      BY <3>3, <3>4
  <2>6. \A i \in 1 .. Len(stack') : IsFrame(stack'[i]) /\ stack'[i].name \in DOMAIN program
    <3> TAKE i \in 1 .. Len(stack')
    <3>1. CASE i = 1
      BY <2>2, <2>4, <3>1, <1>1
    <3>2. CASE i # 1
      BY <2>2, <2>3, <3>2 DEF Shapes
    <3> QED
      BY <3>1, <3>2
  <2>7. \A i \in 1 .. Len(stack) : i + 1 \in 1 .. Len(stack') /\ stack'[i + 1] = stack[i]
    BY <2>2
  <2>8. ASSUME NEW m, \A i \in 1 .. Len(stack') : stack'[i].name # m
        PROVE  m # n /\ \A i \in 1 .. Len(stack) : stack[i].name # m
    <3>1. m # n
      BY <2>2, <2>4, <2>8
    <3>2. \A i \in 1 .. Len(stack) : stack[i].name # m
      BY <2>7, <2>8
    <3> QED
      BY <3>1, <3>2
  <2> QED
    BY <2>2, <2>3, <2>4, <2>5, <2>6, <2>8
<1>5. CASE EnterObject(n) /\ SelfReferenceable(n)
  <2> DEFINE r == Len(arena.types) + 1
             slot == Len(arena.decls) + 1
  <2>1. /\ IsArenaRecord(arena') /\ Len(arena'.types) = r
        /\ arena'.types[r] = RefNode(slot)
        /\ \A i \in 1 .. Len(arena.types) : arena'.types[i] = arena.types[i]
        /\ Len(arena'.decls) = slot
        /\ \A i \in 1 .. Len(arena.decls) : arena'.decls[i] = arena.decls[i]
        /\ entries' = [entries EXCEPT ![n].resolved = r]
        /\ stack' = <<Frame(n, r)>> \o stack
    BY <1>5, AllocRefAdds DEF EnterObject, Shapes
  <2>2. Len(arena.types) \in Nat /\ Len(arena.decls) \in Nat /\ r # NoType
    BY DEF Shapes, IsArenaRecord, IsSeq, NoType
  <2>3. /\ entries' = [m \in DOMAIN program |-> entries'[m]]
        /\ \A m \in DOMAIN program : IsEntry(entries'[m])
        /\ \A m \in DOMAIN program : m # n => entries'[m] = entries[m]
        /\ entries'[n] = [resolved |-> r, resolving |-> entries[n].resolving]
    <3>1. [entries[n] EXCEPT !.resolved = r] = [resolved |-> r, resolving |-> entries[n].resolving]
      BY <1>1, EntryFields DEF Shapes
    <3>2. entries' = [entries EXCEPT ![n] = [entries[n] EXCEPT !.resolved = r]]
      BY <2>1
    <3>3. entries' = [entries EXCEPT ![n] = [resolved |-> r, resolving |-> entries[n].resolving]]
      BY <3>1, <3>2, Zenon
    <3> QED
      BY <1>1, <3>3, EntryWritten
  <2> HIDE DEF r, slot
  <2>4. Shapes'
    BY <1>4, <2>1, <2>3 DEF Shapes
  <2>5. Entered'
    <3> SUFFICES ASSUME NEW i \in 1 .. Len(stack')
                 PROVE  LET name == stack'[i].name
                        IN  IF SelfReferenceable(name)
                            THEN /\ stack'[i].ref # NoType /\ entries'[name].resolved = stack'[i].ref
                                 /\ ~ entries'[name].resolving
                            ELSE stack'[i].ref = NoType /\ entries'[name].resolving
      BY <1>3 DEF Entered
    <3>1. CASE i = 1
      BY <1>1, <1>4, <1>5, <2>1, <2>2, <2>3, <3>1, SMTT(30)
    <3>2. CASE i # 1
      <4>1. i - 1 \in 1 .. Len(stack) /\ stack'[i] = stack[i - 1]
        BY <1>4, <2>1, <3>2
      <4>2. stack[i - 1].name # n /\ stack[i - 1].name \in DOMAIN program
        BY <1>2, <4>1 DEF Shapes
      <4> QED
        BY <4>1, <4>2, <2>3 DEF Entered
    <3> QED
      BY <3>1, <3>2
  <2>6. \A m \in DOMAIN program : m # n => (HasReference(m)' <=> HasReference(m))
    BY <1>3, <2>3 DEF HasReference, IsResolved, Declared
  <2>7. \A m \in DOMAIN program : m # n /\ HasReference(m) =>
           /\ SlotOf(m)' = SlotOf(m) /\ entries'[m].resolved \in 1 .. Len(arena.types)
           /\ arena'.types[entries'[m].resolved] = RefNode(SlotOf(m))
           /\ SlotOf(m) \in 1 .. Len(arena.decls)
    BY <2>1, <2>3 DEF OwnReferences, SlotOf
  <2>8. SlotOf(n)' = slot
    BY <2>1, <2>3 DEF SlotOf, RefNode
  <2>9. OwnReferences'
    <3>1. ASSUME NEW m \in DOMAIN program, HasReference(m)'
          PROVE  /\ entries'[m].resolved \in 1 .. Len(arena'.types)
                 /\ arena'.types[entries'[m].resolved] = RefNode(SlotOf(m)')
                 /\ SlotOf(m)' \in 1 .. Len(arena'.decls)
      <4>1. CASE m = n
        BY <2>1, <2>2, <2>3, <2>8, <4>1, SMTT(30) DEF r, slot
      <4>2. CASE m # n
        BY <2>1, <2>2, <2>6, <2>7, <3>1, <4>2, SMTT(30) DEF r, slot
      <4> QED
        BY <4>1, <4>2
    <3>2. ASSUME NEW m \in DOMAIN program, NEW k \in DOMAIN program,
                 HasReference(m)', HasReference(k)', SlotOf(m)' = SlotOf(k)'
          PROVE  m = k
      <4>1. \A j \in DOMAIN program : j # n /\ HasReference(j) => SlotOf(j)' # slot
        BY <2>2, <2>7 DEF slot
      <4> QED
        BY <2>6, <2>7, <2>8, <3>2, <4>1 DEF OwnReferences
    <3> QED
      BY <3>1, <3>2 DEF OwnReferences
  <2>10. OthersFinished'
    <3> SUFFICES ASSUME NEW m \in DOMAIN program, \A i \in 1 .. Len(stack') : stack'[i].name # m
                 PROVE  /\ ~ entries'[m].resolving
                        /\ HasReference(m)' => arena'.decls[SlotOf(m)'].state = "resolved"
      BY DEF OthersFinished
    <3>1. m # n /\ \A i \in 1 .. Len(stack) : stack[i].name # m
      BY <1>4, <2>1
    <3>2. ~ entries[m].resolving /\ (HasReference(m) => arena.decls[SlotOf(m)].state = "resolved")
      BY <3>1 DEF OthersFinished
    <3> QED
      BY <2>1, <2>3, <2>6, <2>7, <3>1, <3>2
  <2> QED
    BY <1>4, <2>1, <2>4, <2>5, <2>9, <2>10
<1>6. CASE EnterAlias(n) /\ ~ SelfReferenceable(n)
  <2>1. /\ arena' = arena
        /\ entries' = [entries EXCEPT ![n].resolving = TRUE]
        /\ stack' = <<Frame(n, NoType)>> \o stack
    BY <1>6 DEF EnterAlias
  <2>2. /\ entries' = [m \in DOMAIN program |-> entries'[m]]
        /\ \A m \in DOMAIN program : IsEntry(entries'[m])
        /\ \A m \in DOMAIN program : m # n => entries'[m] = entries[m]
        /\ entries'[n] = [resolved |-> entries[n].resolved, resolving |-> TRUE]
    <3>1. [entries[n] EXCEPT !.resolving = TRUE] = [resolved |-> entries[n].resolved, resolving |-> TRUE]
      BY <1>1, EntryFields DEF Shapes
    <3>2. entries' = [entries EXCEPT ![n] = [entries[n] EXCEPT !.resolving = TRUE]]
      BY <2>1
    <3>3. entries' = [entries EXCEPT ![n] = [resolved |-> entries[n].resolved, resolving |-> TRUE]]
      BY <3>1, <3>2, Zenon
    <3> QED
      BY <1>1, <3>3, EntryWritten
  <2>3. Shapes'
    BY <1>4, <2>1, <2>2 DEF Shapes
  <2>4. Entered'
    <3> SUFFICES ASSUME NEW i \in 1 .. Len(stack')
                 PROVE  LET name == stack'[i].name
                        IN  IF SelfReferenceable(name)
                            THEN /\ stack'[i].ref # NoType /\ entries'[name].resolved = stack'[i].ref
                                 /\ ~ entries'[name].resolving
                            ELSE stack'[i].ref = NoType /\ entries'[name].resolving
      BY <1>3 DEF Entered
    <3>1. CASE i = 1
      BY <1>4, <1>6, <2>1, <2>2, <3>1
    <3>2. CASE i # 1
      <4>1. i - 1 \in 1 .. Len(stack) /\ stack'[i] = stack[i - 1]
        BY <1>4, <2>1, <3>2
      <4>2. stack[i - 1].name # n /\ stack[i - 1].name \in DOMAIN program
        BY <1>2, <4>1 DEF Shapes
      <4> QED
        BY <4>1, <4>2, <2>2 DEF Entered
    <3> QED
      BY <3>1, <3>2
  <2>5. \A m \in DOMAIN program : HasReference(m)' <=> HasReference(m)
    BY <1>3, <2>2 DEF HasReference, IsResolved, Declared
  <2>6. \A m \in DOMAIN program : SlotOf(m)' = SlotOf(m)
    BY <2>1, <2>2 DEF SlotOf
  <2>7. OwnReferences'
    BY <2>1, <2>2, <2>5, <2>6 DEF OwnReferences
  <2>8. OthersFinished'
    <3> SUFFICES ASSUME NEW m \in DOMAIN program, \A i \in 1 .. Len(stack') : stack'[i].name # m
                 PROVE  /\ ~ entries'[m].resolving
                        /\ HasReference(m)' => arena'.decls[SlotOf(m)'].state = "resolved"
      BY DEF OthersFinished
    <3>1. m # n /\ \A i \in 1 .. Len(stack) : stack[i].name # m
      BY <1>4, <2>1
    <3>2. ~ entries[m].resolving /\ (HasReference(m) => arena.decls[SlotOf(m)].state = "resolved")
      BY <3>1 DEF OthersFinished
    <3> QED
      BY <2>1, <2>2, <2>5, <2>6, <3>1, <3>2
  <2> QED
    BY <1>4, <2>1, <2>3, <2>4, <2>7, <2>8
<1> QED
  BY <1>5, <1>6 DEF Enter

(* An action that leaves a declaration: its entry is no longer marked, and *)
(* a reference it keeps has a body.                                        *)
LEMMA LeaveIInv ==
    ASSUME IInv, UNCHANGED program, stack # << >>, stack' = Tail(stack),
           NEW n, n = Top.name,
           entries' = [m \in DOMAIN program |-> entries'[m]],
           \A m \in DOMAIN program : IsEntry(entries'[m]),
           \A m \in DOMAIN program : m # n => entries'[m] = entries[m],
           ~ entries'[n].resolving,
           IsArenaRecord(arena'), Len(arena.types) <= Len(arena'.types),
           \A i \in 1 .. Len(arena.types) : arena'.types[i] = arena.types[i],
           Len(arena'.decls) = Len(arena.decls),
           \A m \in DOMAIN program : m # n /\ HasReference(m) =>
              arena'.decls[SlotOf(m)] = arena.decls[SlotOf(m)],
           HasReference(n)' =>
              /\ HasReference(n) /\ entries'[n] = entries[n]
              /\ arena'.decls[SlotOf(n)].state = "resolved"
    PROVE  IInv'
<1> USE DEF IInv
<1>1. /\ IsSeq(stack') /\ Len(stack') = Len(stack) - 1 /\ Len(stack) \in Nat \ {0}
      /\ Top = stack[1]
      /\ \A i \in 1 .. Len(stack') : i + 1 \in 1 .. Len(stack) /\ stack'[i] = stack[i + 1]
  <2>1. IsSeq(stack) /\ Len(stack) \in Nat
    BY DEF Shapes, IsSeq
  <2>2. /\ IsSeq(stack') /\ Len(stack') = Len(stack) - 1 /\ Len(stack) > 0
        /\ \A i \in 1 .. Len(stack) - 1 : stack'[i] = stack[i + 1]
        /\ Top = stack[1]
    BY <2>1, Popped DEF Top
  <2> QED
    BY <2>1, <2>2
<1>2. n \in DOMAIN program /\ stack[1].name = n
  BY <1>1 DEF Shapes
<1>3. \A i \in 1 .. Len(stack') : stack'[i].name # n
  <2> SUFFICES ASSUME NEW i \in 1 .. Len(stack'), stack'[i].name = n PROVE FALSE
    OBVIOUS
  <2>1. i + 1 \in 1 .. Len(stack) /\ 1 \in 1 .. Len(stack) /\ stack[i + 1].name = stack[1].name
    BY <1>1, <1>2
  <2>2. i + 1 = 1
    BY <2>1 DEF EnteredOnce
  <2> QED
    BY <2>2, <1>1
<1>4. \A m : SelfReferenceable(m)' <=> SelfReferenceable(m)
  BY DEF SelfReferenceable
<1>5. \A m \in DOMAIN program : m # n => (HasReference(m)' <=> HasReference(m))
  BY <1>4 DEF HasReference, IsResolved, Declared
<1>6. \A m \in DOMAIN program : HasReference(m)' => HasReference(m) /\ entries'[m] = entries[m]
  <2> TAKE m \in DOMAIN program
  <2>1. CASE m = n
    BY <2>1
  <2>2. CASE m # n
    BY <1>5, <2>2
  <2> QED
    BY <2>1, <2>2
<1>7. \A m \in DOMAIN program : HasReference(m)' =>
         /\ SlotOf(m)' = SlotOf(m)
         /\ entries'[m].resolved \in 1 .. Len(arena'.types)
         /\ arena'.types[entries'[m].resolved] = RefNode(SlotOf(m))
         /\ SlotOf(m) \in 1 .. Len(arena'.decls)
  <2> SUFFICES ASSUME NEW m \in DOMAIN program, HasReference(m)'
               PROVE  /\ SlotOf(m)' = SlotOf(m)
                      /\ entries'[m].resolved \in 1 .. Len(arena'.types)
                      /\ arena'.types[entries'[m].resolved] = RefNode(SlotOf(m))
                      /\ SlotOf(m) \in 1 .. Len(arena'.decls)
    OBVIOUS
  <2>1. HasReference(m) /\ entries'[m] = entries[m]
    BY <1>6
  <2>2. /\ entries[m].resolved \in 1 .. Len(arena.types)
        /\ arena.types[entries[m].resolved] = RefNode(SlotOf(m))
        /\ SlotOf(m) \in 1 .. Len(arena.decls)
    BY <2>1 DEF OwnReferences
  <2>3. Len(arena.types) \in Nat /\ Len(arena'.types) \in Nat
    BY DEF Shapes, IsArenaRecord, IsSeq
  <2>4. arena'.types[entries[m].resolved] = arena.types[entries[m].resolved]
    BY <2>2
  <2>5. SlotOf(m)' = SlotOf(m)
    BY <2>1, <2>4 DEF SlotOf
  <2>6. entries'[m].resolved \in 1 .. Len(arena'.types)
    BY <2>1, <2>2, <2>3
  <2> QED
    BY <2>1, <2>2, <2>4, <2>5, <2>6
<1>8. Shapes'
  <2>1. \A i \in 1 .. Len(stack') : IsFrame(stack'[i]) /\ stack'[i].name \in DOMAIN program
    BY <1>1 DEF Shapes
  <2> QED
    BY <1>1, <2>1 DEF Shapes
<1>9. Entered'
  <2> SUFFICES ASSUME NEW i \in 1 .. Len(stack')
               PROVE  LET name == stack'[i].name
                      IN  IF SelfReferenceable(name)
                          THEN /\ stack'[i].ref # NoType /\ entries'[name].resolved = stack'[i].ref
                               /\ ~ entries'[name].resolving
                          ELSE stack'[i].ref = NoType /\ entries'[name].resolving
    BY <1>4 DEF Entered
  <2>1. i + 1 \in 1 .. Len(stack) /\ stack'[i] = stack[i + 1]
    BY <1>1
  <2>2. stack[i + 1].name # n /\ stack[i + 1].name \in DOMAIN program
    BY <1>3, <2>1 DEF Shapes
  <2>3. entries'[stack[i + 1].name] = entries[stack[i + 1].name]
    BY <2>2
  <2> QED
    BY <2>1, <2>3 DEF Entered
<1>10. EnteredOnce'
  <2> SUFFICES ASSUME NEW i \in 1 .. Len(stack'), NEW j \in 1 .. Len(stack'),
                      stack'[i].name = stack'[j].name
               PROVE  i = j
    BY DEF EnteredOnce
  <2>1. /\ i + 1 \in 1 .. Len(stack) /\ j + 1 \in 1 .. Len(stack)
        /\ stack[i + 1].name = stack[j + 1].name
    BY <1>1
  <2>2. i + 1 = j + 1
    BY <2>1 DEF EnteredOnce
  <2> QED
    BY <2>2, <1>1
<1>11. OwnReferences'
  BY <1>6, <1>7 DEF OwnReferences
<1>12. OthersFinished'
  <2> SUFFICES ASSUME NEW m \in DOMAIN program, \A i \in 1 .. Len(stack') : stack'[i].name # m
               PROVE  /\ ~ entries'[m].resolving
                      /\ HasReference(m)' => arena'.decls[SlotOf(m)'].state = "resolved"
    BY DEF OthersFinished
  <2>1. CASE m = n
    BY <1>7, <2>1
  <2>2. CASE m # n
    <3>1. \A i \in 1 .. Len(stack) : i # 1 => i - 1 \in 1 .. Len(stack') /\ stack'[i - 1] = stack[i]
      BY <1>1
    <3>2. \A i \in 1 .. Len(stack) : stack[i].name # m
      BY <1>1, <2>2, <3>1
    <3>3. ~ entries[m].resolving /\ (HasReference(m) => arena.decls[SlotOf(m)].state = "resolved")
      BY <3>2 DEF OthersFinished
    <3> QED
      BY <1>6, <1>7, <2>2, <3>3
  <2> QED
    BY <2>1, <2>2
<1> QED
  BY <1>8, <1>9, <1>10, <1>11, <1>12

-----------------------------------------------------------------------------
(* The actions.                                                            *)

LEMMA FrameFields ==
    ASSUME NEW f, IsFrame(f), NEW at, NEW parts, NEW properties
    PROVE  \A g \in {[f EXCEPT !.at = at], [f EXCEPT !.parts = parts],
                     [f EXCEPT !.at = at, !.properties = properties],
                     [f EXCEPT !.at = at, !.parts = parts, !.properties = properties]} :
              IsFrame(g) /\ g.name = f.name /\ g.ref = f.ref
<1> DEFINE R(at_, parts_, properties_) ==
             [name |-> f.name, ref |-> f.ref, at |-> at_, parts |-> parts_,
              properties |-> properties_]
<1>1. f = R(f.at, f.parts, f.properties)
  BY DEF IsFrame
<1>2. [f EXCEPT !.at = at] = R(at, f.parts, f.properties)
  BY <1>1
<1>3. [f EXCEPT !.parts = parts] = R(f.at, parts, f.properties)
  BY <1>1
<1>4. [f EXCEPT !.at = at, !.properties = properties] = R(at, f.parts, properties)
  <2>1. [R(at, f.parts, f.properties) EXCEPT !.properties = properties] = R(at, f.parts, properties)
    OBVIOUS
  <2> QED
    BY <1>2, <2>1, Zenon
<1>5. [f EXCEPT !.at = at, !.parts = parts, !.properties = properties] = R(at, parts, properties)
  <2>1. [R(at, f.parts, f.properties) EXCEPT !.parts = parts] = R(at, parts, f.properties)
    OBVIOUS
  <2>2. [R(at, parts, f.properties) EXCEPT !.properties = properties] = R(at, parts, properties)
    OBVIOUS
  <2> QED
    BY <1>2, <2>1, <2>2, Zenon
<1> QED
  BY <1>2, <1>3, <1>4, <1>5 DEF IsFrame

LEMMA TopIsFrame ==
    ASSUME IInv, stack # << >>
    PROVE  IsFrame(Top) /\ Top.name \in DOMAIN program /\ Top = stack[1] /\ 1 \in 1 .. Len(stack)
BY Popped DEF IInv, Shapes, Top, IsSeq

LEMMA AnswerPartIInv == ASSUME IInv, AnswerPart PROVE IInv'
<1>1. stack # << >> /\ UNCHANGED <<program, entries>> /\ IsArenaRecord(arena)
  BY DEF AnswerPart, Running, IInv, Shapes
<1>2. PICK id : stack' = WithTop([Top EXCEPT !.parts = Append(@, id)])
  BY DEF AnswerPart
<1>3. Keeps(arena, arena')
  BY <1>1, AllocKeeps, KeepsItself DEF AnswerPart
<1> QED
  BY <1>1, <1>2, <1>3, TopIsFrame, FrameFields, MoveOn

LEMMA CloseMemberIInv == ASSUME IInv, CloseMember PROVE IInv'
<1>1. stack # << >> /\ UNCHANGED <<program, entries>> /\ IsArenaRecord(arena)
  BY DEF CloseMember, Running, IInv, Shapes
<1>2. PICK at, parts, properties :
         stack' = WithTop([Top EXCEPT !.at = at, !.parts = parts, !.properties = properties])
  BY DEF CloseMember
<1>3. Keeps(arena, arena')
  BY <1>1, AllocUnionKeeps, KeepsItself DEF CloseMember, Annotated
<1> QED
  BY <1>1, <1>2, <1>3, TopIsFrame, FrameFields, MoveOn, ZenonT(40)

LEMMA InheritIInv == ASSUME IInv, Inherit PROVE IInv'
<1>1. stack # << >> /\ UNCHANGED <<program, entries>> /\ Keeps(arena, arena')
  BY KeepsItself DEF Inherit, Running, IInv, Shapes
<1>2. PICK properties : stack' = WithTop([Top EXCEPT !.at = 1, !.properties = properties])
  BY DEF Inherit
<1> QED
  BY <1>1, <1>2, TopIsFrame, FrameFields, MoveOn

LEMMA PassOverIInv == ASSUME IInv, PassOver PROVE IInv'
<1>1. stack # << >> /\ UNCHANGED <<program, entries>> /\ Keeps(arena, arena')
  BY KeepsItself DEF PassOver, IInv, Shapes
<1>2. stack' = WithTop([Top EXCEPT !.at = 1])
  BY DEF PassOver
<1> QED
  BY <1>1, <1>2, TopIsFrame, FrameFields, MoveOn

(* The body is allocated, then given to the reference.                     *)
LEMMA FinishIInv == ASSUME IInv, Finish PROVE IInv'
<1> DEFINE body == Alloc(arena, ObjectNode(Top.properties))
<1>1. /\ stack # << >> /\ UNCHANGED <<program, entries>> /\ stack' = Tail(stack)
      /\ SelfReferenceable(Top.name)
      /\ arena' = ResolveRef(body.arena, body.arena.types[Top.ref].slot, body.id)
  BY DEF Finish, Running
<1>2. PICK n : n = Top.name
  OBVIOUS
<1>3. /\ n \in DOMAIN program /\ HasReference(n) /\ entries[n].resolved = Top.ref
      /\ ~ entries[n].resolving
  BY <1>1, <1>2, TopIsFrame DEF IInv, Entered, HasReference, IsResolved, Declared
<1>4. Keeps(arena, body.arena)
  BY AllocKeeps DEF IInv, Shapes
<1>5. PICK slot : slot = SlotOf(n)
  OBVIOUS
<1>6. Top.ref \in 1 .. Len(arena.types) /\ slot \in 1 .. Len(arena.decls)
  BY <1>3, <1>5 DEF IInv, OwnReferences
<1>7. body.arena.types[Top.ref].slot = slot
  BY <1>3, <1>4, <1>5, <1>6 DEF SlotOf, Keeps
<1> HIDE DEF body
<1>8. /\ IsArenaRecord(arena') /\ arena'.types = body.arena.types
      /\ Len(arena'.decls) = Len(arena.decls)
      /\ arena'.decls[slot] = [state |-> "resolved", body |-> body.id]
      /\ \A i \in 1 .. Len(arena.decls) : i # slot => arena'.decls[i] = arena.decls[i]
  <2>1. slot \in 1 .. Len(body.arena.decls) /\ body.arena.decls = arena.decls
    BY <1>4, <1>6 DEF Keeps
  <2>2. IsArenaRecord(body.arena)
    BY <1>4 DEF Keeps
  <2>3. arena' = [body.arena EXCEPT !.decls[slot] = [state |-> "resolved", body |-> body.id]]
    BY <1>1, <1>7, Zenon DEF ResolveRef
  <2>4. /\ IsArenaRecord(arena') /\ arena'.types = body.arena.types
        /\ Len(arena'.decls) = Len(body.arena.decls)
        /\ arena'.decls[slot] = [state |-> "resolved", body |-> body.id]
        /\ \A i \in 1 .. Len(body.arena.decls) :
              i # slot => arena'.decls[i] = body.arena.decls[i]
    <3> PICK a, value : a = body.arena /\ value = [state |-> "resolved", body |-> body.id]
      OBVIOUS
    <3>1. IsArenaRecord(a) /\ slot \in 1 .. Len(a.decls) /\ arena' = [a EXCEPT !.decls[slot] = value]
      BY <2>1, <2>2, <2>3
    <3>2. arena' = [types |-> a.types, decls |-> [a.decls EXCEPT ![slot] = value],
                    interned |-> a.interned, unions |-> a.unions]
      BY <3>1 DEF IsArenaRecord
    <3>3. /\ IsArenaRecord(arena') /\ arena'.types = a.types
          /\ Len(arena'.decls) = Len(a.decls)
          /\ arena'.decls[slot] = value
          /\ \A i \in 1 .. Len(a.decls) : i # slot => arena'.decls[i] = a.decls[i]
      BY <3>1, <3>2, SlotWritten, SMTT(30)
    <3> QED
      BY <3>3
  <2> QED
    BY <2>1, <2>4
<1>9. \A m \in DOMAIN program : m # n /\ HasReference(m) =>
         arena'.decls[SlotOf(m)] = arena.decls[SlotOf(m)]
  BY <1>3, <1>5, <1>8 DEF IInv, OwnReferences
<1>10. /\ entries' = [m \in DOMAIN program |-> entries'[m]]
       /\ \A m \in DOMAIN program : IsEntry(entries'[m])
       /\ \A m \in DOMAIN program : m # n => entries'[m] = entries[m]
       /\ ~ entries'[n].resolving /\ entries'[n] = entries[n]
  BY <1>1, <1>3 DEF IInv, Shapes
<1>11. /\ Len(arena.types) <= Len(arena'.types)
       /\ \A i \in 1 .. Len(arena.types) : arena'.types[i] = arena.types[i]
  BY <1>4, <1>8 DEF Keeps
<1>12. arena'.decls[SlotOf(n)].state = "resolved"
  BY <1>5, <1>8
<1> QED
  BY <1>1, <1>2, <1>3, <1>8, <1>9, <1>10, <1>11, <1>12, LeaveIInv

LEMMA FinishAliasIInv == ASSUME IInv, FinishAlias PROVE IInv'
<1> DEFINE named == AllocNamed(Annotated.arena, Annotated.id)
<1>1. /\ stack # << >> /\ UNCHANGED program /\ stack' = Tail(stack)
      /\ ~ SelfReferenceable(Top.name)
      /\ arena' = named.arena
      /\ entries' = [entries EXCEPT ![Top.name] = [resolved |-> named.id, resolving |-> FALSE]]
  BY DEF FinishAlias, Running
<1>2. PICK n : n = Top.name
  OBVIOUS
<1>3. n \in DOMAIN program
  BY <1>1, <1>2, TopIsFrame
<1>4. IsArenaRecord(arena)
  BY DEF IInv, Shapes
<1>5. Keeps(arena, arena')
  <2>1. Keeps(arena, Annotated.arena)
    BY <1>4, AllocUnionKeeps, KeepsItself DEF Annotated
  <2>2. Keeps(Annotated.arena, named.arena)
    BY <2>1, AllocNamedKeeps DEF Keeps
  <2> QED
    BY <1>1, <1>4, <2>1, <2>2, KeepsIsTransitive
<1> HIDE DEF named
<1>6. /\ entries' = [m \in DOMAIN program |-> entries'[m]]
      /\ \A m \in DOMAIN program : IsEntry(entries'[m])
      /\ \A m \in DOMAIN program : m # n => entries'[m] = entries[m]
      /\ entries'[n] = [resolved |-> named.id, resolving |-> FALSE]
  BY <1>1, <1>2, <1>3, EntryWritten DEF IInv
<1>7. ~ HasReference(n)'
  BY <1>1, <1>2 DEF HasReference, SelfReferenceable
<1>8. /\ IsArenaRecord(arena') /\ arena'.decls = arena.decls
      /\ Len(arena.types) <= Len(arena'.types)
      /\ \A i \in 1 .. Len(arena.types) : arena'.types[i] = arena.types[i]
  BY <1>5 DEF Keeps
<1>9. /\ ~ entries'[n].resolving /\ Len(arena'.decls) = Len(arena.decls)
      /\ \A m \in DOMAIN program : m # n /\ HasReference(m) =>
            arena'.decls[SlotOf(m)] = arena.decls[SlotOf(m)]
  BY <1>6, <1>8
<1> QED
  BY <1>1, <1>2, <1>6, <1>7, <1>8, <1>9, LeaveIInv, Zenon

(* The reference that fails is the declaration's own: nothing else reads   *)
(* the slot it gives up.                                                   *)
LEMMA FailIInv == ASSUME IInv, Fail PROVE IInv'
<1>1. /\ stack # << >> /\ UNCHANGED program /\ stack' = Tail(stack)
      /\ arena' = IF Top.ref = NoType THEN arena ELSE FailRef(arena, arena.types[Top.ref].slot)
      /\ entries' = [entries EXCEPT ![Top.name] = [resolved |-> NoType, resolving |-> FALSE]]
  BY DEF Fail
<1>2. PICK n : n = Top.name
  OBVIOUS
<1>3. n \in DOMAIN program
  BY <1>1, <1>2, TopIsFrame
<1>4. IsArenaRecord(arena)
  BY DEF IInv, Shapes
<1>5. /\ entries' = [m \in DOMAIN program |-> entries'[m]]
      /\ \A m \in DOMAIN program : IsEntry(entries'[m])
      /\ \A m \in DOMAIN program : m # n => entries'[m] = entries[m]
      /\ entries'[n] = [resolved |-> NoType, resolving |-> FALSE]
  BY <1>1, <1>2, <1>3, EntryWritten DEF IInv
<1>6. ~ HasReference(n)'
  BY <1>5 DEF HasReference, IsResolved
<1>7. /\ IsArenaRecord(arena') /\ arena'.types = arena.types
      /\ Len(arena'.decls) = Len(arena.decls)
      /\ \A m \in DOMAIN program : m # n /\ HasReference(m) =>
            arena'.decls[SlotOf(m)] = arena.decls[SlotOf(m)]
  <2>1. CASE Top.ref = NoType
    BY <1>1, <1>4, <2>1
  <2>2. CASE Top.ref # NoType
    <3>1. HasReference(n) /\ entries[n].resolved = Top.ref
      BY <1>1, <1>2, <1>3, <2>2, TopIsFrame DEF IInv, Entered, HasReference, IsResolved, Declared
    <3>2. PICK slot : slot = SlotOf(n)
      OBVIOUS
    <3>3. slot \in 1 .. Len(arena.decls) /\ arena.types[Top.ref].slot = slot
      BY <1>3, <3>1, <3>2 DEF IInv, OwnReferences, SlotOf
    <3>4. PICK value : arena' = [arena EXCEPT !.decls[slot] = value]
      <4>1. arena' = [arena EXCEPT !.decls[slot].state = "failed"]
        BY <1>1, <2>2, <3>3 DEF FailRef
      <4> QED
        BY <4>1
    <3>5. /\ IsArenaRecord(arena') /\ arena'.types = arena.types
          /\ Len(arena'.decls) = Len(arena.decls)
          /\ \A i \in 1 .. Len(arena.decls) : i # slot => arena'.decls[i] = arena.decls[i]
      <4>1. arena' = [types |-> arena.types, decls |-> [arena.decls EXCEPT ![slot] = value],
                      interned |-> arena.interned, unions |-> arena.unions]
        BY <1>4, <3>4 DEF IsArenaRecord
      <4> QED
        BY <1>4, <3>3, <4>1, SlotWritten
    <3> QED
      BY <1>3, <3>1, <3>2, <3>5 DEF IInv, OwnReferences
  <2> QED
    BY <2>1, <2>2
<1>8. /\ Len(arena.types) <= Len(arena'.types)
      /\ \A i \in 1 .. Len(arena.types) : arena'.types[i] = arena.types[i]
  BY <1>4, <1>7 DEF IsArenaRecord, IsSeq
<1>9. ~ entries'[n].resolving
  BY <1>5
<1> QED
  BY <1>1, <1>2, <1>5, <1>6, <1>7, <1>8, <1>9, LeaveIInv, ZenonT(40)

LEMMA NextIInv == IInv /\ [Next]_vars => IInv'
<1> SUFFICES ASSUME IInv, [Next]_vars PROVE IInv'
  OBVIOUS
<1>1. ASSUME NEW n \in Names, Request(n) PROVE IInv'
  BY <1>1, EnterIInv DEF Request
<1>2. CASE AskParent
  BY <1>2, EnterIInv DEF AskParent
<1>3. CASE AskPart
  BY <1>3, EnterIInv DEF AskPart
<1>4. CASE Inherit
  BY <1>4, InheritIInv
<1>5. CASE PassOver
  BY <1>5, PassOverIInv
<1>6. CASE AnswerPart
  BY <1>6, AnswerPartIInv
<1>7. CASE CloseMember
  BY <1>7, CloseMemberIInv
<1>8. CASE Finish
  BY <1>8, FinishIInv
<1>9. CASE FinishAlias
  BY <1>9, FinishAliasIInv
<1>10. CASE Fail
  BY <1>10, FailIInv
<1>11. CASE UNCHANGED vars
  BY <1>11 DEF vars, IInv, Shapes, Entered, EnteredOnce, OwnReferences, OthersFinished,
               HasReference, IsResolved, Declared, SelfReferenceable, SlotOf
<1> QED
  BY <1>1, <1>2, <1>3, <1>4, <1>5, <1>6, <1>7, <1>8, <1>9, <1>10, <1>11 DEF Next, Step

LEMMA AlwaysIInv == Spec => []IInv
BY InitIInv, NextIInv, PTL DEF Spec

-----------------------------------------------------------------------------
(* Whatever the declarations mention, resolve enters none of them while it *)
(* is being resolved: the entry that resolve_entry writes before it looks  *)
(* at a member answers every request that comes back to it.                *)
THEOREM NeverEnteredTwice == Spec => []NotEnteredTwice
<1>1. IInv => NotEnteredTwice
  BY DEF IInv, EnteredOnce, Shapes, IsSeq, NotEnteredTwice
<1> QED
  BY <1>1, AlwaysIInv, PTL

(* Whatever fails on the way, a declaration that is not being resolved is  *)
(* not marked as being so, and the reference it was given has a body: what *)
(* resolve_entry undoes after an error is all there is to undo.            *)
THEOREM NothingLeftHalfBuilt == Spec => []NothingHalfBuilt
<1>1. IInv => NothingHalfBuilt
  <2> SUFFICES ASSUME IInv, NEW n \in DOMAIN program, n \notin OnStack
               PROVE  /\ ~ entries[n].resolving
                      /\ IsResolved(n) /\ SelfReferenceable(n) =>
                            LET type == arena.types[entries[n].resolved]
                            IN  type.kind = "ref" /\ arena.decls[type.slot].state = "resolved"
    BY DEF NothingHalfBuilt
  <2>1. \A i \in 1 .. Len(stack) : stack[i].name # n
    BY DEF OnStack, IInv, Shapes, IsSeq
  <2>2. /\ ~ entries[n].resolving
        /\ HasReference(n) => arena.decls[SlotOf(n)].state = "resolved"
    BY <2>1 DEF IInv, OthersFinished
  <2>3. HasReference(n) => arena.types[entries[n].resolved].kind = "ref"
    <3>1. \A slot : RefNode(slot).kind = "ref"
      BY DEF RefNode
    <3>2. HasReference(n) => arena.types[entries[n].resolved] = RefNode(SlotOf(n))
      BY DEF IInv, OwnReferences
    <3> QED
      BY <3>1, <3>2
  <2> QED
    BY <2>2, <2>3 DEF HasReference, SlotOf
<1> QED
  BY <1>1, AlwaysIInv, PTL

-----------------------------------------------------------------------------
(* Which declarations can fail.  Every frame was asked for by the one      *)
(* below it, as a parent or because it is mentioned; a mention leads from  *)
(* a declaration to what can make it fail, so what fails with no class     *)
(* looking for its parent below it was unsound from the first request on.  *)

Collected ==
    \A i \in 1 .. Len(stack) :
       LET frame == stack[i]
           members == program[frame.name].members
       IN  /\ IsSeq(frame.parts)
           /\ program[frame.name].kind # "class" =>
                 /\ frame.at \in Nat \ {0}
                 /\ DOMAIN frame.properties \subseteq
                       {members[j].name : j \in {j \in DOMAIN members : j < frame.at}}

Paths ==
    \A i, k \in 1 .. Len(stack) :
       i <= k /\ (\A j \in i + 1 .. k : stack[j].at # 0)
       => stack[i].name \in Reachable(MentionGraph)[stack[k].name]

FailsForAReason ==
    failing => /\ stack # << >>
               /\ \/ \E i \in 1 .. Len(stack) : stack[i].at = 0
                  \/ \A i \in 1 .. Len(stack) : ~ IsSound(stack[i].name)

Off(n) == \A k \in 1 .. Len(stack) : stack[k].name # n

Answered ==
    /\ IsSeq(requests)
    /\ \A i \in 1 .. Len(requests) :
          /\ Declared(requests[i])
          /\ IsSound(requests[i]) =>
                \/ IsResolved(requests[i]) /\ Off(requests[i])
                \/ stack # << >> /\ requests[i] = stack[Len(stack)].name

SInv == program \in Programs /\ Collected /\ Paths /\ FailsForAReason /\ Answered

(* Mentions: what is reached, and that a sound declaration reaches only    *)
(* sound ones.                                                             *)
LEMMA MentionFacts ==
    LET R == Reachable(MentionGraph)
    IN  /\ \A n \in DOMAIN program : n \in R[n] /\ R[n] \subseteq DOMAIN program
        /\ \A n \in DOMAIN program : \A m \in R[n] :
              Mentioned(m) \cap DOMAIN program \subseteq R[n] /\ R[m] \subseteq R[n]
        /\ \A n \in DOMAIN program : \A m \in R[n] : IsSound(n) => IsSound(m)
<1> DEFINE R == Reachable(MentionGraph)
<1>1. /\ Nodes(MentionGraph) = DOMAIN program
      /\ MentionGraph \in [Nodes(MentionGraph) -> SUBSET Nodes(MentionGraph)]
      /\ \A m \in DOMAIN program : MentionGraph[m] = Mentioned(m) \cap DOMAIN program
  BY DEF MentionGraph, Nodes
<1>2. /\ R \in [DOMAIN program -> SUBSET DOMAIN program]
      /\ \A m \in DOMAIN program : m \in R[m]
      /\ \A m \in DOMAIN program : \A n \in R[m] :
            MentionGraph[n] \subseteq R[m] /\ R[n] \subseteq R[m]
  BY <1>1, ReachableFacts
<1> HIDE DEF R
<1>3. \A n \in DOMAIN program : n \in R[n] /\ R[n] \subseteq DOMAIN program
  BY <1>2
<1>4. \A n \in DOMAIN program : \A m \in R[n] :
         Mentioned(m) \cap DOMAIN program \subseteq R[n] /\ R[m] \subseteq R[n]
  BY <1>1, <1>2
<1>5. \A n \in DOMAIN program : \A m \in R[n] : IsSound(n) => IsSound(m)
  BY <1>4 DEF IsSound, R
<1> QED
  BY <1>3, <1>4, <1>5 DEF R

(* An alias that comes back to itself is on a cycle.                       *)
LEMMA CyclesFacts ==
    ASSUME NEW m \in DOMAIN program, NEW k \in Mentioned(m) \cap DOMAIN program,
           m \in Reachable(MentionGraph)[k]
    PROVE  k \in OnCycle(MentionGraph)
<1> DEFINE R == Reachable(MentionGraph)
           C == ComponentOf(MentionGraph)
<1>1. Nodes(MentionGraph) = DOMAIN program /\ MentionGraph[m] = Mentioned(m) \cap DOMAIN program
      /\ MentionGraph[k] = Mentioned(k) \cap DOMAIN program
  BY DEF MentionGraph, Nodes
<1>2. k \in R[m] /\ m \in R[k] /\ k \in DOMAIN program /\ m \in DOMAIN program
  BY MentionFacts
<1> HIDE DEF R
<1>3. C = [n \in DOMAIN program |-> {j \in R[n] : n \in R[j]}]
  BY <1>1 DEF ComponentOf, R
<1>4. m \in C[k]
  BY <1>2, <1>3
<1>5. CASE m = k
  BY <1>1, <1>5 DEF OnCycle
<1>6. CASE m # k
  <2>1. C[k] # {k}
    BY <1>4, <1>6
  <2> QED
    BY <2>1, <1>1, <1>2 DEF OnCycle
<1> QED
  BY <1>5, <1>6

LEMMA SoundStays ==
    ASSUME UNCHANGED program
    PROVE  /\ MentionGraph' = MentionGraph
           /\ \A n : Mentioned(n)' = Mentioned(n)
           /\ \A n : IsSound(n)' <=> IsSound(n)
           /\ \A n : Declared(n)' <=> Declared(n)
<1>1. \A n : Mentioned(n)' = Mentioned(n)
  BY DEF Mentioned
<1>2. MentionGraph' = MentionGraph
  BY <1>1 DEF MentionGraph
<1>3. \A n : (HasDuplicate(n)' <=> HasDuplicate(n)) /\ (SelfReferenceable(n)' <=> SelfReferenceable(n))
  BY DEF HasDuplicate, SelfReferenceable
<1>4. \A n : IsSound(n)' <=> IsSound(n)
  BY <1>1, <1>2, <1>3 DEF IsSound
<1> QED
  BY <1>1, <1>2, <1>4 DEF Declared

(* A program's declarations.                                               *)
LEMMA ProgramFacts ==
    ASSUME program \in Programs, NEW n \in DOMAIN program
    PROVE  /\ n \in Names /\ n # Unsupported /\ n \notin PrimitiveNames
           /\ IsSeq(program[n].members)
           /\ DOMAIN program[n].members = 1 .. Len(program[n].members)
           /\ program[n].kind # "class" => program[n].extends = NoName
           /\ \A i \in 1 .. Len(program[n].members) : IsSeq(program[n].members[i].of)
<1>1. IsProgram(program)
  BY ProgramsAssumption
<1>2. program[n] \in Decls /\ n \in Names /\ (program[n].kind # "class" => program[n].extends = NoName)
  BY <1>1 DEF IsProgram
<1>3. program[n].members \in Seq(Members)
  BY <1>2 DEF Decls
<1>4. IsSeq(program[n].members) /\ DOMAIN program[n].members = 1 .. Len(program[n].members)
  BY <1>3, SeqIsSeq, LenProperties
<1>5. \A i \in 1 .. Len(program[n].members) : program[n].members[i].of \in Seq(Atoms)
  <2>1. \A i \in 1 .. Len(program[n].members) : program[n].members[i] \in Members
    BY <1>3, ElementOfSeq
  <2> QED
    BY <2>1 DEF Members
<1>6. n # Unsupported /\ n \notin PrimitiveNames
  BY <1>2, NamesAssumption
<1> QED
  BY <1>2, <1>4, <1>5, <1>6, SeqIsSeq

(* The part being resolved is mentioned.                                   *)
LEMMA PartIsMentioned ==
    ASSUME IInv, SInv, stack # << >>, AtPart
    PROVE  Part.to \in Mentioned(Top.name) /\ Top.at # 0
<1>1. Top.name \in DOMAIN program /\ Top = stack[1] /\ 1 \in 1 .. Len(stack)
  BY TopIsFrame
<1>2. Len(Top.parts) \in Nat
  BY <1>1 DEF SInv, Collected, IsSeq
<1>3. /\ Top.at \in 1 .. Len(TopDecl.members) /\ Len(Top.parts) < Len(Member.of)
      /\ DOMAIN TopDecl.members = 1 .. Len(TopDecl.members)
      /\ IsSeq(Member.of)
  BY <1>1, ProgramFacts DEF AtPart, AtMember, TopDecl, SInv, Member
<1>4. Len(Top.parts) + 1 \in DOMAIN Member.of
  BY <1>2, <1>3 DEF IsSeq
<1>5. Part.to \in MentionedIn(Member)
  BY <1>4 DEF MentionedIn, Part
<1> QED
  BY <1>1, <1>3, <1>5 DEF Mentioned, Member, TopDecl

(* What fails by itself, under declarations that all mention their way to  *)
(* it, is unsound.                                                         *)
LEMMA TopIsUnsound ==
    ASSUME IInv, SInv, stack # << >>, CannotAnswer \/ (AtEndOfMember /\ IsDuplicate),
           \A i \in 1 .. Len(stack) : stack[i].at # 0
    PROVE  ~ IsSound(Top.name)
<1> DEFINE n == Top.name
<1>1. n \in DOMAIN program /\ Top = stack[1] /\ 1 \in 1 .. Len(stack) /\ Len(stack) \in Nat
  BY TopIsFrame DEF IInv, Shapes, IsSeq
<1>2. n \in Reachable(MentionGraph)[n]
  BY <1>1, MentionFacts
<1>3. \A i \in 1 .. Len(stack) : n \in Reachable(MentionGraph)[stack[i].name]
  BY <1>1 DEF SInv, Paths
<1>4. CASE CannotAnswer
  <2>1. Part.to \in Mentioned(n)
    BY <1>4, PartIsMentioned DEF CannotAnswer
  <2>2. CASE Part.to = Unsupported \/ (Part.to \in Names /\ ~ Declared(Part.to))
    <3>1. Part.to \notin DOMAIN program
      BY <2>2, ProgramFacts DEF SInv, Declared
    <3>2. Part.to \notin PrimitiveNames
      BY <2>2, NamesAssumption DEF PrimitiveNames, Primitives, Unsupported
    <3> QED
      BY <1>2, <2>1, <3>1, <3>2 DEF IsSound
  <2>3. CASE IsResolving(Part.to)
    <3>1. Part.to \in DOMAIN program /\ entries[Part.to].resolving
      BY <2>3 DEF IsResolving, Declared
    <3>2. PICK i \in 1 .. Len(stack) : stack[i].name = Part.to
      BY <3>1 DEF IInv, OthersFinished
    <3>3. ~ SelfReferenceable(Part.to)
      BY <3>1, <3>2 DEF IInv, Entered
    <3>4. Part.to \in OnCycle(MentionGraph)
      BY <1>1, <1>3, <2>1, <3>1, <3>2, CyclesFacts
    <3>5. Part.to \in Reachable(MentionGraph)[n]
      BY <1>1, <1>2, <2>1, <3>1, MentionFacts
    <3> QED
      BY <3>3, <3>4, <3>5 DEF IsSound
  <2> QED
    BY <1>4, <2>2, <2>3 DEF CannotAnswer
<1>5. CASE AtEndOfMember /\ IsDuplicate
  <2>1. /\ Top.at \in DOMAIN TopDecl.members /\ TopDecl.kind # "class"
        /\ Member.name \in DOMAIN Top.properties
    BY <1>5 DEF AtEndOfMember, AtMember, IsDuplicate
  <2>2. PICK j \in DOMAIN TopDecl.members : j < Top.at /\ TopDecl.members[j].name = Member.name
    BY <1>1, <2>1 DEF SInv, Collected, TopDecl
  <2>3. j # Top.at
    BY <1>1, <2>1, <2>2, ProgramFacts DEF SInv, TopDecl
  <2>4. HasDuplicate(n)
    BY <2>1, <2>2, <2>3 DEF HasDuplicate, TopDecl, Member
  <2> QED
    BY <1>2, <2>4 DEF IsSound
<1> QED
  BY <1>4, <1>5

-----------------------------------------------------------------------------
LEMMA InitSInv == Init => SInv
<1> SUFFICES ASSUME Init PROVE SInv
  OBVIOUS
<1>1. /\ Len(stack) = 0 /\ Len(requests) = 0 /\ IsSeq(requests)
      /\ program \in Programs /\ ~ failing
  BY EmptySeq, SeqIsSeq DEF Init
<1> QED
  BY <1>1 DEF SInv, Collected, Paths, FailsForAReason, Answered

(* A step that only moves the innermost frame on.                          *)
LEMMA SoundMoveOn ==
    ASSUME IInv, SInv, stack # << >>, UNCHANGED <<program, entries, requests>>, ~ failing',
           NEW f, f.name = Top.name, stack' = WithTop(f), IsSeq(f.parts),
           TopDecl.kind # "class" =>
              /\ f.at \in Nat \ {0}
              /\ DOMAIN f.properties \subseteq
                    {TopDecl.members[j].name : j \in {j \in DOMAIN TopDecl.members : j < f.at}}
    PROVE  SInv'
<1>1. /\ IsSeq(stack') /\ Len(stack') = Len(stack) /\ Len(stack) \in Nat \ {0}
      /\ stack'[1] = f /\ stack[1] = Top /\ stack' # << >>
      /\ \A i \in 2 .. Len(stack) : stack'[i] = stack[i]
  <2>1. IsSeq(stack) /\ Len(stack) \in Nat /\ Len(stack) > 0
    BY Popped DEF IInv, Shapes, IsSeq
  <2>2. /\ IsSeq(stack') /\ Len(stack') = Len(stack)
        /\ stack'[1] = f /\ stack[1] = Top
        /\ \A i \in 2 .. Len(stack) : stack'[i] = stack[i]
    BY <2>1, Replaced, Popped DEF WithTop, Top
  <2>3. Len(<< >>) = 0
    OBVIOUS
  <2> QED
    BY <2>1, <2>2, <2>3
<1>2. \A i \in 1 .. Len(stack) : stack'[i].name = stack[i].name /\ (i # 1 => stack'[i] = stack[i])
  <2> TAKE i \in 1 .. Len(stack)
  <2>1. CASE i = 1
    BY <1>1, <2>1
  <2>2. CASE i # 1
    BY <1>1, <2>2
  <2> QED
    BY <2>1, <2>2
<1>3. Collected'
  <2> SUFFICES ASSUME NEW i \in 1 .. Len(stack)
               PROVE  LET frame == stack'[i]
                          members == program[frame.name].members
                      IN  /\ IsSeq(frame.parts)
                          /\ program[frame.name].kind # "class" =>
                                /\ frame.at \in Nat \ {0}
                                /\ DOMAIN frame.properties \subseteq
                                      {members[j].name : j \in {j \in DOMAIN members : j < frame.at}}
    BY <1>1 DEF Collected
  <2>1. CASE i = 1
    BY <1>1, <2>1 DEF TopDecl
  <2>2. CASE i # 1
    BY <1>2, <2>2 DEF SInv, Collected
  <2> QED
    BY <2>1, <2>2
<1>4. Paths'
  <2> SUFFICES ASSUME NEW i \in 1 .. Len(stack), NEW k \in 1 .. Len(stack), i <= k,
                      \A j \in i + 1 .. k : stack'[j].at # 0
               PROVE  stack'[i].name \in Reachable(MentionGraph')[stack'[k].name]
    BY <1>1 DEF Paths
  <2>1. \A j \in i + 1 .. k : j \in 1 .. Len(stack) /\ j # 1
    BY <1>1
  <2>2. \A j \in i + 1 .. k : stack[j].at # 0
    BY <1>2, <2>1
  <2>3. stack[i].name \in Reachable(MentionGraph)[stack[k].name]
    BY <2>2 DEF SInv, Paths
  <2> QED
    BY <1>2, <2>3, SoundStays
<1>5. Answered'
  <2>1. \A n : Off(n)' <=> Off(n)
    BY <1>1, <1>2 DEF Off
  <2>2. \A n : IsResolved(n)' <=> IsResolved(n)
    BY SoundStays DEF IsResolved
  <2>3. stack'[Len(stack')].name = stack[Len(stack)].name
    BY <1>1, <1>2
  <2> QED
    BY <1>1, <2>1, <2>2, <2>3, SoundStays DEF SInv, Answered
<1> QED
  BY <1>3, <1>4, <1>5 DEF SInv, FailsForAReason

(* What entering a declaration does to the stack and the entries.          *)
LEMMA EnterEffect ==
    ASSUME IInv, UNCHANGED program, NEW n, Enter(n)
    PROVE  /\ n \in DOMAIN program /\ ~ IsResolved(n)
           /\ \E r : stack' = <<Frame(n, r)>> \o stack
           /\ \A m : m # n => (IsResolved(m)' <=> IsResolved(m))
<1>1. n \in DOMAIN program /\ ~ IsResolved(n)
  BY DEF Enter, IsUntouched, Declared
<1>2. \E r : stack' = <<Frame(n, r)>> \o stack
  BY DEF Enter, EnterObject, EnterAlias
<1>3. \E e : entries' = [entries EXCEPT ![n] = e]
  BY DEF Enter, EnterObject, EnterAlias
<1>4. \A m \in DOMAIN program : m # n => entries'[m] = entries[m]
  <2>1. DOMAIN entries = DOMAIN program
    BY DEF IInv, Shapes
  <2> QED
    BY <1>3, <2>1
<1> QED
  BY <1>1, <1>2, <1>4 DEF IsResolved, Declared

(* A step that enters a declaration the innermost one mentions, that a     *)
(* class wants as its parent, or that is asked for from outside.           *)
LEMMA SoundEnter ==
    ASSUME IInv, SInv, UNCHANGED <<program, failing>>, ~ failing, NEW n, Enter(n),
           stack # << >> => Top.at = 0 \/ n \in Mentioned(Top.name),
           \/ stack # << >> /\ UNCHANGED requests
           \/ stack = << >> /\ requests' = <<n>> \o requests
    PROVE  SInv'
<1>1. n \in DOMAIN program /\ ~ IsResolved(n) /\ (\A m : m # n => (IsResolved(m)' <=> IsResolved(m)))
  BY EnterEffect
<1>2. PICK r : stack' = <<Frame(n, r)>> \o stack
  BY EnterEffect
<1>3. /\ IsSeq(stack') /\ Len(stack') = Len(stack) + 1 /\ Len(stack) \in Nat
      /\ stack'[1] = Frame(n, r) /\ stack' # << >>
      /\ \A i \in 2 .. Len(stack) + 1 : i - 1 \in 1 .. Len(stack) /\ stack'[i] = stack[i - 1]
      /\ stack # << >> <=> Len(stack) > 0
      /\ stack # << >> => Top = stack[1]
  <2>1. IsSeq(stack) /\ Len(stack) \in Nat
    BY DEF IInv, Shapes, IsSeq
  <2>2. /\ IsSeq(stack') /\ Len(stack') = Len(stack) + 1
        /\ stack'[1] = Frame(n, r)
        /\ \A i \in 2 .. Len(stack) + 1 : stack'[i] = stack[i - 1]
    BY <1>2, <2>1, Pushed
  <2>3. Len(<< >>) = 0
    OBVIOUS
  <2>4. stack # << >> => Len(stack) > 0 /\ Top = stack[1]
    BY <2>1, Popped DEF Top
  <2>5. \A i \in 2 .. Len(stack) + 1 : i - 1 \in 1 .. Len(stack)
    BY <2>1
  <2> QED
    BY <2>1, <2>2, <2>3, <2>4, <2>5
<1>4. Frame(n, r).name = n /\ Frame(n, r).parts = << >> /\ Frame(n, r).properties = NoProperties
      /\ (program[n].kind # "class" => Frame(n, r).at = 1)
  BY <1>1, ProgramFacts DEF Frame, SInv
<1>5. Collected'
  <2> SUFFICES ASSUME NEW i \in 1 .. Len(stack')
               PROVE  LET frame == stack'[i]
                          members == program[frame.name].members
                      IN  /\ IsSeq(frame.parts)
                          /\ program[frame.name].kind # "class" =>
                                /\ frame.at \in Nat \ {0}
                                /\ DOMAIN frame.properties \subseteq
                                      {members[j].name : j \in {j \in DOMAIN members : j < frame.at}}
    BY DEF Collected
  <2>1. CASE i = 1
    <3>1. IsSeq(<< >>) /\ DOMAIN NoProperties = {}
      BY EmptySeq, SeqIsSeq DEF NoProperties
    <3> QED
      BY <1>3, <1>4, <2>1, <3>1
  <2>2. CASE i # 1
    <3>1. i - 1 \in 1 .. Len(stack) /\ stack'[i] = stack[i - 1]
      BY <1>3, <2>2
    <3> QED
      BY <3>1 DEF SInv, Collected
  <2> QED
    BY <2>1, <2>2
<1>6. Paths'
  <2> DEFINE R == Reachable(MentionGraph)
  <2> SUFFICES ASSUME NEW i \in 1 .. Len(stack'), NEW k \in 1 .. Len(stack'), i <= k,
                      \A j \in i + 1 .. k : stack'[j].at # 0
               PROVE  stack'[i].name \in R[stack'[k].name]
    BY SoundStays DEF Paths
  <2>1. CASE k = 1
    <3>1. i = 1
      BY <2>1, <1>3
    <3> QED
      BY <1>1, <1>3, <1>4, <2>1, <3>1, MentionFacts
  <2>2. CASE k # 1
    <3>1. /\ k - 1 \in 1 .. Len(stack) /\ stack'[k] = stack[k - 1]
          /\ \A j \in 2 .. k : stack'[j] = stack[j - 1]
          /\ stack[k - 1].name \in DOMAIN program
      BY <1>3, <2>2 DEF IInv, Shapes
    <3>2. CASE i = 1
      <4>1. \A j \in 2 .. k - 1 : stack[j].at # 0
        <5> TAKE j \in 2 .. k - 1
        <5>1. j + 1 \in i + 1 .. k /\ j + 1 \in 2 .. k /\ j = (j + 1) - 1
          BY <3>1, <3>2, <1>3
        <5>2. stack'[j + 1] = stack[j]
          BY <3>1, <5>1
        <5> QED
          BY <5>1, <5>2
      <4>2. stack[1].name \in R[stack[k - 1].name]
        <5>1. 1 \in 1 .. Len(stack) /\ 1 <= k - 1 /\ 1 + 1 = 2
          BY <3>1, <1>3
        <5> QED
          BY <3>1, <4>1, <5>1 DEF SInv, Paths
      <4>3. stack # << >> /\ Top = stack[1] /\ stack'[2] = stack[1] /\ 2 \in i + 1 .. k
        BY <1>3, <3>1, <3>2
      <4>4. n \in Mentioned(stack[1].name)
        BY <4>3
      <4>5. n \in R[stack[k - 1].name]
        BY <1>1, <3>1, <4>2, <4>4, MentionFacts
      <4> QED
        BY <1>3, <1>4, <3>1, <3>2, <4>5
    <3>3. CASE i # 1
      <4>1. i - 1 \in 1 .. Len(stack) /\ stack'[i] = stack[i - 1] /\ i - 1 <= k - 1
        BY <1>3, <3>1, <3>3
      <4>2. \A j \in (i - 1) + 1 .. k - 1 : stack[j].at # 0
        <5> TAKE j \in (i - 1) + 1 .. k - 1
        <5>1. j + 1 \in i + 1 .. k /\ j + 1 \in 2 .. k /\ j = (j + 1) - 1
          BY <3>1, <4>1, <1>3
        <5>2. stack'[j + 1] = stack[j]
          BY <3>1, <5>1
        <5> QED
          BY <5>1, <5>2
      <4>3. stack[i - 1].name \in R[stack[k - 1].name]
        BY <3>1, <4>1, <4>2 DEF SInv, Paths
      <4> QED
        BY <3>1, <4>1, <4>3
    <3> QED
      BY <3>2, <3>3
  <2> QED
    BY <2>1, <2>2
<1>7. Answered'
  <2>1. \A m : IsResolved(m) /\ Off(m) => IsResolved(m)' /\ Off(m)'
    <3> SUFFICES ASSUME NEW m, IsResolved(m), Off(m) PROVE IsResolved(m)' /\ Off(m)'
      OBVIOUS
    <3>1. m # n
      BY <1>1
    <3>2. \A k \in 1 .. Len(stack') : stack'[k].name # m
      <4> TAKE k \in 1 .. Len(stack')
      <4>1. CASE k = 1
        BY <1>3, <1>4, <3>1, <4>1
      <4>2. CASE k # 1
        BY <1>3, <4>2 DEF Off
      <4> QED
        BY <4>1, <4>2
    <3> QED
      BY <1>1, <3>1, <3>2 DEF Off
  <2>2. CASE stack # << >> /\ UNCHANGED requests
    <3>1. stack'[Len(stack')].name = stack[Len(stack)].name
      BY <1>3, <2>2
    <3> QED
      BY <1>3, <2>1, <2>2, <3>1, SoundStays DEF SInv, Answered
  <2>3. CASE stack = << >> /\ requests' = <<n>> \o requests
    <3>1. IsSeq(requests)
      BY DEF SInv, Answered
    <3>2. /\ IsSeq(requests') /\ Len(requests') = Len(requests) + 1 /\ Len(requests) \in Nat
          /\ requests'[1] = n
          /\ \A i \in 2 .. Len(requests) + 1 : requests'[i] = requests[i - 1]
      BY <2>3, <3>1, Pushed DEF IsSeq
    <3>3. stack'[Len(stack')].name = n
      BY <1>3, <1>4, <2>3
    <3>4. \A i \in 1 .. Len(requests) :
            Declared(requests[i]) /\ (IsSound(requests[i]) => IsResolved(requests[i]) /\ Off(requests[i]))
      BY <2>3 DEF SInv, Answered
    <3>5. ASSUME NEW i \in 1 .. Len(requests')
          PROVE  /\ Declared(requests'[i])
                 /\ IsSound(requests'[i]) =>
                       \/ (IsResolved(requests'[i]) /\ Off(requests'[i]))
                       \/ requests'[i] = n
      <4>1. CASE i = 1
        BY <1>1, <3>2, <4>1 DEF Declared
      <4>2. CASE i # 1
        <5>1. i - 1 \in 1 .. Len(requests) /\ requests'[i] = requests[i - 1]
          BY <3>2, <4>2
        <5> QED
          BY <3>4, <5>1
      <4> QED
        BY <4>1, <4>2
    <3>6. ASSUME NEW i \in 1 .. Len(requests')
          PROVE  /\ Declared(requests[i])'
                 /\ IsSound(requests[i])' =>
                       \/ (IsResolved(requests[i]) /\ Off(requests[i]))'
                       \/ stack' # << >> /\ requests'[i] = stack'[Len(stack')].name
      <4>1. PICK m : m = requests'[i]
        OBVIOUS
      <4>2. /\ Declared(m)' /\ (IsSound(m)' => IsSound(m))
            /\ IsSound(m) => (IsResolved(m)' /\ Off(m)') \/ m = n
        BY <3>5, <2>1, <4>1, SoundStays
      <4> QED
        BY <1>3, <3>3, <4>1, <4>2
    <3> QED
      BY <3>2, <3>6 DEF Answered
  <2> QED
    BY <2>2, <2>3
<1> QED
  BY <1>5, <1>6, <1>7 DEF SInv, FailsForAReason

(* A step that leaves a declaration, with its type or without.             *)
LEMMA SoundLeave ==
    ASSUME IInv, SInv, UNCHANGED <<program, requests>>, stack # << >>, stack' = Tail(stack),
           NEW n, n = Top.name,
           \A m : m # n => (IsResolved(m)' <=> IsResolved(m)),
           \/ IsResolved(n)' /\ ~ failing'
           \/ /\ failing' = (Len(stack) > 1)
              /\ Top.at # 0
              /\ (\A i \in 1 .. Len(stack) : stack[i].at # 0) => ~ IsSound(n)
    PROVE  SInv'
<1>1. /\ IsSeq(stack') /\ Len(stack') = Len(stack) - 1 /\ Len(stack) \in Nat \ {0}
      /\ Top = stack[1]
      /\ \A i \in 1 .. Len(stack') : i + 1 \in 1 .. Len(stack) /\ stack'[i] = stack[i + 1]
      /\ stack' # << >> <=> Len(stack) > 1
  <2>1. IsSeq(stack) /\ Len(stack) \in Nat
    BY DEF IInv, Shapes, IsSeq
  <2>2. /\ IsSeq(stack') /\ Len(stack') = Len(stack) - 1 /\ Len(stack) > 0
        /\ \A i \in 1 .. Len(stack) - 1 : stack'[i] = stack[i + 1]
        /\ Top = stack[1]
    BY <2>1, Popped DEF Top
  <2>3. \A s : IsSeq(s) /\ Len(s) = 0 => s = << >>
    BY SeqOver, EmptySeq DEF IsSeq
  <2>4. Len(<< >>) = 0
    OBVIOUS
  <2> QED
    BY <2>1, <2>2, <2>3, <2>4, SMTT(30)
<1>2. n \in DOMAIN program /\ stack[1].name = n /\ 1 \in 1 .. Len(stack)
  BY <1>1 DEF IInv, Shapes
<1>3. \A i \in 1 .. Len(stack') : stack'[i].name # n
  <2> SUFFICES ASSUME NEW i \in 1 .. Len(stack'), stack'[i].name = n PROVE FALSE
    OBVIOUS
  <2>1. i + 1 \in 1 .. Len(stack) /\ stack[i + 1].name = stack[1].name
    BY <1>1, <1>2
  <2>2. i + 1 = 1
    BY <1>2, <2>1 DEF IInv, EnteredOnce
  <2> QED
    BY <2>2, <1>1
<1>4. Collected'
  <2> SUFFICES ASSUME NEW i \in 1 .. Len(stack')
               PROVE  LET frame == stack'[i]
                          members == program[frame.name].members
                      IN  /\ IsSeq(frame.parts)
                          /\ program[frame.name].kind # "class" =>
                                /\ frame.at \in Nat \ {0}
                                /\ DOMAIN frame.properties \subseteq
                                      {members[j].name : j \in {j \in DOMAIN members : j < frame.at}}
    BY DEF Collected
  <2> QED
    BY <1>1 DEF SInv, Collected
<1>5. Paths'
  <2> SUFFICES ASSUME NEW i \in 1 .. Len(stack'), NEW k \in 1 .. Len(stack'), i <= k,
                      \A j \in i + 1 .. k : stack'[j].at # 0
               PROVE  stack'[i].name \in Reachable(MentionGraph)[stack'[k].name]
    BY SoundStays DEF Paths
  <2>1. /\ i + 1 \in 1 .. Len(stack) /\ stack'[i] = stack[i + 1]
        /\ k + 1 \in 1 .. Len(stack) /\ stack'[k] = stack[k + 1]
        /\ i + 1 <= k + 1
    BY <1>1
  <2>2. \A j \in (i + 1) + 1 .. k + 1 : stack[j].at # 0
    <3> TAKE j \in (i + 1) + 1 .. k + 1
    <3>1. j - 1 \in i + 1 .. k /\ j - 1 \in 1 .. Len(stack') /\ (j - 1) + 1 = j
      BY <1>1
    <3>2. stack'[j - 1] = stack[j]
      BY <1>1, <3>1
    <3> QED
      BY <3>1, <3>2
  <2>3. stack[i + 1].name \in Reachable(MentionGraph)[stack[k + 1].name]
    BY <2>1, <2>2 DEF SInv, Paths
  <2> QED
    BY <2>1, <2>3
<1>6. \A i \in 1 .. Len(stack) : i # 1 => i - 1 \in 1 .. Len(stack') /\ stack'[i - 1] = stack[i]
  <2> TAKE i \in 1 .. Len(stack)
  <2> HAVE i # 1
  <2>1. i - 1 \in 1 .. Len(stack') /\ (i - 1) + 1 = i
    BY <1>1
  <2> QED
    BY <1>1, <2>1
<1>7. FailsForAReason'
  <2> SUFFICES ASSUME failing'
               PROVE  /\ stack' # << >>
                      /\ \/ \E i \in 1 .. Len(stack') : stack'[i].at = 0
                         \/ \A i \in 1 .. Len(stack') : ~ IsSound(stack'[i].name)
    BY SoundStays DEF FailsForAReason
  <2>1. CASE \E i \in 1 .. Len(stack) : stack[i].at = 0
    <3>1. PICK i \in 1 .. Len(stack) : stack[i].at = 0
      BY <2>1
    <3>2. i # 1
      BY <1>1, <3>1
    <3> QED
      BY <1>1, <1>6, <3>1, <3>2
  <2>2. CASE \A i \in 1 .. Len(stack) : stack[i].at # 0
    <3>1. ~ IsSound(n)
      BY <2>2
    <3>2. \A i \in 1 .. Len(stack) : n \in Reachable(MentionGraph)[stack[i].name]
      <4> TAKE i \in 1 .. Len(stack)
      <4>1. 1 <= i /\ \A j \in 1 + 1 .. i : stack[j].at # 0
        BY <1>1, <2>2
      <4> QED
        BY <1>2, <4>1 DEF SInv, Paths
    <3>3. \A i \in 1 .. Len(stack) : ~ IsSound(stack[i].name)
      BY <3>1, <3>2, MentionFacts DEF IInv, Shapes
    <3> QED
      BY <1>1, <3>3
  <2> QED
    BY <2>1, <2>2
<1>8. Answered'
  <2> SUFFICES ASSUME NEW i \in 1 .. Len(requests), NEW m, m = requests[i]
               PROVE  /\ Declared(m)
                      /\ IsSound(m) =>
                            \/ (IsResolved(m)' /\ Off(m)')
                            \/ stack' # << >> /\ m = stack'[Len(stack')].name
    <3>1. IsSeq(requests) /\ requests' = requests
      BY DEF SInv, Answered
    <3>2. \A k \in 1 .. Len(requests) :
             /\ Declared(requests[k])
             /\ IsSound(requests[k]) =>
                   \/ (IsResolved(requests[k])' /\ Off(requests[k])')
                   \/ stack' # << >> /\ requests[k] = stack'[Len(stack')].name
      OBVIOUS
    <3> QED
      BY <3>1, <3>2, SoundStays DEF Answered
  <2>1. /\ Declared(m)
        /\ IsSound(m) =>
              \/ IsResolved(m) /\ Off(m)
              \/ m = stack[Len(stack)].name
    BY DEF SInv, Answered
  <2>2. CASE IsResolved(m) /\ Off(m)
    <3>1. m # n
      BY <1>2, <2>2 DEF Off
    <3>2. Off(m)'
      BY <1>1, <2>2 DEF Off
    <3> QED
      BY <2>1, <2>2, <3>1, <3>2
  <2>3. CASE IsSound(m) /\ m = stack[Len(stack)].name
    <3>1. CASE Len(stack) > 1
      <4>1. Len(stack') \in 1 .. Len(stack') /\ Len(stack') + 1 = Len(stack)
        BY <1>1, <3>1
      <4> QED
        BY <1>1, <2>1, <2>3, <3>1, <4>1
    <3>2. CASE ~ Len(stack) > 1
      <4>1. Len(stack) = 1 /\ m = n
        BY <1>1, <1>2, <2>3, <3>2
      <4>2. IsResolved(n)'
        BY <1>1, <2>3, <4>1
      <4>3. Off(m)'
        BY <1>1, <4>1 DEF Off
      <4> QED
        BY <2>1, <4>1, <4>2, <4>3
    <3> QED
      BY <3>1, <3>2
  <2> QED
    BY <2>1, <2>2, <2>3
<1> QED
  BY <1>4, <1>5, <1>7, <1>8 DEF SInv

LEMMA NextSInv == IInv /\ SInv /\ [Next]_vars => SInv'
<1> SUFFICES ASSUME IInv, SInv, [Next]_vars PROVE SInv'
  OBVIOUS
<1>1. stack # << >> =>
         /\ Top = stack[1] /\ 1 \in 1 .. Len(stack) /\ IsFrame(Top) /\ Top.name \in DOMAIN program
         /\ IsSeq(Top.parts)
         /\ TopDecl.kind # "class" =>
               /\ Top.at \in Nat \ {0}
               /\ DOMAIN Top.properties \subseteq
                     {TopDecl.members[j].name : j \in {j \in DOMAIN TopDecl.members : j < Top.at}}
  BY TopIsFrame DEF SInv, Collected, TopDecl
<1>2. ASSUME NEW n \in Names, Request(n) PROVE SInv'
  <2>1. ~ failing
    BY <1>2 DEF Request, SInv, FailsForAReason
  <2> QED
    BY <1>2, <2>1, SoundEnter DEF Request
<1>3. CASE AskParent
  BY <1>3, SoundEnter DEF AskParent, Running, AtHeritage
<1>4. CASE AskPart
  BY <1>4, SoundEnter, PartIsMentioned DEF AskPart, Running
<1>5. CASE Inherit
  <2>1. /\ stack # << >> /\ ~ failing' /\ UNCHANGED <<program, entries, requests>>
        /\ TopDecl.kind = "class"
    BY <1>1, <1>5 DEF Inherit, Running, AtHeritage
  <2>2. PICK properties : stack' = WithTop([Top EXCEPT !.at = 1, !.properties = properties])
    BY <1>5 DEF Inherit
  <2>3. /\ [Top EXCEPT !.at = 1, !.properties = properties].name = Top.name
        /\ [Top EXCEPT !.at = 1, !.properties = properties].parts = Top.parts
    BY <1>1, <2>1 DEF IsFrame
  <2> QED
    BY <1>1, <2>1, <2>2, <2>3, SoundMoveOn
<1>6. CASE PassOver
  <2>1. /\ stack # << >> /\ ~ failing' /\ UNCHANGED <<program, entries, requests>>
        /\ TopDecl.kind = "class"
    BY <1>1, <1>6 DEF PassOver, AtHeritage
  <2>2. stack' = WithTop([Top EXCEPT !.at = 1])
    BY <1>6 DEF PassOver
  <2>3. /\ [Top EXCEPT !.at = 1].name = Top.name
        /\ [Top EXCEPT !.at = 1].parts = Top.parts
    BY <1>1, <2>1 DEF IsFrame
  <2> QED
    BY <1>1, <2>1, <2>2, <2>3, SoundMoveOn
<1>7. CASE AnswerPart
  <2>1. stack # << >> /\ ~ failing' /\ UNCHANGED <<program, entries, requests>>
    BY <1>7 DEF AnswerPart, Running
  <2>2. PICK id : stack' = WithTop([Top EXCEPT !.parts = Append(@, id)])
    BY <1>7 DEF AnswerPart
  <2>3. PICK f : f = [Top EXCEPT !.parts = Append(Top.parts, id)]
    OBVIOUS
  <2>4. /\ f.name = Top.name /\ f.at = Top.at /\ f.properties = Top.properties
        /\ f.parts = Append(Top.parts, id) /\ stack' = WithTop(f)
    BY <1>1, <2>1, <2>2, <2>3 DEF IsFrame
  <2>5. IsSeq(f.parts)
    BY <1>1, <2>1, <2>4, Appended
  <2> QED
    BY <1>1, <2>1, <2>4, <2>5, SoundMoveOn
<1>8. CASE CloseMember
  <2>1. /\ stack # << >> /\ ~ failing' /\ UNCHANGED <<program, entries, requests>>
        /\ Top.at \in DOMAIN TopDecl.members
    BY <1>8 DEF CloseMember, Running, AtEndOfMember, AtMember
  <2>2. PICK value : stack' = WithTop([Top EXCEPT !.at = @ + 1, !.parts = << >>,
                                          !.properties = With(@, Member.name, value)])
    BY <1>8 DEF CloseMember
  <2>3. PICK at, properties : at = Top.at + 1 /\ properties = With(Top.properties, Member.name, value)
    OBVIOUS
  <2>4. PICK f : f = [Top EXCEPT !.at = at, !.parts = << >>, !.properties = properties]
    OBVIOUS
  <2>5. stack' = WithTop(f)
    BY <2>2, <2>3, <2>4
  <2>6. /\ f.name = Top.name /\ f.at = at /\ f.properties = properties /\ f.parts = << >>
    BY <1>1, <2>1, <2>4 DEF IsFrame
  <2>7. IsSeq(f.parts)
    BY <2>6, EmptySeq, SeqIsSeq
  <2>8. DOMAIN properties = DOMAIN Top.properties \cup {Member.name}
    BY <2>3 DEF With
  <2>9. TopDecl.kind # "class" =>
           /\ at \in Nat \ {0}
           /\ DOMAIN properties \subseteq
                 {TopDecl.members[j].name : j \in {j \in DOMAIN TopDecl.members : j < at}}
    <3> SUFFICES ASSUME TopDecl.kind # "class", NEW name \in DOMAIN properties
                 PROVE  /\ at \in Nat \ {0}
                        /\ \E j \in DOMAIN TopDecl.members : j < at /\ name = TopDecl.members[j].name
      BY <1>1, <2>1, <2>3
    <3>1. at \in Nat \ {0} /\ Top.at < at
      BY <1>1, <2>1, <2>3
    <3>2. CASE name = Member.name
      BY <2>1, <3>1, <3>2 DEF Member
    <3>3. CASE name \in DOMAIN Top.properties
      <4>1. PICK j \in DOMAIN TopDecl.members : j < Top.at /\ name = TopDecl.members[j].name
        BY <1>1, <2>1, <3>3
      <4>2. j < at
        <5>1. j \in Nat
          BY <1>1, <2>1, <4>1, ProgramFacts DEF SInv, TopDecl
        <5> QED
          BY <1>1, <2>1, <3>1, <4>1, <5>1
      <4> QED
        BY <3>1, <4>1, <4>2
    <3> QED
      BY <2>8, <3>2, <3>3
  <2> QED
    BY <2>1, <2>5, <2>6, <2>7, <2>9, SoundMoveOn
<1>9. CASE Finish
  <2>1. /\ stack # << >> /\ stack' = Tail(stack) /\ ~ failing'
        /\ UNCHANGED <<program, entries, requests>> /\ SelfReferenceable(Top.name)
    BY <1>9 DEF Finish, Running
  <2>2. IsResolved(Top.name)
    BY <1>1, <2>1 DEF IInv, Entered, IsResolved, Declared
  <2>3. \A m : IsResolved(m)' <=> IsResolved(m)
    BY <2>1 DEF IsResolved, Declared
  <2> QED
    BY <2>1, <2>2, <2>3, SoundLeave
<1>10. CASE FinishAlias
  <2>1. /\ stack # << >> /\ stack' = Tail(stack) /\ ~ failing'
        /\ UNCHANGED <<program, requests>>
    BY <1>10 DEF FinishAlias, Running
  <2>2. PICK a, id : entries' = [entries EXCEPT ![Top.name] =
                        [resolved |-> AllocNamed(a, id).id, resolving |-> FALSE]]
                     /\ Keeps(arena, a)
    <3>1. Keeps(arena, Annotated.arena)
      BY AllocUnionKeeps, KeepsItself DEF Annotated, IInv, Shapes
    <3> QED
      BY <1>10, <3>1 DEF FinishAlias
  <2>3. AllocNamed(a, id).id # NoType
    <3>1. DOMAIN Primitives = 1 .. 10
      BY DEF Primitives
    <3>2. Len(a.types) \in Nat
      BY <2>2 DEF Keeps, IsArenaRecord, IsSeq
    <3> QED
      BY <3>1, <3>2 DEF AllocNamed, IsPrimitive, Push, NewId, NoType
  <2>4. PICK n : n = Top.name
    OBVIOUS
  <2>5. /\ \A m \in DOMAIN program : m # n => entries'[m] = entries[m]
        /\ entries'[n] = [resolved |-> AllocNamed(a, id).id, resolving |-> FALSE]
    BY <1>1, <2>1, <2>2, <2>4, EntryWritten DEF IInv
  <2>6. n \in DOMAIN program /\ entries'[n].resolved # NoType
    BY <1>1, <2>1, <2>3, <2>4, <2>5
  <2>7. IsResolved(n)' /\ \A m : m # n => (IsResolved(m)' <=> IsResolved(m))
    BY <2>1, <2>5, <2>6 DEF IsResolved, Declared
  <2> QED
    BY <2>1, <2>4, <2>7, SoundLeave
<1>11. CASE Fail
  <2>1. /\ stack # << >> /\ stack' = Tail(stack) /\ Fails
        /\ UNCHANGED <<program, requests>> /\ failing' = (Len(stack) > 1)
        /\ entries' = [entries EXCEPT ![Top.name] = [resolved |-> NoType, resolving |-> FALSE]]
    BY <1>11 DEF Fail
  <2>2. \A m : m # Top.name => (IsResolved(m)' <=> IsResolved(m))
    BY <2>1 DEF IsResolved, Declared, IInv, Shapes
  <2>3. Top.at # 0 /\ ((\A i \in 1 .. Len(stack) : stack[i].at # 0) => ~ IsSound(Top.name))
    <3>1. CASE failing /\ ~ AtHeritage
      BY <1>1, <2>1, <3>1 DEF AtHeritage, SInv, FailsForAReason
    <3>2. CASE CannotAnswer \/ (AtEndOfMember /\ IsDuplicate)
      <4>1. Top.at \in DOMAIN TopDecl.members
        BY <3>2 DEF CannotAnswer, AtPart, AtEndOfMember, AtMember
      <4>2. Top.at # 0
        BY <1>1, <2>1, <4>1, ProgramFacts DEF SInv, TopDecl
      <4> QED
        BY <2>1, <3>2, <4>2, TopIsUnsound
    <3> QED
      BY <2>1, <3>1, <3>2 DEF Fails
  <2> QED
    BY <2>1, <2>2, <2>3, SoundLeave
<1>12. CASE UNCHANGED vars
  <2>1. /\ UNCHANGED <<program, entries, stack, failing, requests>>
    BY <1>12 DEF vars
  <2>2. Collected' /\ Paths'
    BY <2>1, SoundStays DEF SInv, Collected, Paths
  <2>3. \A n : (IsResolved(n)' <=> IsResolved(n)) /\ (Off(n)' <=> Off(n))
    BY <2>1 DEF IsResolved, Declared, Off
  <2>4. FailsForAReason' /\ Answered'
    BY <2>1, <2>3, SoundStays DEF SInv, FailsForAReason, Answered
  <2> QED
    BY <2>1, <2>2, <2>4 DEF SInv
<1> QED
  BY <1>2, <1>3, <1>4, <1>5, <1>6, <1>7, <1>8, <1>9, <1>10, <1>11, <1>12 DEF Next, Step

LEMMA AlwaysSInv == Spec => []SInv
<1>1. IInv /\ SInv /\ [Next]_vars => SInv'
  BY NextSInv
<1> QED
  BY <1>1, InitSInv, AlwaysIInv, PTL DEF Spec

(* A declaration whose mentions all resolve has its type once a request    *)
(* for it was answered, whatever was asked, and failed, before: resolve    *)
(* undoes a failure far enough for the next request to start from nothing. *)
THEOREM SoundGetTypes == Spec => []SoundIsResolved
<1>1. IInv /\ SInv => SoundIsResolved
  BY DEF SInv, Answered, SoundIsResolved, Idle, IsSeq
<1> QED
  BY <1>1, AlwaysIInv, AlwaysSInv, PTL

-----------------------------------------------------------------------------
(* The arena's types.  A wrapper is younger than what it wraps and a body  *)
(* is an object, so what an id stands for is found; the table of digests   *)
(* holds every object and every array, so equal content is found.          *)

(* What nothing in these declarations is read as.                          *)
Foreign == {"app", "intersection", "parameter"}

GroundedIn(a) ==
    /\ \A i \in Ids(a) : /\ a.types[i].kind \notin Foreign
                         /\ a.types[i].kind = "named" => a.types[i].inner < i
    /\ \A slot \in Slots(a) :
          a.decls[slot].state = "resolved" => a.types[a.decls[slot].body].kind = "object"

Interned == {"object", "array"}

Known(a, i) ==
    \E k \in DOMAIN Shared(a, Digest(a.types[i])) : Shared(a, Digest(a.types[i]))[k] = i

InternedIn(a) ==
    /\ \A i \in Ids(a) : a.types[i].kind \in Interned => Known(a, i)
    /\ \A i, j \in Ids(a) : a.types[i].kind \in Interned /\ a.types[i] = a.types[j] => i = j

(* No union has a union among its members, and none has no member.         *)
ReadFlat(a, members) ==
    members # << >> /\ \A k \in DOMAIN members : Get(a, members[k]).kind # "union"

FlatIn(a) ==
    \A i \in Ids(a) : a.types[i].kind = "union" => ReadFlat(a, a.types[i].members)

WellFormed(a) == IsArenaRecord(a) /\ IsArena(a) /\ GroundedIn(a)

IsTyped(a) == WellFormed(a) /\ InternedIn(a) /\ FlatIn(a)

LEMMA IdsAre ==
    ASSUME NEW a, IsArenaRecord(a)
    PROVE  Ids(a) = 1 .. Len(a.types) /\ Slots(a) = 1 .. Len(a.decls)
BY DEF IsArenaRecord, IsSeq, Ids, Slots

LEMMA PropertiesMono ==
    ASSUME NEW I, NEW J, I \subseteq J
    PROVE  Properties(I) \subseteq Properties(J)
<1> SUFFICES ASSUME NEW p \in Properties(I) PROVE p \in Properties(J)
  OBVIOUS
<1>1. PICK names \in SUBSET Property :
         p \in [names -> [type : I, optional : BOOLEAN, method : BOOLEAN]]
  BY DEF Properties
<1>2. p \in [names -> [type : J, optional : BOOLEAN, method : BOOLEAN]]
  BY <1>1
<1> QED
  BY <1>2 DEF Properties

LEMMA SeqMono ==
    ASSUME NEW I, NEW J, I \subseteq J
    PROVE  Seq(I) \subseteq Seq(J)
BY SeqDef

(* A type stays one when there are more ids to mention.                    *)
LEMMA NodeMono ==
    ASSUME NEW I, NEW J, I \subseteq J, NEW S, NEW T, S \subseteq T
    PROVE  Node(I, S) \subseteq Node(J, T)
<1> SUFFICES ASSUME NEW x \in Node(I, S) PROVE x \in Node(J, T)
  OBVIOUS
<1>1. Properties(I) \subseteq Properties(J) /\ Seq(I) \subseteq Seq(J)
  BY PropertiesMono, SeqMono
<1>2. Binder(I) \subseteq Binder(J)
  BY DEF Binder
<1>3. Seq(Binder(I)) \subseteq Seq(Binder(J))
  BY <1>2, SeqMono
<1>4. [type : I, optional : BOOLEAN, rest : BOOLEAN] \subseteq
         [type : J, optional : BOOLEAN, rest : BOOLEAN]
  OBVIOUS
<1>5. Seq([type : I, optional : BOOLEAN, rest : BOOLEAN]) \subseteq
         Seq([type : J, optional : BOOLEAN, rest : BOOLEAN])
  BY <1>4, SeqMono
<1> DEFINE Function(ids) ==
             [kind : {"function"}, params : Seq([type : ids, optional : BOOLEAN, rest : BOOLEAN]),
              returns : ids, binders : Seq(Binder(ids))]
<1>6. Function(I) \subseteq Function(J)
  BY <1>3, <1>5
<1> DEFINE Other(ids, slots) ==
             [kind : {"primitive"}, name : PrimitiveNames]
             \cup [kind : {"array"}, element : ids]
             \cup [kind : {"object"}, properties : Properties(ids)]
             \cup [kind : {"union", "intersection"}, members : Seq(ids)]
             \cup [kind : {"literal"}, base : {"string", "number", "boolean"}, value : Literal]
             \cup [kind : {"parameter"}, id : Parameter, bound : ids \cup {NoBound}]
             \cup [kind : {"app"}, of : Applied, args : Seq(ids), body : ids]
             \cup [kind : {"ref"}, slot : slots]
             \cup [kind : {"named"}, inner : ids]
<1>7. Other(I, S) \subseteq Other(J, T)
  BY <1>1
<1>8. \A ids, slots : Node(ids, slots) = Other(ids, slots) \cup Function(ids)
  BY DEF Node
<1> HIDE DEF Other, Function
<1> QED
  BY <1>6, <1>7, <1>8

(* The fields of a type of each kind.                                      *)
LEMMA NodeFields ==
    ASSUME NEW I, NEW S, NEW x \in Node(I, S)
    PROVE  /\ x.kind = "named" => x.inner \in I
           /\ x.kind = "app" => x.body \in I
           /\ x.kind = "ref" => x.slot \in S
           /\ x.kind = "object" => x.properties \in Properties(I)
           /\ x.kind = "union" => x.members \in Seq(I)
BY DEF Node

LEMMA NodesAre ==
    ASSUME NEW I, NEW S
    PROVE  /\ \A id \in I : ArrayNode(id) \in Node(I, S) /\ NamedNode(id) \in Node(I, S)
           /\ \A p \in Properties(I) : ObjectNode(p) \in Node(I, S)
           /\ \A members \in Seq(I) : UnionNode(members) \in Node(I, S)
           /\ \A slot \in S : RefNode(slot) \in Node(I, S)
           /\ \A name \in PrimitiveNames : PrimitiveNode(name) \in Node(I, S)
<1>1. \A id \in I : ArrayNode(id) \in Node(I, S)
  BY DEF Node, ArrayNode
<1>2. \A id \in I : NamedNode(id) \in Node(I, S)
  BY DEF Node, NamedNode
<1>3. \A p \in Properties(I) : ObjectNode(p) \in Node(I, S)
  BY DEF Node, ObjectNode
<1>4. \A members \in Seq(I) : UnionNode(members) \in Node(I, S)
  BY DEF Node, UnionNode
<1>5. \A slot \in S : RefNode(slot) \in Node(I, S)
  BY DEF Node, RefNode
<1>6. \A name \in PrimitiveNames : PrimitiveNode(name) \in Node(I, S)
  BY DEF Node, PrimitiveNode
<1> QED
  BY <1>1, <1>2, <1>3, <1>4, <1>5, <1>6

LEMMA NoPropertiesAre ==
    ASSUME NEW I
    PROVE  NoProperties \in Properties(I)
<1>1. NoProperties \in [{} -> [type : I, optional : BOOLEAN, method : BOOLEAN]]
  BY DEF NoProperties
<1> QED
  BY <1>1 DEF Properties

(* What stands behind an id is one of the arena's, and is found by looking *)
(* behind one wrapper or one finished reference at a time.                 *)
LEMMA BehindFacts ==
    ASSUME NEW a, WellFormed(a)
    PROVE  \A id \in Ids(a) :
              LET next == Inner(a, id, a.types[id])
              IN  /\ next \in Ids(a) /\ Behind(a, id) \in Ids(a)
                  /\ Behind(a, id) = IF next = id THEN id ELSE Behind(a, next)
<1> DEFINE T == Ids(a)
           next(i) == Inner(a, i, a.types[i])
           h == CHOOSE f : f = [i \in T |-> IF next(i) = i THEN i ELSE f[next(i)]]
<1>1. \A id : Behind(a, id) = h[id]
  BY DEF Behind
<1>2. T \subseteq Nat /\ T = 1 .. Len(a.types)
  BY DEF Ids, IsTyped, WellFormed, IsArenaRecord, IsSeq
<1>3. ASSUME NEW i \in T
      PROVE  /\ next(i) \in T
             /\ next(i) = i \/ next(i) < i \/ next(next(i)) = next(i)
  <2>1. a.types[i] \in Node(T, Slots(a)) /\ a.types[i].kind \notin Foreign
    BY DEF IsTyped, WellFormed, IsArena, GroundedIn
  <2>2. CASE a.types[i].kind = "named"
    BY <2>1, <2>2, NodeFields DEF Inner, IsTyped, WellFormed, GroundedIn
  <2>3. CASE a.types[i].kind = "ref" /\ a.decls[a.types[i].slot].state = "resolved"
    <3>1. a.types[i].slot \in Slots(a)
      BY <2>1, <2>3, NodeFields
    <3>2. /\ next(i) = a.decls[a.types[i].slot].body /\ next(i) \in T
          /\ a.types[next(i)].kind = "object"
      BY <2>3, <3>1 DEF Inner, IsTyped, WellFormed, IsArena, GroundedIn
    <3> QED
      BY <3>2 DEF Inner
  <2>4. CASE a.types[i].kind # "named"
             /\ ~ (a.types[i].kind = "ref" /\ a.decls[a.types[i].slot].state = "resolved")
    BY <2>1, <2>4 DEF Inner, Foreign
  <2> QED
    BY <2>2, <2>3, <2>4
<1> DEFINE graph == [i \in T |-> {next(i)}]
           R == Reachable(graph)
           F == [i \in T |-> {f \in R[i] : next(f) = f}]
           g == [i \in T |-> CHOOSE f : f \in F[i]]
<1> HIDE DEF next
<1>4. /\ R \in [T -> SUBSET T]
      /\ \A i \in T : i \in R[i] /\ next(i) \in T
      /\ \A i \in T : \A j \in R[i] : {next(j)} \subseteq R[i] /\ R[j] \subseteq R[i]
      /\ \A i \in T, S \in SUBSET T : (\A j \in S : next(j) \in S) /\ i \in S => R[i] \subseteq S
  <2>1. graph \in [Nodes(graph) -> SUBSET Nodes(graph)] /\ Nodes(graph) = T
    BY <1>3 DEF Nodes
  <2>2. \A S \in SUBSET T : Closed(graph, S) <=> \A j \in S : next(j) \in S
    BY DEF Closed
  <2>3. \A i \in T : graph[i] = {next(i)}
    OBVIOUS
  <2> HIDE DEF graph
  <2> QED
    BY <1>3, <2>1, <2>2, <2>3, ReachableFacts
<1> HIDE DEF R
<1>5. \A i \in T : next(i) = i => g[i] = i
  <2> SUFFICES ASSUME NEW i \in T, next(i) = i PROVE g[i] = i
    OBVIOUS
  <2>1. R[i] \subseteq {i}
    BY <1>4
  <2>2. F[i] = {i}
    BY <1>4, <2>1
  <2> QED
    BY <2>2
<1>6. \A i \in T : next(i) # i => g[i] = g[next(i)]
  <2> SUFFICES ASSUME NEW i \in T, next(i) # i PROVE g[i] = g[next(i)]
    OBVIOUS
  <2>1. R[i] \subseteq {i} \cup R[next(i)]
    <3> DEFINE S == {i} \cup R[next(i)]
    <3>1. S \in SUBSET T /\ i \in S
      BY <1>4
    <3>2. \A j \in S : next(j) \in S
      BY <1>4
    <3> HIDE DEF S
    <3>3. R[i] \subseteq S
      BY <1>4, <3>1, <3>2
    <3> QED
      BY <3>3 DEF S
  <2>2. R[next(i)] \subseteq R[i]
    BY <1>4
  <2>3. next(i) \in T
    BY <1>4
  <2>4. F[i] = F[next(i)]
    BY <2>1, <2>2, <2>3
  <2> QED
    BY <2>3, <2>4
<1>7. g = [i \in T |-> IF next(i) = i THEN i ELSE g[next(i)]]
  <2>1. \A i \in T : g[i] = IF next(i) = i THEN i ELSE g[next(i)]
    BY <1>5, <1>6
  <2>2. g = [i \in T |-> g[i]]
    OBVIOUS
  <2> HIDE DEF g
  <2> QED
    BY <2>1, <2>2
<1>8. h = [i \in T |-> IF next(i) = i THEN i ELSE h[next(i)]]
  <2> HIDE DEF g
  <2> QED
    BY <1>7
<1> HIDE DEF h, g, F
<1>9. \A i \in T : h[i] \in T
  <2> DEFINE Bad == {i \in T : h[i] \notin T}
  <2>1. SUFFICES ASSUME Bad # {} PROVE FALSE
    OBVIOUS
  <2>2. PICK i \in Bad : \A j \in Bad : i <= j
    <3>1. Bad \subseteq Nat
      BY <1>2
    <3> HIDE DEF Bad
    <3> QED
      BY <2>1, <3>1, LeastNumber
  <2>3. next(i) # i /\ h[i] = h[next(i)] /\ next(i) \in T
    BY <1>3, <1>8, <2>2
  <2>4. next(next(i)) = next(i) \/ next(i) < i
    BY <1>3, <2>3
  <2>5. CASE next(next(i)) = next(i)
    BY <1>8, <2>2, <2>3, <2>5
  <2>6. CASE next(i) < i
    <3>1. next(i) \in Bad
      BY <2>2, <2>3
    <3>2. i <= next(i) /\ i \in Nat /\ next(i) \in Nat
      BY <1>2, <2>2, <3>1
    <3> QED
      BY <2>6, <3>2
  <2> QED
    BY <2>4, <2>5, <2>6
<1> QED
  BY <1>1, <1>3, <1>8, <1>9 DEF next

LEMMA GetFacts ==
    ASSUME NEW a, WellFormed(a), NEW id \in Ids(a)
    PROVE  /\ Get(a, id) \in Node(Ids(a), Slots(a))
           /\ a.types[id].kind = "object" => Behind(a, id) = id
           /\ a.types[id].kind = "ref" /\ a.decls[a.types[id].slot].state = "resolved" =>
                 LET body == a.decls[a.types[id].slot].body
                 IN  /\ body \in Ids(a) /\ a.types[body].kind = "object"
                     /\ Get(a, id) = a.types[body]
<1>1. Behind(a, id) \in Ids(a)
  BY BehindFacts
<1>2. a.types[Behind(a, id)] \in Node(Ids(a), Slots(a))
  BY <1>1 DEF IsTyped, WellFormed, IsArena
<1>3. EmptyObject \in Node(Ids(a), Slots(a))
  BY NodesAre, NoPropertiesAre DEF EmptyObject
<1>4. \A i \in Ids(a) : a.types[i].kind = "object" => Behind(a, i) = i
  BY BehindFacts DEF Inner
<1>5. ASSUME a.types[id].kind = "ref", a.decls[a.types[id].slot].state = "resolved",
             NEW body, body = a.decls[a.types[id].slot].body
      PROVE  /\ body \in Ids(a) /\ a.types[body].kind = "object"
             /\ Get(a, id) = a.types[body]
  <2>1. a.types[id].slot \in Slots(a)
    BY <1>5, NodeFields DEF IsTyped, WellFormed, IsArena
  <2>2. body \in Ids(a) /\ a.types[body].kind = "object"
    BY <1>5, <2>1 DEF IsTyped, WellFormed, IsArena, GroundedIn
  <2>3. Inner(a, id, a.types[id]) = body
    BY <1>5 DEF Inner
  <2>4. Behind(a, id) = body
    BY <1>4, <2>2, <2>3, <1>5, BehindFacts
  <2> QED
    BY <2>2, <2>4 DEF Get, Readable
<1> QED
  BY <1>2, <1>3, <1>4, <1>5 DEF Get, Readable

(* What an id reads as is what is behind it, or nothing yet.               *)
LEMMA ReadsTypes ==
    ASSUME NEW a, WellFormed(a), NEW id \in Ids(a)
    PROVE  /\ a.types[id].kind = "ref" => Get(a, id).kind = "object"
           /\ a.types[id].kind = "named" =>
                 /\ a.types[id].inner \in Ids(a) /\ a.types[id].inner < id
                 /\ Get(a, id) = Get(a, a.types[id].inner)
           /\ a.types[id].kind \notin {"ref", "named"} => Get(a, id) = a.types[id]
           /\ Get(a, id).kind # "object" => \E i \in Ids(a) : Get(a, id) = a.types[i]
<1>1. a.types[id] \in Node(Ids(a), Slots(a)) /\ a.types[id].kind \notin Foreign /\ id \in Nat
  BY DEF WellFormed, IsArena, GroundedIn, IsArenaRecord, IsSeq, Ids
<1>2. EmptyObject.kind = "object"
  BY DEF EmptyObject, ObjectNode
<1>3. ASSUME a.types[id].kind = "ref" PROVE Get(a, id).kind = "object"
  <2>1. CASE a.decls[a.types[id].slot].state = "resolved"
    BY <1>3, <2>1, GetFacts
  <2>2. CASE a.decls[a.types[id].slot].state # "resolved"
    <3>1. Behind(a, id) = id
      BY <1>3, <2>2, BehindFacts DEF Inner
    <3> QED
      BY <1>2, <1>3, <3>1 DEF Get, Readable
  <2> QED
    BY <2>1, <2>2
<1>4. ASSUME a.types[id].kind = "named"
      PROVE  /\ a.types[id].inner \in Ids(a) /\ a.types[id].inner < id
             /\ Get(a, id) = Get(a, a.types[id].inner)
  <2>1. a.types[id].inner \in Ids(a) /\ a.types[id].inner < id
    BY <1>1, <1>4, NodeFields DEF WellFormed, GroundedIn
  <2>2. Behind(a, id) = Behind(a, a.types[id].inner)
    BY <1>1, <1>4, <2>1, BehindFacts DEF Inner
  <2> QED
    BY <2>1, <2>2 DEF Get
<1>5. ASSUME a.types[id].kind \notin {"ref", "named"} PROVE Get(a, id) = a.types[id]
  <2>1. Behind(a, id) = id
    BY <1>1, <1>5, BehindFacts DEF Inner, Foreign
  <2> QED
    BY <1>5, <2>1 DEF Get, Readable
<1>6. ASSUME Get(a, id).kind # "object" PROVE \E i \in Ids(a) : Get(a, id) = a.types[i]
  <2>1. Behind(a, id) \in Ids(a)
    BY BehindFacts
  <2> QED
    BY <1>2, <1>6, <2>1 DEF Get, Readable
<1> QED
  BY <1>3, <1>4, <1>5, <1>6

(* What is added to an arena, and what declarations are given bodies, does *)
(* not change the kind of what an id reads as, and only objects change.    *)
ReadsAs(a, b, id) ==
    /\ Get(b, id).kind = Get(a, id).kind
    /\ Get(a, id).kind # "object" => Get(b, id) = Get(a, id)

LEMMA ReadsStay ==
    ASSUME NEW a, WellFormed(a), NEW b, WellFormed(b), Ids(a) \subseteq Ids(b),
           \A i \in Ids(a) : b.types[i] = a.types[i]
    PROVE  \A id \in Ids(a) : ReadsAs(a, b, id)
<1> DEFINE Bad == {id \in Ids(a) : ~ ReadsAs(a, b, id)}
<1>1. SUFFICES ASSUME Bad # {} PROVE FALSE
  OBVIOUS
<1>2. PICK id \in Bad : \A j \in Bad : id <= j
  <2>1. Bad \subseteq Nat
    BY DEF WellFormed, IsArenaRecord, IsSeq, Ids
  <2> HIDE DEF Bad
  <2> QED
    BY <1>1, <2>1, LeastNumber
<1>3. id \in Ids(a) /\ id \in Ids(b) /\ b.types[id] = a.types[id] /\ ~ ReadsAs(a, b, id)
  BY <1>2
<1>4. CASE a.types[id].kind = "ref"
  BY <1>3, <1>4, ReadsTypes DEF ReadsAs
<1>5. CASE a.types[id].kind = "named"
  <2>1. PICK inner : inner = a.types[id].inner
    OBVIOUS
  <2>2. inner \in Ids(a) /\ inner < id /\ Get(a, id) = Get(a, inner) /\ Get(b, id) = Get(b, inner)
    BY <1>3, <1>5, <2>1, ReadsTypes
  <2>3. id \in Nat /\ inner \in Nat
    BY <1>3, <2>2 DEF WellFormed, IsArenaRecord, IsSeq, Ids
  <2>4. inner \notin Bad
    <3> HIDE DEF Bad
    <3> QED
      BY <1>2, <2>2, <2>3
  <2>5. ReadsAs(a, b, inner)
    BY <2>2, <2>4
  <2> QED
    BY <1>3, <2>2, <2>5 DEF ReadsAs
<1>6. CASE a.types[id].kind \notin {"ref", "named"}
  <2>1. Get(a, id) = a.types[id] /\ Get(b, id) = b.types[id]
    BY <1>3, <1>6, ReadsTypes
  <2> QED
    BY <1>3, <2>1 DEF ReadsAs
<1> QED
  BY <1>4, <1>5, <1>6

(* The members of a union.                                                 *)
LEMMA UnionMembers ==
    ASSUME NEW a, WellFormed(a), NEW id \in Ids(a), Get(a, id).kind = "union"
    PROVE  /\ Get(a, id).members \in Seq(Ids(a))
           /\ DOMAIN Get(a, id).members = 1 .. Len(Get(a, id).members)
           /\ \A k \in DOMAIN Get(a, id).members : Get(a, id).members[k] \in Ids(a)
           /\ FlatIn(a) => ReadFlat(a, Get(a, id).members)
<1>1. Get(a, id) \in Node(Ids(a), Slots(a))
  BY GetFacts
<1>2. Get(a, id).members \in Seq(Ids(a))
  BY <1>1, NodeFields
<1>3. \E i \in Ids(a) : Get(a, id) = a.types[i]
  BY ReadsTypes
<1> QED
  BY <1>2, <1>3, MembersAre DEF FlatIn

(* An arena with one more type, and tables of ids.                         *)
Grown(a, node, interned, unions) ==
    [types |-> Append(a.types, node), decls |-> a.decls, interned |-> interned, unions |-> unions]

LEMMA GrownFields ==
    ASSUME NEW a, NEW node, NEW i, NEW u, NEW table
    PROVE  LET b == Grown(a, node, i, u)
           IN  /\ b.types = Append(a.types, node) /\ b.decls = a.decls
               /\ b.interned = i /\ b.unions = u
               /\ [b EXCEPT !.interned = table] = Grown(a, node, table, u)
               /\ [b EXCEPT !.unions = table] = Grown(a, node, i, table)
               /\ b = [types |-> b.types, decls |-> b.decls,
                       interned |-> b.interned, unions |-> b.unions]
<1> DEFINE b == Grown(a, node, i, u)
<1>1. b.types = Append(a.types, node) /\ b.decls = a.decls /\ b.interned = i /\ b.unions = u
  BY DEF Grown
<1>2. [b EXCEPT !.interned = table] = Grown(a, node, table, u)
  <2>0. PICK t, d, c, e : /\ t = Append(a.types, node) /\ d = a.decls
                          /\ c = Grown(a, node, table, u) /\ e = b
    OBVIOUS
  <2>1. /\ e = [types |-> t, decls |-> d, interned |-> i, unions |-> u]
        /\ c = [types |-> t, decls |-> d, interned |-> table, unions |-> u]
    BY <2>0, Zenon DEF Grown
  <2> HIDE DEF b
  <2>2. [e EXCEPT !.interned = table] = c
    BY <2>1
  <2> QED
    BY <2>0, <2>2
<1>3. [b EXCEPT !.unions = table] = Grown(a, node, i, table)
  BY SMTT(30) DEF Grown
<1>4. b = [types |-> b.types, decls |-> b.decls, interned |-> b.interned, unions |-> b.unions]
  BY DEF Grown
<1> QED
  BY <1>1, <1>2, <1>3, <1>4

(* What an arena with one more type is.                                    *)
HasOneMore(a, node, b) ==
    /\ IsArenaRecord(b) /\ IsArena(b) /\ GroundedIn(b)
    /\ Ids(b) = Ids(a) \cup {NewId(a)} /\ Slots(b) = Slots(a)
    /\ NewId(a) \notin Ids(a) /\ b.types[NewId(a)] = node
    /\ \A i \in Ids(a) : b.types[i] = a.types[i]

LEMMA OneMore ==
    ASSUME NEW a, IsTyped(a), NEW node \in Node(Ids(a), Slots(a)), node.kind \notin Foreign,
           NEW interned, NEW unions,
           \A digest \in DOMAIN interned : interned[digest] \in Seq(Ids(a) \cup {NewId(a)}),
           \A digest \in DOMAIN unions : unions[digest] \in Ids(a) \cup {NewId(a)}
    PROVE  HasOneMore(a, node, Grown(a, node, interned, unions))
<1> DEFINE b == Grown(a, node, interned, unions)
<1>0. /\ b.types = Append(a.types, node) /\ b.decls = a.decls
      /\ b.interned = interned /\ b.unions = unions
      /\ b = [types |-> b.types, decls |-> b.decls, interned |-> b.interned, unions |-> b.unions]
  BY GrownFields
<1> HIDE DEF b
<1>1. /\ Len(a.types) \in Nat /\ Ids(a) = 1 .. Len(a.types) /\ IsSeq(a.types) /\ IsSeq(a.decls)
      /\ NewId(a) = Len(a.types) + 1
  BY DEF IsTyped, WellFormed, IsArenaRecord, IsSeq, Ids, NewId
<1>2. /\ IsSeq(b.types) /\ Len(b.types) = Len(a.types) + 1
      /\ b.types[NewId(a)] = node
      /\ \A i \in Ids(a) : b.types[i] = a.types[i]
  BY <1>0, <1>1, Appended
<1>3. /\ Ids(b) = Ids(a) \cup {NewId(a)} /\ Slots(b) = Slots(a) /\ NewId(a) \notin Ids(a)
      /\ IsArenaRecord(b)
  BY <1>0, <1>1, <1>2 DEF Ids, Slots, IsArenaRecord, IsSeq
<1>4. \A i \in Ids(b) : b.types[i] \in Node(Ids(b), Slots(b))
  <2>1. Node(Ids(a), Slots(a)) \subseteq Node(Ids(b), Slots(b))
    BY <1>3, NodeMono
  <2> QED
    BY <1>2, <1>3, <2>1 DEF IsTyped, WellFormed, IsArena
<1>5. \A slot \in Slots(b) :
         \/ b.decls[slot] \in [state : {"resolving", "failed"}, body : {NoBody}]
         \/ b.decls[slot] \in [state : {"resolved"}, body : Ids(b)]
  <2>1. \A slot \in Slots(a) :
           \/ a.decls[slot] \in [state : {"resolving", "failed"}, body : {NoBody}]
           \/ a.decls[slot] \in [state : {"resolved"}, body : Ids(a)]
    BY DEF IsTyped, WellFormed, IsArena
  <2>2. [state : {"resolved"}, body : Ids(a)] \subseteq [state : {"resolved"}, body : Ids(b)]
    BY <1>3
  <2> QED
    BY <1>0, <1>3, <2>1, <2>2
<1>6. IsArena(b)
  BY <1>0, <1>3, <1>4, <1>5 DEF IsArena
<1>7. GroundedIn(b)
  <2>1. ASSUME NEW i \in Ids(b)
        PROVE  b.types[i].kind \notin Foreign /\ (b.types[i].kind = "named" => b.types[i].inner < i)
    <3>1. CASE i \in Ids(a)
      BY <1>2, <3>1 DEF IsTyped, WellFormed, GroundedIn
    <3>2. CASE i = NewId(a)
      <4>1. node.kind = "named" => node.inner \in Ids(a)
        BY NodeFields
      <4> QED
        BY <1>1, <1>2, <3>2, <4>1
    <3> QED
      BY <1>3, <2>1, <3>1, <3>2
  <2>2. ASSUME NEW slot \in Slots(b), b.decls[slot].state = "resolved"
        PROVE  b.types[b.decls[slot].body].kind = "object"
    <3>1. slot \in Slots(a) /\ a.decls[slot].state = "resolved" /\ b.decls = a.decls
      BY <1>0, <1>3, <2>2
    <3>2. a.decls[slot].body \in Ids(a) /\ a.types[a.decls[slot].body].kind = "object"
      BY <3>1 DEF IsTyped, WellFormed, IsArena, GroundedIn
    <3> QED
      BY <1>2, <3>1, <3>2
  <2> QED
    BY <2>1, <2>2 DEF GroundedIn
<1> QED
  BY <1>2, <1>3, <1>6, <1>7 DEF b, HasOneMore

LEMMA PushRecord ==
    ASSUME NEW a, IsArenaRecord(a), NEW node
    PROVE  Push(a, node) = [arena |-> Grown(a, node, a.interned, a.unions), id |-> NewId(a)]
BY SMTT(30) DEF Push, IsArenaRecord, Grown

LEMMA PushRemembered ==
    ASSUME NEW a, IsArenaRecord(a), NEW node, NEW table
    PROVE  [Push(a, node) EXCEPT !.arena.interned = table] =
              [arena |-> Grown(a, node, table, a.unions), id |-> NewId(a)]
<1> PICK p, b, c : /\ p = Push(a, node) /\ b = Grown(a, node, a.interned, a.unions)
                   /\ c = Grown(a, node, table, a.unions)
  OBVIOUS
<1>1. p = [arena |-> b, id |-> NewId(a)]
  BY PushRecord
<1>2. [b EXCEPT !.interned = table] = c
  BY GrownFields
<1>3. [p EXCEPT !.arena.interned = table] = [arena |-> c, id |-> NewId(a)]
  BY <1>1, <1>2
<1> QED
  BY <1>3, Zenon

LEMMA PushShared ==
    ASSUME NEW a, IsArenaRecord(a), NEW node, NEW table
    PROVE  [Push(a, node) EXCEPT !.arena.unions = table] =
              [arena |-> Grown(a, node, a.interned, table), id |-> NewId(a)]
<1> PICK p, b, c : /\ p = Push(a, node) /\ b = Grown(a, node, a.interned, a.unions)
                   /\ c = Grown(a, node, a.interned, table)
  OBVIOUS
<1>1. p = [arena |-> b, id |-> NewId(a)]
  BY PushRecord
<1>2. [b EXCEPT !.unions = table] = c
  BY GrownFields
<1>3. [p EXCEPT !.arena.unions = table] = [arena |-> c, id |-> NewId(a)]
  BY <1>1, <1>2
<1> QED
  BY <1>3, Zenon

(* The tables of an arena.                                                 *)
LEMMA TablesFacts ==
    ASSUME NEW a, IsTyped(a), NEW J, Ids(a) \subseteq J, NEW digest
    PROVE  /\ \A d \in DOMAIN a.interned : a.interned[d] \in Seq(J)
           /\ \A d \in DOMAIN a.unions : a.unions[d] \in J
           /\ Shared(a, digest) \in Seq(Ids(a))
<1>1. Seq(Ids(a)) \subseteq Seq(J)
  BY SeqMono
<1>2. /\ \A d \in DOMAIN a.interned : a.interned[d] \in Seq(Ids(a))
      /\ \A d \in DOMAIN a.unions : a.unions[d] \in Ids(a)
  BY DEF IsTyped, WellFormed, IsArena
<1> QED
  BY <1>1, <1>2 DEF Shared

(* Unions stay flat when a type is added that is none, or one of what is.  *)
LEMMA FlatGrows ==
    ASSUME NEW a, IsTyped(a), NEW node, NEW b, HasOneMore(a, node, b),
           node.kind = "union" => node.members \in Seq(Ids(a)) /\ ReadFlat(a, node.members)
    PROVE  FlatIn(b)
<1>1. /\ WellFormed(a) /\ WellFormed(b) /\ FlatIn(a)
      /\ Ids(b) = Ids(a) \cup {NewId(a)} /\ b.types[NewId(a)] = node
      /\ \A i \in Ids(a) : b.types[i] = a.types[i]
  BY DEF IsTyped, WellFormed, HasOneMore
<1>2. \A id \in Ids(a) : Get(b, id).kind = Get(a, id).kind
  BY <1>1, ReadsStay DEF ReadsAs
<1>3. \A members \in Seq(Ids(a)) : ReadFlat(a, members) => ReadFlat(b, members)
  BY <1>2, MembersAre DEF ReadFlat
<1>4. ASSUME NEW i \in Ids(b), b.types[i].kind = "union"
      PROVE  ReadFlat(b, b.types[i].members)
  <2>1. CASE i \in Ids(a)
    <3>1. a.types[i].members \in Seq(Ids(a)) /\ ReadFlat(a, a.types[i].members)
      BY <1>1, <1>4, <2>1, NodeFields DEF FlatIn, WellFormed, IsArena
    <3> QED
      BY <1>1, <1>3, <2>1, <3>1
  <2>2. CASE i = NewId(a)
    BY <1>1, <1>3, <1>4, <2>2
  <2> QED
    BY <1>1, <1>4, <2>1, <2>2
<1> QED
  BY <1>4 DEF FlatIn

(* What allocating a type gives: an arena of types with that type in it.   *)
Gives(a, new) ==
    /\ IsTyped(new.arena) /\ Keeps(a, new.arena) /\ new.id \in Ids(new.arena)
    /\ Ids(a) \subseteq Ids(new.arena) /\ Slots(new.arena) = Slots(a)

(* A type the table of digests does not hold.                              *)
LEMMA PushGives ==
    ASSUME NEW a, IsTyped(a), NEW node \in Node(Ids(a), Slots(a)),
           node.kind \notin Foreign, node.kind \notin Interned,
           node.kind = "union" => ReadFlat(a, node.members), NEW unions,
           \A digest \in DOMAIN unions : unions[digest] \in Ids(a) \cup {NewId(a)}
    PROVE  /\ Gives(a, [arena |-> Grown(a, node, a.interned, unions), id |-> NewId(a)])
           /\ Grown(a, node, a.interned, unions).types[NewId(a)] = node
<1> DEFINE b == Grown(a, node, a.interned, unions)
<1>1. \A digest \in DOMAIN a.interned : a.interned[digest] \in Seq(Ids(a) \cup {NewId(a)})
  BY TablesFacts
<1>2a. HasOneMore(a, node, b)
  BY <1>1, OneMore
<1>3. b.interned = a.interned /\ b.decls = a.decls
  BY GrownFields
<1> HIDE DEF b
<1>2. /\ IsArenaRecord(b) /\ IsArena(b) /\ GroundedIn(b)
      /\ Ids(b) = Ids(a) \cup {NewId(a)} /\ Slots(b) = Slots(a)
      /\ NewId(a) \notin Ids(a) /\ b.types[NewId(a)] = node
      /\ \A i \in Ids(a) : b.types[i] = a.types[i]
  BY <1>2a DEF HasOneMore
<1>3a. \A digest : Shared(b, digest) = Shared(a, digest)
  BY <1>3 DEF Shared
<1>4. InternedIn(b)
  <2>1. ASSUME NEW i \in Ids(b), b.types[i].kind \in Interned
        PROVE  i \in Ids(a) /\ Known(b, i)
    <3>1. i \in Ids(a) /\ b.types[i] = a.types[i]
      BY <1>2, <2>1
    <3>2. Known(a, i)
      BY <2>1, <3>1 DEF IsTyped, WellFormed, InternedIn
    <3>3. Shared(b, Digest(b.types[i])) = Shared(a, Digest(a.types[i]))
      BY <1>3a, <3>1, Zenon
    <3> QED
      BY <3>1, <3>2, <3>3 DEF Known
  <2>2. ASSUME NEW i \in Ids(b), NEW j \in Ids(b), b.types[i].kind \in Interned,
               b.types[i] = b.types[j]
        PROVE  i = j
    <3>1. i \in Ids(a) /\ j \in Ids(a)
      BY <2>1, <2>2
    <3> QED
      BY <1>2, <2>2, <3>1 DEF IsTyped, WellFormed, InternedIn
  <2> QED
    BY <2>1, <2>2 DEF InternedIn
<1>5. Keeps(a, b)
  <2>1. Ids(a) = 1 .. Len(a.types) /\ Ids(b) = 1 .. Len(b.types) /\ Len(a.types) \in Nat
        /\ Len(b.types) \in Nat
    BY <1>2 DEF IsTyped, WellFormed, IsArenaRecord, IsSeq, Ids
  <2>2. Len(a.types) <= Len(b.types)
    BY <1>2, <2>1 DEF NewId
  <2> QED
    BY <1>2, <1>3, <2>1, <2>2 DEF Keeps
<1>6. FlatIn(b)
  <2>1. node.kind = "union" => node.members \in Seq(Ids(a))
    BY NodeFields
  <2> QED
    BY <1>2a, <2>1, FlatGrows
<1> QED
  BY <1>2, <1>4, <1>5, <1>6 DEF IsTyped, WellFormed, Gives, b

(* Alloc finds the type or remembers it.                                   *)
LEMMA AllocGives ==
    ASSUME NEW a, IsTyped(a), NEW node \in Node(Ids(a), Slots(a)), node.kind \in Interned
    PROVE  /\ Gives(a, Alloc(a, node))
           /\ Alloc(a, node).arena.types[Alloc(a, node).id] = node
<1> DEFINE shared == Shared(a, Digest(node))
           new == NewId(a)
<1>1. shared \in Seq(Ids(a)) /\ IsArenaRecord(a)
  BY TablesFacts DEF IsTyped, WellFormed
<1>2. CASE \E i \in DOMAIN shared : a.types[shared[i]] = node
  <2>1. PICK i \in DOMAIN shared : /\ a.types[shared[i]] = node
                                   /\ Alloc(a, node) = [arena |-> a, id |-> shared[i]]
    BY <1>2 DEF Alloc
  <2>2. shared[i] \in Ids(a)
    BY <1>1, <2>1
  <2> QED
    BY <1>1, <2>1, <2>2, KeepsItself DEF Gives
<1>3. CASE ~ \E i \in DOMAIN shared : a.types[shared[i]] = node
  <2> DEFINE interned == With(a.interned, Digest(node), Append(shared, new))
             b == Grown(a, node, interned, a.unions)
  <2>1. Alloc(a, node) = [arena |-> b, id |-> new]
    <3>1. Push(a, node).arena.interned = a.interned /\ Push(a, node).id = new
      <4>1. Push(a, node).arena = Grown(a, node, a.interned, a.unions) /\ Push(a, node).id = new
        BY <1>1, PushRecord
      <4> QED
        BY <4>1, GrownFields
    <3>2. Alloc(a, node) = [Push(a, node) EXCEPT !.arena.interned =
                               With(Push(a, node).arena.interned, Digest(node), Append(shared, new))]
      BY <1>1, <1>3, <3>1 DEF Alloc
    <3>3. Alloc(a, node) = [Push(a, node) EXCEPT !.arena.interned = interned]
      BY <3>1, <3>2, Zenon
    <3> HIDE DEF interned
    <3> QED
      BY <1>1, <3>3, PushRemembered
  <2>2. /\ Append(shared, new) \in Seq(Ids(a) \cup {new})
        /\ Len(shared) \in Nat /\ DOMAIN shared = 1 .. Len(shared)
        /\ DOMAIN Append(shared, new) = 1 .. Len(shared) + 1
        /\ Append(shared, new)[Len(shared) + 1] = new
        /\ \A i \in 1 .. Len(shared) : Append(shared, new)[i] = shared[i]
    <3>1. shared \in Seq(Ids(a) \cup {new})
      BY <1>1, SeqMono
    <3> QED
      BY <3>1, AppendProperties, LenProperties
  <2>3. \A digest \in DOMAIN interned : interned[digest] \in Seq(Ids(a) \cup {new})
    BY <2>2, TablesFacts DEF With
  <2>4. HasOneMore(a, node, b)
    <3>1. node.kind \notin Foreign
      BY DEF Interned, Foreign
    <3>2. \A d \in DOMAIN a.unions : a.unions[d] \in Ids(a) \cup {new}
      BY TablesFacts
    <3> HIDE DEF interned
    <3> QED
      BY <2>3, <3>1, <3>2, OneMore
  <2>5. /\ Shared(b, Digest(node)) = Append(shared, new)
        /\ \A d : d # Digest(node) => Shared(b, d) = Shared(a, d)
    <3>1. b.interned = interned
      <4> HIDE DEF interned
      <4> QED
        BY GrownFields
    <3>2. /\ Digest(node) \in DOMAIN interned /\ interned[Digest(node)] = Append(shared, new)
          /\ \A d : d # Digest(node) => /\ d \in DOMAIN interned <=> d \in DOMAIN a.interned
                                        /\ d \in DOMAIN interned => interned[d] = a.interned[d]
      BY DEF With
    <3> HIDE DEF b, interned
    <3> QED
      BY <3>1, <3>2 DEF Shared
  <2> HIDE DEF b, interned
  <2>4a. /\ IsArenaRecord(b) /\ IsArena(b) /\ GroundedIn(b)
         /\ Ids(b) = Ids(a) \cup {new} /\ Slots(b) = Slots(a)
         /\ new \notin Ids(a) /\ b.types[new] = node
         /\ \A i \in Ids(a) : b.types[i] = a.types[i]
    BY <2>4 DEF HasOneMore
  <2> HIDE DEF new
  <2>6. ASSUME NEW i \in Ids(b), b.types[i].kind \in Interned PROVE Known(b, i)
    <3>1. CASE i = new
      <4>1. Len(shared) + 1 \in DOMAIN Append(shared, new)
        BY <2>2
      <4> QED
        BY <2>2, <2>4a, <2>5, <3>1, <4>1 DEF Known
    <3>2. CASE i # new
      <4>1. i \in Ids(a) /\ b.types[i] = a.types[i]
        BY <2>4a, <3>2
      <4>2. PICK k \in DOMAIN Shared(a, Digest(a.types[i])) :
               Shared(a, Digest(a.types[i]))[k] = i
        BY <2>6, <4>1 DEF IsTyped, WellFormed, InternedIn, Known
      <4>3. CASE Digest(a.types[i]) = Digest(node)
        <5>1. k \in DOMAIN Append(shared, new) /\ Append(shared, new)[k] = i
          BY <2>2, <4>2, <4>3
        <5> QED
          BY <2>5, <4>1, <4>3, <5>1 DEF Known
      <4>4. CASE Digest(a.types[i]) # Digest(node)
        BY <2>5, <4>1, <4>2, <4>4 DEF Known
      <4> QED
        BY <4>3, <4>4
    <3> QED
      BY <3>1, <3>2
  <2>7. \A i \in Ids(a) : a.types[i] # node
    <3> SUFFICES ASSUME NEW i \in Ids(a), a.types[i] = node PROVE FALSE
      OBVIOUS
    <3>1. Known(a, i)
      BY DEF IsTyped, WellFormed, InternedIn
    <3> QED
      BY <1>3, <3>1 DEF Known
  <2>8. ASSUME NEW i \in Ids(b), NEW j \in Ids(b), b.types[i].kind \in Interned,
               b.types[i] = b.types[j]
        PROVE  i = j
    <3>1. CASE i \in Ids(a) /\ j \in Ids(a)
      BY <2>4a, <2>8, <3>1 DEF IsTyped, WellFormed, InternedIn
    <3>2. CASE i = new \/ j = new
      BY <2>4a, <2>7, <2>8, <3>2
    <3> QED
      BY <2>4a, <3>1, <3>2
  <2>9. IsTyped(b)
    <3>1. FlatIn(b)
      BY <2>4, FlatGrows DEF Interned
    <3> QED
      BY <2>4a, <2>6, <2>8, <3>1 DEF IsTyped, WellFormed, InternedIn
  <2>10. Keeps(a, b)
    <3>1. Keeps(a, Alloc(a, node).arena)
      BY <1>1, AllocKeeps
    <3> QED
      BY <2>1, <3>1
  <2> QED
    BY <2>1, <2>4a, <2>9, <2>10 DEF Gives
<1> QED
  BY <1>2, <1>3

(* There is a function from a step that leads from sequences to sequences. *)
IsIteration(f, N, b, G) ==
    /\ f = [n \in 0 .. N |-> f[n]]
    /\ f[0] = b
    /\ \A n \in 1 .. N : f[n] = G[n][f[n - 1]]

LEMMA SequencesIterated ==
    ASSUME NEW N \in Nat, NEW I, NEW b \in Seq(I), NEW G,
           \A n \in 1 .. N : \A x \in Seq(I) : G[n][x] \in Seq(I)
    PROVE  \E f : IsIteration(f, N, b, G) /\ \A n \in 0 .. N : f[n] \in Seq(I)
<1> DEFINE S == [n \in 0 .. N |-> Seq(I)]
<1>1. \A n \in 0 .. N : S[n] = Seq(I)
  OBVIOUS
<1>2. \A n \in 1 .. N : n \in 0 .. N /\ n - 1 \in 0 .. N /\ n # 0
  OBVIOUS
<1> HIDE DEF S
<1>4. b \in S[0] /\ Advances(N, S, G)
  BY <1>1, <1>2 DEF Advances
<1>5. PICK f : /\ f = [n \in 0 .. N |-> f[n]]
               /\ f[0] = b
               /\ \A n \in 1 .. N : f[n] = G[n][f[n - 1]]
               /\ \A n \in 0 .. N : f[n] \in S[n]
  BY <1>4, Iterated
<1>6. \A n \in 0 .. N : f[n] \in Seq(I)
  BY <1>1, <1>5
<1> QED
  BY <1>5, <1>6 DEF IsIteration

(* What holds at 0 and goes from each number to the next holds up to N.    *)
LEMMA UpToN ==
    ASSUME NEW N \in Nat, NEW P, 0 \in P, \A n \in 1 .. N : n - 1 \in P => n \in P
    PROVE  \A n \in 0 .. N : n \in P
<1> DEFINE Bad == {n \in 0 .. N : n \notin P}
<1>1. SUFFICES ASSUME Bad # {} PROVE FALSE
  OBVIOUS
<1>2. PICK n \in Bad : \A k \in Bad : n <= k
  <2>1. Bad \subseteq Nat
    OBVIOUS
  <2> HIDE DEF Bad
  <2> QED
    BY <1>1, <2>1, LeastNumber
<1>3. n \in 0 .. N /\ n \notin P /\ n # 0
  OBVIOUS
<1>4. n \in 1 .. N /\ n - 1 \in 0 .. N /\ ~ n <= n - 1
  BY <1>3
<1>5. n - 1 \notin Bad
  <2> HIDE DEF Bad
  <2> QED
    BY <1>2, <1>4
<1> QED
  BY <1>3, <1>4, <1>5

LEMMA ConcatHolds ==
    ASSUME NEW I, NEW s \in Seq(I), NEW t \in Seq(I)
    PROVE  ToSet(s \o t) = ToSet(s) \cup ToSet(t)
<1>1. /\ Len(s) \in Nat /\ Len(t) \in Nat
      /\ DOMAIN s = 1 .. Len(s) /\ DOMAIN t = 1 .. Len(t)
      /\ DOMAIN (s \o t) = 1 .. Len(s) + Len(t)
      /\ \A i \in 1 .. Len(s) + Len(t) : (s \o t)[i] = IF i <= Len(s) THEN s[i] ELSE t[i - Len(s)]
  BY MembersAre, ConcatProperties
<1>2. ToSet(s \o t) \subseteq ToSet(s) \cup ToSet(t)
  <2> SUFFICES ASSUME NEW i \in DOMAIN (s \o t) PROVE (s \o t)[i] \in ToSet(s) \cup ToSet(t)
    BY DEF ToSet
  <2>1. CASE i <= Len(s)
    BY <1>1, <2>1 DEF ToSet
  <2>2. CASE ~ i <= Len(s)
    <3>1. i - Len(s) \in DOMAIN t /\ (s \o t)[i] = t[i - Len(s)]
      BY <1>1, <2>2
    <3> QED
      BY <3>1 DEF ToSet
  <2> QED
    BY <2>1, <2>2
<1>3. ASSUME NEW i \in DOMAIN s PROVE s[i] \in ToSet(s \o t)
  <2>1. i \in DOMAIN (s \o t) /\ (s \o t)[i] = s[i]
    BY <1>1
  <2> QED
    BY <2>1 DEF ToSet
<1>4. ASSUME NEW i \in DOMAIN t PROVE t[i] \in ToSet(s \o t)
  <2>1. i + Len(s) \in DOMAIN (s \o t) /\ (s \o t)[i + Len(s)] = t[i]
    BY <1>1
  <2> QED
    BY <2>1 DEF ToSet
<1>5. ToSet(s) \subseteq ToSet(s \o t) /\ ToSet(t) \subseteq ToSet(s \o t)
  BY <1>3, <1>4 DEF ToSet
<1> QED
  BY <1>2, <1>5

LEMMA AppendHolds ==
    ASSUME NEW I, NEW s \in Seq(I), NEW x \in I
    PROVE  ToSet(Append(s, x)) = ToSet(s) \cup {x}
<1>1. /\ Len(s) \in Nat /\ DOMAIN s = 1 .. Len(s)
      /\ Append(s, x) \in Seq(I) /\ Len(Append(s, x)) = Len(s) + 1
      /\ Append(s, x)[Len(s) + 1] = x
      /\ \A i \in 1 .. Len(s) : Append(s, x)[i] = s[i]
  BY MembersAre, AppendProperties
<1>2. DOMAIN Append(s, x) = (1 .. Len(s)) \cup {Len(s) + 1}
  BY <1>1, MembersAre
<1> QED
  BY <1>1, <1>2 DEF ToSet

LEMMA ReverseHolds ==
    ASSUME NEW I, NEW s \in Seq(I)
    PROVE  ToSet(Reverse(s)) = ToSet(s)
<1>1. Len(s) \in Nat /\ DOMAIN s = 1 .. Len(s)
  BY MembersAre
<1>2. /\ DOMAIN Reverse(s) = 1 .. Len(s)
      /\ \A i \in 1 .. Len(s) : Reverse(s)[i] = s[(Len(s) - i) + 1]
  BY DEF Reverse
<1>3. \A i \in 1 .. Len(s) : /\ (Len(s) - i) + 1 \in 1 .. Len(s)
                             /\ (Len(s) - ((Len(s) - i) + 1)) + 1 = i
  BY <1>1
<1>4. ToSet(Reverse(s)) \subseteq ToSet(s)
  BY <1>1, <1>2, <1>3 DEF ToSet
<1>5. ASSUME NEW i \in 1 .. Len(s) PROVE s[i] \in ToSet(Reverse(s))
  <2>1. PICK j \in 1 .. Len(s) : (Len(s) - j) + 1 = i
    BY <1>3
  <2>2. j \in DOMAIN Reverse(s) /\ Reverse(s)[j] = s[i]
    BY <1>2, <2>1
  <2> QED
    BY <2>2 DEF ToSet
<1> QED
  BY <1>1, <1>4, <1>5 DEF ToSet

(* Sequences of sequences, one after the other: what each one leads to.    *)
IsFlattening(g, seqs, I) ==
    /\ g[1] = seqs[1] /\ FlattenSeq(seqs) = g[Len(seqs)]
    /\ \A i \in 1 .. Len(seqs) : g[i] \in Seq(I) /\ (i # 1 => g[i] = g[i - 1] \o seqs[i])

LEMMA FlattenSeqUnfolds ==
    ASSUME NEW I, NEW seqs \in Seq(Seq(I)), Len(seqs) # 0
    PROVE  \E g : IsFlattening(g, seqs, I)
<1> DEFINE f == CHOOSE f : f = [i \in 1 .. Len(seqs) |->
                                  IF i = 1 THEN seqs[i] ELSE f[i - 1] \o seqs[i]]
           N == Len(seqs) - 1
           G == [n \in 1 .. N |-> [x \in Seq(I) |-> x \o seqs[n + 1]]]
<1>0. Len(seqs) \in Nat /\ \A i \in 1 .. Len(seqs) : seqs[i] \in Seq(I)
  BY ElementOfSeq, LenProperties
<1>1. N \in Nat /\ N + 1 = Len(seqs) /\ \A n \in 1 .. N : n + 1 \in 1 .. Len(seqs)
  BY <1>0
<1>2. \A n \in 1 .. N : \A x \in Seq(I) : G[n][x] = x \o seqs[n + 1] /\ G[n][x] \in Seq(I)
  BY <1>0, <1>1, ConcatProperties
<1>3. seqs[1] \in Seq(I)
  BY <1>0
<1> HIDE DEF G
<1>4. PICK g : IsIteration(g, N, seqs[1], G) /\ \A n \in 0 .. N : g[n] \in Seq(I)
  <2>1. \A n \in 1 .. N : \A x \in Seq(I) : G[n][x] \in Seq(I)
    BY <1>2
  <2> QED
    BY <1>1, <1>3, <2>1, SequencesIterated
<1> DEFINE h == [i \in 1 .. Len(seqs) |-> g[i - 1]]
<1>5. \A i \in 1 .. Len(seqs) : /\ h[i] = IF i = 1 THEN seqs[i] ELSE h[i - 1] \o seqs[i]
                                /\ h[i] \in Seq(I)
  <2> SUFFICES ASSUME NEW i \in 1 .. Len(seqs)
               PROVE  /\ h[i] = IF i = 1 THEN seqs[i] ELSE h[i - 1] \o seqs[i]
                      /\ h[i] \in Seq(I)
    OBVIOUS
  <2>1. i - 1 \in 0 .. N /\ i \in Nat /\ h[i] = g[i - 1]
    BY <1>1
  <2>2. CASE i = 1
    BY <1>3, <1>4, <2>1, <2>2 DEF IsIteration
  <2>3. CASE i # 1
    <3>1. i - 1 \in 1 .. N /\ (i - 1) + 1 = i /\ (i - 1) - 1 \in 0 .. N /\ i - 1 # 0
          /\ i - 1 \in 1 .. Len(seqs)
      BY <1>1, <2>1, <2>3
    <3>2. h[i - 1] = g[(i - 1) - 1]
      BY <3>1
    <3>3. g[i - 1] = G[i - 1][g[(i - 1) - 1]]
      BY <1>4, <3>1 DEF IsIteration
    <3>4. g[(i - 1) - 1] \in Seq(I)
      BY <1>4, <3>1
    <3>5. G[i - 1][g[(i - 1) - 1]] = g[(i - 1) - 1] \o seqs[i]
      BY <1>2, <3>1, <3>4
    <3>6. g[i - 1] \in Seq(I)
      BY <1>4, <2>1
    <3> QED
      BY <2>1, <2>3, <3>2, <3>3, <3>5, <3>6
  <2> QED
    BY <2>2, <2>3
<1>6. h = [i \in 1 .. Len(seqs) |-> IF i = 1 THEN seqs[i] ELSE h[i - 1] \o seqs[i]]
  <2>1. h = [i \in 1 .. Len(seqs) |-> h[i]]
    OBVIOUS
  <2> HIDE DEF h, N
  <2>2. \A i \in 1 .. Len(seqs) : h[i] = IF i = 1 THEN seqs[i] ELSE h[i - 1] \o seqs[i]
    BY <1>5
  <2> QED
    BY <2>1, <2>2
<1>7. f = [i \in 1 .. Len(seqs) |-> IF i = 1 THEN seqs[i] ELSE f[i - 1] \o seqs[i]]
  <2> HIDE DEF h, N
  <2> QED
    BY <1>6
<1>8. FlattenSeq(seqs) = f[Len(seqs)]
  BY DEF FlattenSeq
<1> HIDE DEF f, h, N
<1>9. \A i \in 1 .. Len(seqs) : f[i] = IF i = 1 THEN seqs[i] ELSE f[i - 1] \o seqs[i]
  BY <1>7
<1> DEFINE P == {n \in Nat : f[n + 1] \in Seq(I)}
<1>10. \A n \in 0 .. N : n \in P
  <2>1. 0 \in P
    BY <1>0, <1>3, <1>9
  <2>2. ASSUME NEW n \in 1 .. N, n - 1 \in P PROVE n \in P
    <3>1. n \in Nat /\ n + 1 \in 1 .. Len(seqs) /\ n + 1 # 1 /\ (n + 1) - 1 = n /\ (n - 1) + 1 = n
      BY <1>1
    <3>2. f[n + 1] = f[n] \o seqs[n + 1]
      BY <1>9, <3>1
    <3>3. f[n] \in Seq(I)
      BY <2>2, <3>1
    <3>4. f[n] \o seqs[n + 1] \in Seq(I)
      BY <1>0, <3>1, <3>3, ConcatProperties
    <3> QED
      BY <3>1, <3>2, <3>4
  <2> HIDE DEF P
  <2> QED
    BY <1>1, <2>1, <2>2, UpToN
<1>11. \A i \in 1 .. Len(seqs) : f[i] \in Seq(I)
  <2> SUFFICES ASSUME NEW i \in 1 .. Len(seqs) PROVE f[i] \in Seq(I)
    OBVIOUS
  <2>1. i - 1 \in 0 .. N /\ (i - 1) + 1 = i
    BY <1>0, <1>1
  <2>2. i - 1 \in P
    <3> HIDE DEF P
    <3> QED
      BY <1>10, <2>1
  <2> QED
    BY <2>1, <2>2
<1>12. 1 \in 1 .. Len(seqs)
  BY <1>0
<1> QED
  BY <1>8, <1>9, <1>11, <1>12 DEF IsFlattening

LEMMA FlattenSeqType ==
    ASSUME NEW I, NEW seqs \in Seq(Seq(I))
    PROVE  FlattenSeq(seqs) \in Seq(I)
<1>1. Len(seqs) \in Nat
  BY LenProperties
<1>2. CASE Len(seqs) = 0
  BY <1>2, EmptySeq DEF FlattenSeq
<1>3. CASE Len(seqs) # 0
  <2>1. PICK g : IsFlattening(g, seqs, I)
    BY <1>3, FlattenSeqUnfolds
  <2>2. Len(seqs) \in 1 .. Len(seqs)
    BY <1>1, <1>3
  <2> QED
    BY <2>1, <2>2 DEF IsFlattening
<1> QED
  BY <1>2, <1>3

(* It holds what they hold.                                                *)
LEMMA FlattenSeqHolds ==
    ASSUME NEW I, NEW seqs \in Seq(Seq(I))
    PROVE  ToSet(FlattenSeq(seqs)) = UNION {ToSet(seqs[i]) : i \in 1 .. Len(seqs)}
<1>1. Len(seqs) \in Nat /\ \A i \in 1 .. Len(seqs) : seqs[i] \in Seq(I)
  BY ElementOfSeq, LenProperties
<1>2. CASE Len(seqs) = 0
  <2>1. seqs = << >> /\ FlattenSeq(seqs) = << >>
    BY <1>2, EmptySeq DEF FlattenSeq
  <2> QED
    BY <1>2, <2>1 DEF ToSet
<1>3. CASE Len(seqs) # 0
  <2>1. PICK g : IsFlattening(g, seqs, I)
    BY <1>3, FlattenSeqUnfolds
  <2> DEFINE U(n) == UNION {ToSet(seqs[i]) : i \in 1 .. n}
             N == Len(seqs) - 1
             P == {n \in Nat : ToSet(g[n + 1]) = U(n + 1)}
  <2>2. N \in Nat /\ N + 1 = Len(seqs)
    BY <1>1, <1>3
  <2>3. 0 \in P
    <3>1. U(0 + 1) = ToSet(seqs[1])
      OBVIOUS
    <3>2. g[0 + 1] = seqs[1]
      BY <2>1 DEF IsFlattening
    <3> HIDE DEF U
    <3> QED
      BY <3>1, <3>2
  <2>4. ASSUME NEW n \in 1 .. N, n - 1 \in P PROVE n \in P
    <3>1. /\ n \in Nat /\ n + 1 \in 1 .. Len(seqs) /\ n \in 1 .. Len(seqs) /\ n + 1 # 1
          /\ (n + 1) - 1 = n /\ (n - 1) + 1 = n
      BY <2>2
    <3>2. g[n + 1] = g[n] \o seqs[n + 1] /\ g[n] \in Seq(I) /\ seqs[n + 1] \in Seq(I)
      BY <1>1, <2>1, <3>1 DEF IsFlattening
    <3>3. ToSet(g[n] \o seqs[n + 1]) = ToSet(g[n]) \cup ToSet(seqs[n + 1])
      BY <3>2, ConcatHolds
    <3>4. U(n + 1) = U(n) \cup ToSet(seqs[n + 1])
      <4>1. 1 .. n + 1 = (1 .. n) \cup {n + 1}
        BY <3>1
      <4> QED
        BY <4>1
    <3>5. ToSet(g[n]) = U(n)
      BY <2>4, <3>1
    <3> HIDE DEF U
    <3> QED
      BY <3>1, <3>2, <3>3, <3>4, <3>5
  <2>5. N \in P
    <3>1. N \in 0 .. N
      BY <2>2
    <3> HIDE DEF P
    <3>2. \A n \in 1 .. N : n - 1 \in P => n \in P
      BY <2>4
    <3>3. \A n \in 0 .. N : n \in P
      BY <2>2, <2>3, <3>2, UpToN
    <3> QED
      BY <3>1, <3>3
  <2>6. FlattenSeq(seqs) = g[N + 1]
    BY <2>1, <2>2 DEF IsFlattening
  <2> QED
    BY <2>2, <2>5, <2>6
<1> QED
  BY <1>2, <1>3

LEMMA ReverseType ==
    ASSUME NEW I, NEW s \in Seq(I)
    PROVE  Reverse(s) \in Seq(I)
<1>1. Len(s) \in Nat /\ \A i \in 1 .. Len(s) : s[i] \in I
  BY ElementOfSeq, LenProperties
<1>2. \A i \in 1 .. Len(s) : (Len(s) - i) + 1 \in 1 .. Len(s)
  BY <1>1
<1>3. Reverse(s) \in [1 .. Len(s) -> I]
  BY <1>1, <1>2 DEF Reverse
<1> QED
  BY <1>1, <1>3, SeqDef

(* What a union made of an id has from it.                                 *)
Opened(a, id) ==
    LET type == Get(a, id) IN IF type.kind = "union" THEN ToSet(type.members) ELSE {id}

OpenedOf(a, ids) == UNION {Opened(a, id) : id \in ids}

LEMMA OpenedFacts ==
    ASSUME NEW a, IsTyped(a), NEW id \in Ids(a)
    PROVE  /\ Opened(a, id) \subseteq Ids(a) /\ Opened(a, id) # {}
           /\ \A m \in Opened(a, id) : Get(a, m).kind # "union"
<1>1. WellFormed(a) /\ FlatIn(a)
  BY DEF IsTyped
<1>2. CASE Get(a, id).kind = "union"
  <2>1. PICK members : members = Get(a, id).members
    OBVIOUS
  <2>2. members \in Seq(Ids(a)) /\ ReadFlat(a, members) /\ Opened(a, id) = ToSet(members)
    BY <1>1, <1>2, <2>1, UnionMembers DEF Opened
  <2>3. DOMAIN members = 1 .. Len(members) /\ \A k \in DOMAIN members : members[k] \in Ids(a)
    BY <2>2, MembersAre
  <2>4. 1 \in DOMAIN members
    BY <2>2, <2>3, EmptySeq, MembersAre DEF ReadFlat
  <2> QED
    BY <2>2, <2>3, <2>4 DEF ReadFlat, ToSet
<1>3. CASE Get(a, id).kind # "union"
  BY <1>3 DEF Opened
<1> QED
  BY <1>2, <1>3

(* The members a union is made of are those of what it was written with.   *)
LEMMA FlattenedHolds ==
    ASSUME NEW a, IsTyped(a), NEW members \in Seq(Ids(a))
    PROVE  /\ Flattened(a, members) \in Seq(Ids(a))
           /\ ToSet(Flattened(a, members)) = OpenedOf(a, ToSet(members))
<1> DEFINE opened(id, node) == IF node.kind = "union" THEN node.members ELSE <<id>>
           seqs == [i \in DOMAIN members |-> opened(members[i], Get(a, members[i]))]
<1>1. /\ Len(members) \in Nat /\ DOMAIN members = 1 .. Len(members)
      /\ \A i \in 1 .. Len(members) : members[i] \in Ids(a)
  BY ElementOfSeq, LenProperties
<1>2. ASSUME NEW id \in Ids(a)
      PROVE  /\ opened(id, Get(a, id)) \in Seq(Ids(a))
             /\ ToSet(opened(id, Get(a, id))) = Opened(a, id)
  <2>1. WellFormed(a)
    BY DEF IsTyped
  <2>2. Get(a, id).kind = "union" => Get(a, id).members \in Seq(Ids(a))
    BY <2>1, UnionMembers
  <2> QED
    BY <2>2 DEF Opened, ToSet
<1>3. \A i \in 1 .. Len(members) : /\ seqs[i] \in Seq(Ids(a))
                                   /\ ToSet(seqs[i]) = Opened(a, members[i])
  BY <1>1, <1>2
<1>4. seqs = [i \in 1 .. Len(members) |-> seqs[i]]
  BY <1>1
<1> HIDE DEF seqs, opened
<1>5. seqs \in [1 .. Len(members) -> Seq(Ids(a))]
  BY <1>3, <1>4
<1>6. seqs \in Seq(Seq(Ids(a))) /\ Len(seqs) = Len(members)
  BY <1>1, <1>5, SeqDef, LenProperties
<1>7. Flattened(a, members) = Reverse(FlattenSeq(seqs))
  BY DEF Flattened, seqs, opened
<1>8. FlattenSeq(seqs) \in Seq(Ids(a))
  BY <1>6, FlattenSeqType
<1>9. ToSet(FlattenSeq(seqs)) = OpenedOf(a, ToSet(members))
  <2>1. ToSet(FlattenSeq(seqs)) = UNION {ToSet(seqs[i]) : i \in 1 .. Len(members)}
    BY <1>6, FlattenSeqHolds
  <2>2. {ToSet(seqs[i]) : i \in 1 .. Len(members)} = {Opened(a, id) : id \in ToSet(members)}
    <3> DEFINE held(i) == ToSet(seqs[i])
               opens(id) == Opened(a, id)
    <3>1. \A i \in 1 .. Len(members) : held(i) = opens(members[i])
      BY <1>3
    <3>2. /\ \A i \in 1 .. Len(members) : members[i] \in ToSet(members)
          /\ \A id \in ToSet(members) : \E i \in 1 .. Len(members) : id = members[i]
      BY <1>1 DEF ToSet
    <3> HIDE DEF held, opens
    <3>3. {held(i) : i \in 1 .. Len(members)} = {opens(id) : id \in ToSet(members)}
      BY <3>1, <3>2
    <3> QED
      BY <3>3 DEF held, opens
  <2> QED
    BY <2>1, <2>2 DEF OpenedOf
<1> QED
  BY <1>7, <1>8, <1>9, ReverseType, ReverseHolds

(* The members that are kept, one after the other.                         *)
Fits(a, before, id) ==
    /\ Get(a, id) # PrimitiveNode("never")
    /\ \A i \in DOMAIN before : ~ StructurallyEqual(a, before[i], id)

KeptNext(a, before, id) == IF Fits(a, before, id) THEN Append(before, id) ELSE before

IsKeeping(kept, a, members, I) ==
    /\ kept[0] = << >> /\ Distinct(a, members) = kept[Len(members)]
    /\ \A n \in 0 .. Len(members) : kept[n] \in Seq(I)
    /\ \A n \in 1 .. Len(members) : kept[n] = KeptNext(a, kept[n - 1], members[n])

LEMMA DistinctUnfolds ==
    ASSUME NEW a, NEW I, NEW members \in Seq(I)
    PROVE  \E kept : IsKeeping(kept, a, members, I)
<1> DEFINE step(before, n) == KeptNext(a, before, members[n])
           N == Len(members)
           kept == CHOOSE f : f = [n \in 0 .. N |-> IF n = 0 THEN << >> ELSE step(f[n - 1], n)]
           G == [n \in 1 .. N |-> [x \in Seq(I) |-> step(x, n)]]
<1>1. Distinct(a, members) = kept[N]
  BY DEF Distinct, KeptNext, Fits
<1>2. N \in Nat /\ \A n \in 1 .. N : members[n] \in I
  BY ElementOfSeq, LenProperties
<1>3. ASSUME NEW n \in 1 .. N, NEW x \in Seq(I) PROVE step(x, n) \in Seq(I)
  <2>1. Append(x, members[n]) \in Seq(I)
    BY <1>2, <1>3, AppendProperties
  <2> QED
    BY <1>3, <2>1 DEF KeptNext
<1> HIDE DEF step
<1>4. PICK g : IsIteration(g, N, << >>, G) /\ \A n \in 0 .. N : g[n] \in Seq(I)
  <2>1. \A n \in 1 .. N : \A x \in Seq(I) : G[n][x] \in Seq(I)
    BY <1>3
  <2>2. << >> \in Seq(I)
    BY EmptySeq
  <2> HIDE DEF G, N
  <2> QED
    BY <1>2, <2>1, <2>2, SequencesIterated
<1>5. \A n \in 0 .. N : g[n] = IF n = 0 THEN << >> ELSE step(g[n - 1], n)
  <2> SUFFICES ASSUME NEW n \in 0 .. N, n # 0 PROVE g[n] = step(g[n - 1], n)
    BY <1>4 DEF IsIteration
  <2>1. n \in 1 .. N /\ n - 1 \in 0 .. N
    BY <1>2
  <2>2. g[n] = G[n][g[n - 1]] /\ g[n - 1] \in Seq(I)
    BY <1>4, <2>1 DEF IsIteration
  <2> QED
    BY <2>1, <2>2
<1>6. g = [n \in 0 .. N |-> IF n = 0 THEN << >> ELSE step(g[n - 1], n)]
  BY <1>4, <1>5 DEF IsIteration
<1>7. kept = [n \in 0 .. N |-> IF n = 0 THEN << >> ELSE step(kept[n - 1], n)]
  BY <1>6
<1> HIDE DEF kept
<1> DEFINE P == {n \in Nat : kept[n] \in Seq(I)}
<1>8. 0 \in P /\ kept[0] = << >>
  BY <1>2, <1>7, EmptySeq
<1>9. \A n \in 1 .. N : kept[n] = step(kept[n - 1], n)
  <2> SUFFICES ASSUME NEW n \in 1 .. N PROVE kept[n] = step(kept[n - 1], n)
    OBVIOUS
  <2>1. n \in 0 .. N /\ n # 0
    BY <1>2
  <2> QED
    BY <1>7, <2>1
<1>10. ASSUME NEW n \in 1 .. N, n - 1 \in P PROVE n \in P
  BY <1>2, <1>3, <1>9, <1>10
<1>11. \A n \in 0 .. N : kept[n] \in Seq(I)
  <2> HIDE DEF P
  <2>1. \A n \in 1 .. N : n - 1 \in P => n \in P
    BY <1>10
  <2>2. \A n \in 0 .. N : n \in P
    BY <1>2, <1>8, <2>1, UpToN
  <2> QED
    BY <2>2 DEF P
<1> QED
  BY <1>1, <1>8, <1>9, <1>11 DEF IsKeeping, step

(* Only members are kept, and of each but never one that is equal.         *)
LEMMA DistinctHolds ==
    ASSUME NEW a, IsReadable(a), NEW members \in Seq(Ids(a))
    PROVE  /\ Distinct(a, members) \in Seq(Ids(a))
           /\ ToSet(Distinct(a, members)) \subseteq ToSet(members)
           /\ \A id \in ToSet(members) : Get(a, id) # PrimitiveNode("never") =>
                 \E m \in ToSet(Distinct(a, members)) : StructurallyEqual(a, m, id)
<1> DEFINE N == Len(members)
<1>1. PICK kept : IsKeeping(kept, a, members, Ids(a))
  BY DistinctUnfolds
<1>2. N \in Nat /\ DOMAIN members = 1 .. N /\ \A n \in 1 .. N : members[n] \in Ids(a)
  BY MembersAre
<1> HIDE DEF N
<1>3. /\ kept[0] = << >> /\ Distinct(a, members) = kept[N]
      /\ \A n \in 0 .. N : kept[n] \in Seq(Ids(a))
      /\ \A n \in 1 .. N : kept[n] = KeptNext(a, kept[n - 1], members[n])
  BY <1>1 DEF IsKeeping, N
<1> DEFINE Holds(n) ==
              /\ ToSet(kept[n]) \subseteq ToSet(members)
              /\ \A k \in 1 .. n : Get(a, members[k]) # PrimitiveNode("never") =>
                    \E m \in ToSet(kept[n]) : StructurallyEqual(a, m, members[k])
           P == {n \in Nat : Holds(n)}
<1>4. 0 \in P
  <2>1. ToSet(kept[0]) = {}
    BY <1>3 DEF ToSet
  <2> QED
    BY <2>1
<1>5. ASSUME NEW n \in 1 .. N, n - 1 \in P PROVE n \in P
  <2>1. n \in Nat /\ n - 1 \in 0 .. N /\ 1 .. n = (1 .. n - 1) \cup {n} /\ members[n] \in Ids(a)
    BY <1>2
  <2>2. PICK before, id : before = kept[n - 1] /\ id = members[n]
    OBVIOUS
  <2>3. /\ before \in Seq(Ids(a)) /\ kept[n] = KeptNext(a, before, id) /\ id \in Ids(a)
        /\ ToSet(before) \subseteq ToSet(members) /\ id \in ToSet(members)
        /\ \A k \in 1 .. n - 1 : Get(a, members[k]) # PrimitiveNode("never") =>
              \E m \in ToSet(before) : StructurallyEqual(a, m, members[k])
    BY <1>2, <1>3, <1>5, <2>1, <2>2 DEF ToSet
  <2>4. CASE Fits(a, before, id)
    <3>1. kept[n] = Append(before, id)
      BY <2>3, <2>4 DEF KeptNext
    <3>2. ToSet(kept[n]) = ToSet(before) \cup {id}
      BY <2>3, <3>1, AppendHolds
    <3>3. StructurallyEqual(a, id, id)
      BY <2>3, EqualFacts
    <3>4. Holds(n)
      BY <2>1, <2>2, <2>3, <3>2, <3>3
    <3> QED
      BY <2>1, <3>4
  <2>5. CASE ~ Fits(a, before, id)
    <3>1. kept[n] = before
      BY <2>3, <2>5 DEF KeptNext
    <3>2. Get(a, id) # PrimitiveNode("never") => \E m \in ToSet(before) : StructurallyEqual(a, m, id)
      BY <2>5 DEF Fits, ToSet
    <3>3. Holds(n)
      BY <2>1, <2>2, <2>3, <3>1, <3>2
    <3> QED
      BY <2>1, <3>3
  <2> QED
    BY <2>4, <2>5
<1>6. Holds(N)
  <2>1. N \in 0 .. N
    BY <1>2
  <2> HIDE DEF Holds
  <2>2. \A n \in 1 .. N : n - 1 \in P => n \in P
    BY <1>5
  <2> HIDE DEF P
  <2>3. \A n \in 0 .. N : n \in P
    BY <1>2, <1>4, <2>2, UpToN
  <2> QED
    BY <2>1, <2>3 DEF P
<1>7. kept[N] \in Seq(Ids(a))
  BY <1>2, <1>3
<1> QED
  BY <1>2, <1>3, <1>6, <1>7 DEF ToSet

(* The primitives have their own ids.                                      *)
HasPrimitives(a) ==
    \A i \in DOMAIN Primitives : i \in Ids(a) /\ a.types[i] = PrimitiveNode(Primitives[i])

LEMMA NeverReads ==
    ASSUME NEW a, WellFormed(a), HasPrimitives(a)
    PROVE  /\ Never \in Ids(a) /\ Get(a, Never) = PrimitiveNode("never")
           /\ Opened(a, Never) = {Never}
<1>1. Never \in DOMAIN Primitives /\ Primitives[Never] = "never"
  <2>1. 9 \in DOMAIN Primitives /\ Primitives[9] = "never"
    BY DEF Primitives
  <2> QED
    BY <2>1 DEF Never, PrimitiveId
<1>2. Never \in Ids(a) /\ a.types[Never] = PrimitiveNode("never")
  BY <1>1 DEF HasPrimitives
<1>3. a.types[Never].kind = "primitive"
  BY <1>2 DEF PrimitiveNode
<1>4. Get(a, Never) = a.types[Never]
  BY <1>2, <1>3, ReadsTypes
<1> QED
  BY <1>2, <1>3, <1>4 DEF Opened

(* A union of ids that read as different things, whatever is still to come.*)
Apart(a, v, w) ==
    v = w \/ Get(a, v).kind # Get(a, w).kind \/ Get(a, v).kind = "primitive"

Same(a, v, w) == v = w \/ (Get(a, v).kind = "primitive" /\ Get(a, v) = Get(a, w))

AllApart(a, written) == \A v, w \in written : Apart(a, v, w)

HoldsAll(a, written, held) ==
    /\ \A w \in written : Get(a, w) # PrimitiveNode("never") => \E m \in held : Same(a, w, m)
    /\ \A m \in held : \E w \in written : Same(a, w, m)

Whole(a, ids, id) ==
    AllApart(a, OpenedOf(a, ids)) => HoldsAll(a, OpenedOf(a, ids), Opened(a, id))

(* All of that can be said of later arenas.                                *)
LEMMA OpenedStays ==
    ASSUME NEW a, IsTyped(a), NEW b, WellFormed(b), Ids(a) \subseteq Ids(b),
           \A i \in Ids(a) : b.types[i] = a.types[i]
    PROVE  /\ \A id \in Ids(a) : Opened(b, id) = Opened(a, id)
           /\ \A ids \in SUBSET Ids(a) : OpenedOf(b, ids) = OpenedOf(a, ids)
                                         /\ OpenedOf(a, ids) \subseteq Ids(a)
           /\ \A v, w \in Ids(a) : /\ Apart(b, v, w) => Apart(a, v, w)
                                   /\ Same(a, v, w) => Same(b, v, w)
           /\ \A v \in Ids(a) : Get(a, v) = PrimitiveNode("never")
                                   <=> Get(b, v) = PrimitiveNode("never")
<1>1. WellFormed(a)
  BY DEF IsTyped
<1>2. \A id \in Ids(a) : ReadsAs(a, b, id)
  BY <1>1, ReadsStay
<1>3. \A id \in Ids(a) : Opened(b, id) = Opened(a, id)
  BY <1>2 DEF ReadsAs, Opened
<1>4. ASSUME NEW ids \in SUBSET Ids(a)
      PROVE  OpenedOf(b, ids) = OpenedOf(a, ids) /\ OpenedOf(a, ids) \subseteq Ids(a)
  <2>1. {Opened(b, id) : id \in ids} = {Opened(a, id) : id \in ids}
    BY <1>3
  <2>2. \A id \in ids : Opened(a, id) \subseteq Ids(a)
    BY OpenedFacts
  <2> QED
    BY <2>1, <2>2 DEF OpenedOf
<1>5. \A v, w \in Ids(a) : /\ Apart(b, v, w) => Apart(a, v, w)
                           /\ Same(a, v, w) => Same(b, v, w)
  BY <1>2 DEF ReadsAs, Apart, Same
<1>6. PrimitiveNode("never").kind = "primitive"
  BY DEF PrimitiveNode
<1>7. ASSUME NEW v \in Ids(a)
      PROVE  Get(a, v) = PrimitiveNode("never") <=> Get(b, v) = PrimitiveNode("never")
  BY <1>2, <1>6 DEF ReadsAs
<1> QED
  BY <1>3, <1>4, <1>5, <1>7

LEMMA WholeStays ==
    ASSUME NEW a, IsTyped(a), NEW b, WellFormed(b), Ids(a) \subseteq Ids(b),
           \A i \in Ids(a) : b.types[i] = a.types[i],
           NEW ids \in SUBSET Ids(a), NEW id \in Ids(a), Whole(a, ids, id)
    PROVE  Whole(b, ids, id)
<1>1. PICK written, held : written = OpenedOf(a, ids) /\ held = Opened(a, id)
  OBVIOUS
<1>2. /\ written = OpenedOf(b, ids) /\ held = Opened(b, id)
      /\ written \subseteq Ids(a) /\ held \subseteq Ids(a)
  BY <1>1, OpenedStays, OpenedFacts
<1>3. AllApart(b, written) => AllApart(a, written)
  BY <1>2, OpenedStays DEF AllApart
<1>4. HoldsAll(a, written, held) => HoldsAll(b, written, held)
  BY <1>2, OpenedStays DEF HoldsAll
<1> QED
  BY <1>1, <1>2, <1>3, <1>4 DEF Whole

LEMMA TypedIsReadable ==
    ASSUME NEW a, IsTyped(a)
    PROVE  IsReadable(a)
<1>1. WellFormed(a) /\ IsArena(a) /\ Ids(a) = 1 .. Len(a.types) /\ Len(a.types) \in Nat
  BY DEF IsTyped, WellFormed, IsArenaRecord, IsSeq, Ids
<1>2. IsFiniteSet(Ids(a))
  BY <1>1, FS_Interval
<1>3. \A id \in Ids(a) : Behind(a, id) \in Ids(a)
  BY <1>1, BehindFacts
<1> QED
  BY <1>1, <1>2, <1>3 DEF IsReadable

(* The members that are left.                                              *)
Left(a, members) == Distinct(a, Flattened(a, members))

(* Nothing that is opened is reached by opening it: a union has no union   *)
(* among its members, and there is nothing else to open.                   *)
LEMMA TypedIsGrounded ==
    ASSUME NEW a, IsTyped(a)
    PROVE  IsGrounded(a)
<1>1. Ids(a) \subseteq Nat \ {0} /\ WellFormed(a) /\ FlatIn(a)
  BY DEF IsTyped, WellFormed, IsArenaRecord, IsSeq, Ids
<1>2. ASSUME NEW id \in Ids(a), Wraps(Get(a, id)) PROVE Get(a, id).kind = "union"
  <2>1. \E i \in Ids(a) : Get(a, id) = a.types[i]
    BY <1>1, <1>2, ReadsTypes DEF Wraps
  <2> QED
    BY <1>1, <1>2, <2>1 DEF Wraps, WellFormed, GroundedIn, Foreign
<1>3. ASSUME NEW id \in Ids(a), Wraps(Get(a, id)), NEW part \in PartTypes(Get(a, id))
      PROVE  ~Wraps(Get(a, part))
  <2>1. Get(a, id).kind = "union"
    BY <1>2, <1>3
  <2>2. /\ \A k \in DOMAIN Get(a, id).members : Get(a, id).members[k] \in Ids(a)
        /\ ReadFlat(a, Get(a, id).members)
    BY <1>1, <1>3, <2>1, UnionMembers
  <2>3. part \in Ids(a) /\ Get(a, part).kind # "union"
    BY <1>3, <2>1, <2>2 DEF PartTypes, ReadFlat
  <2> QED
    BY <1>2, <2>3
<1> QED
  BY <1>1, <1>3 DEF IsGrounded

LEMMA LeftHolds ==
    ASSUME NEW a, IsTyped(a), NEW members \in Seq(Ids(a))
    PROVE  /\ Left(a, members) \in Seq(Ids(a))
           /\ ToSet(Left(a, members)) \subseteq OpenedOf(a, ToSet(members))
           /\ \A id \in OpenedOf(a, ToSet(members)) :
                 /\ Get(a, id).kind # "union"
                 /\ Get(a, id) # PrimitiveNode("never") =>
                       \E m \in ToSet(Left(a, members)) : StructurallyEqual(a, m, id)
<1>1. PICK flat : flat = Flattened(a, members)
  OBVIOUS
<1>2. flat \in Seq(Ids(a)) /\ ToSet(flat) = OpenedOf(a, ToSet(members)) /\ IsReadable(a)
  BY <1>1, FlattenedHolds, TypedIsReadable
<1>3. ToSet(members) \subseteq Ids(a)
  BY MembersAre DEF ToSet
<1>4. \A id \in OpenedOf(a, ToSet(members)) : Get(a, id).kind # "union"
  BY <1>3, OpenedFacts DEF OpenedOf
<1>5. Left(a, members) = Distinct(a, flat)
  BY <1>1 DEF Left
<1> QED
  BY <1>2, <1>4, <1>5, DistinctHolds

LEMMA LeftIsWhole ==
    ASSUME NEW a, IsTyped(a), HasPrimitives(a), NEW members \in Seq(Ids(a)), members # << >>,
           NEW b, WellFormed(b), Ids(a) \subseteq Ids(b), \A i \in Ids(a) : b.types[i] = a.types[i],
           NEW id, \/ Opened(b, id) = ToSet(Left(a, members))
                   \/ Left(a, members) = << >> /\ id = Never
    PROVE  Whole(b, ToSet(members), id)
<1>1. PICK ids, written, left : /\ ids = ToSet(members) /\ written = OpenedOf(a, ids)
                                /\ left = ToSet(Left(a, members))
  OBVIOUS
<1>2. /\ DOMAIN members = 1 .. Len(members) /\ Len(members) \in Nat
      /\ \A i \in DOMAIN members : members[i] \in Ids(a)
  BY MembersAre
<1>3. ids \subseteq Ids(a) /\ ids # {}
  <2>1. Len(members) # 0
    BY EmptySeq
  <2> QED
    BY <1>1, <1>2, <2>1 DEF ToSet
<1>4. /\ written = OpenedOf(b, ids) /\ written \subseteq Ids(a) /\ left \subseteq written
      /\ \A w \in written : Get(a, w) # PrimitiveNode("never") =>
            \E m \in left : StructurallyEqual(a, m, w)
  BY <1>1, <1>3, OpenedStays, LeftHolds
<1>5. written # {}
  BY <1>1, <1>3, OpenedFacts DEF OpenedOf
<1>6. ASSUME AllApart(a, written), NEW w \in written, Get(a, w) # PrimitiveNode("never")
      PROVE  \E m \in left : Same(b, w, m)
  <2>1. PICK m \in left : StructurallyEqual(a, m, w)
    BY <1>4, <1>6
  <2>2. m \in Ids(a) /\ w \in Ids(a) /\ Apart(a, m, w)
    BY <1>4, <1>6, <2>1 DEF AllApart
  <2>3. m = w \/ (Get(a, m).kind = Get(a, w).kind
                  /\ (Get(a, m).kind = "primitive" => Get(a, m) = Get(a, w)))
    BY <2>1, <2>2, EqualFacts, TypedIsReadable
  <2>4. Same(a, w, m)
    BY <2>2, <2>3 DEF Apart, Same
  <2> QED
    BY <2>1, <2>2, <2>4, OpenedStays
<1>7. AllApart(b, written) => AllApart(a, written)
  BY <1>4, OpenedStays DEF AllApart
<1>8. \A w \in written : Get(a, w) = PrimitiveNode("never") <=> Get(b, w) = PrimitiveNode("never")
  BY <1>4, OpenedStays
<1>9. CASE Opened(b, id) = left
  <2>1. \A m \in left : m \in written /\ Same(b, m, m)
    BY <1>4 DEF Same
  <2>2. AllApart(a, written) => HoldsAll(b, written, left)
    BY <1>6, <1>8, <2>1 DEF HoldsAll
  <2> QED
    BY <1>1, <1>4, <1>7, <1>9, <2>2 DEF Whole
<1>10. CASE Left(a, members) = << >> /\ id = Never
  <2>1. left = {}
    BY <1>1, <1>10 DEF ToSet
  <2>2. HasPrimitives(b)
    BY DEF HasPrimitives
  <2>3. Get(b, Never) = PrimitiveNode("never") /\ Opened(b, id) = {Never}
    BY <1>10, <2>2, NeverReads
  <2>4. \A w \in written : Get(b, w) = PrimitiveNode("never")
    BY <1>4, <1>8, <2>1
  <2>5. \A w \in written : Same(b, w, Never)
    <3>1. PrimitiveNode("never").kind = "primitive"
      BY DEF PrimitiveNode
    <3> QED
      BY <2>3, <2>4, <3>1 DEF Same
  <2>6. HoldsAll(b, written, Opened(b, id))
    BY <1>5, <2>3, <2>4, <2>5 DEF HoldsAll
  <2> QED
    BY <1>1, <1>4, <2>6 DEF Whole
<1> QED
  BY <1>1, <1>9, <1>10

(* The union of a list of members, which may already be there.             *)
LEMMA AllocUnionGives ==
    ASSUME NEW a, IsTyped(a), HasPrimitives(a), NEW members \in Seq(Ids(a))
    PROVE  /\ Gives(a, AllocUnion(a, members))
           /\ members # << >> =>
                 Whole(AllocUnion(a, members).arena, ToSet(members), AllocUnion(a, members).id)
<1>0. PICK flat, new : flat = Left(a, members) /\ new = AllocUnion(a, members)
  OBVIOUS
<1>1. /\ flat \in Seq(Ids(a)) /\ WellFormed(a)
      /\ \A id \in ToSet(flat) : Get(a, id).kind # "union"
  BY <1>0, LeftHolds DEF IsTyped
<1>2. new = AllocMembers(a, flat)
  BY <1>0 DEF AllocUnion, Left
<1>3. IsArenaRecord(a) /\ Ids(a) = 1 .. Len(a.types)
  BY IdsAre DEF IsTyped, WellFormed
<1>4. ASSUME NEW id \in Ids(a) PROVE Gives(a, [arena |-> a, id |-> id])
  BY <1>3, KeepsItself DEF Gives
<1>5. ASSUME Gives(a, new), Opened(new.arena, new.id) = ToSet(flat) \/ (flat = << >> /\ new.id = Never)
      PROVE  members # << >> => Whole(new.arena, ToSet(members), new.id)
  <2>1. /\ WellFormed(new.arena) /\ Ids(a) \subseteq Ids(new.arena)
        /\ \A i \in Ids(a) : new.arena.types[i] = a.types[i]
    BY <1>3, <1>5 DEF Gives, IsTyped, Keeps
  <2> QED
    BY <1>0, <1>5, <2>1, LeftIsWhole
<1>6. CASE flat = << >>
  <2>1. new = [arena |-> a, id |-> Never] /\ Never \in Ids(a)
    BY <1>1, <1>2, <1>6, NeverReads DEF AllocMembers
  <2> QED
    BY <1>0, <1>4, <1>5, <1>6, <2>1
<1>7. CASE flat # << >> /\ Len(flat) = 1
  <2>1. flat[1] \in Ids(a) /\ ToSet(flat) = {flat[1]}
    <3>1. DOMAIN flat = 1 .. 1 /\ \A i \in DOMAIN flat : flat[i] \in Ids(a)
      BY <1>1, <1>7, MembersAre
    <3> QED
      BY <3>1 DEF ToSet
  <2>2. new = [arena |-> a, id |-> flat[1]]
    BY <1>2, <1>7 DEF AllocMembers
  <2>3. Opened(a, flat[1]) = {flat[1]}
    BY <1>1, <2>1 DEF Opened
  <2> QED
    BY <1>0, <1>4, <1>5, <2>1, <2>2, <2>3
<1>8. CASE flat # << >> /\ Len(flat) # 1
  <2>0. PICK node, digest, unions :
           /\ node = UnionNode(flat) /\ digest = Digest(flat)
           /\ unions = With(a.unions, digest, NewId(a))
    OBVIOUS
  <2>1. new = SharedUnion(a, flat)
    BY <1>2, <1>8 DEF AllocMembers
  <2>2. node \in Node(Ids(a), Slots(a)) /\ node.kind \notin Foreign /\ node.kind \notin Interned
        /\ node.kind = "union" /\ node.members = flat
    BY <1>1, <2>0, NodesAre DEF UnionNode, Interned, Foreign
  <2>2a. ReadFlat(a, flat)
    BY <1>1, <1>8 DEF ReadFlat, ToSet
  <2>3. \A d \in DOMAIN a.unions : a.unions[d] \in Ids(a) \cup {NewId(a)}
    BY TablesFacts
  <2>4. ASSUME Gives(a, new), new.arena.types[new.id] = node
        PROVE  Opened(new.arena, new.id) = ToSet(flat)
    <3>1. WellFormed(new.arena) /\ new.id \in Ids(new.arena)
      BY <2>4 DEF Gives, IsTyped
    <3>2. Get(new.arena, new.id) = node
      BY <2>2, <2>4, <3>1, ReadsTypes
    <3> QED
      BY <2>2, <3>2 DEF Opened
  <2>5. CASE digest \notin DOMAIN a.unions
    <3>1. Push(a, node).arena.unions = a.unions /\ Push(a, node).id = NewId(a)
      <4>1. /\ Push(a, node).arena = Grown(a, node, a.interned, a.unions)
            /\ Push(a, node).id = NewId(a)
        BY <1>3, PushRecord
      <4> QED
        BY <4>1, GrownFields
    <3>2. SharedUnion(a, flat) = [Push(a, node) EXCEPT !.arena.unions =
                                     With(Push(a, node).arena.unions, digest, Push(a, node).id)]
      BY <2>0, <2>5 DEF SharedUnion
    <3>3. SharedUnion(a, flat) = [Push(a, node) EXCEPT !.arena.unions = unions]
      BY <2>0, <3>1, <3>2, Zenon
    <3>4. \A d \in DOMAIN unions : unions[d] \in Ids(a) \cup {NewId(a)}
      BY <2>0, <2>3 DEF With
    <3>5. [Push(a, node) EXCEPT !.arena.unions = unions] =
             [arena |-> Grown(a, node, a.interned, unions), id |-> NewId(a)]
      BY <1>3, PushShared
    <3>6. new = [arena |-> Grown(a, node, a.interned, unions), id |-> NewId(a)]
      BY <2>1, <3>3, <3>5, Zenon
    <3>7. Gives(a, new) /\ new.arena.types[new.id] = node
      BY <2>2, <2>2a, <3>4, <3>6, PushGives
    <3> QED
      BY <1>0, <1>5, <2>4, <3>7
  <2>6. CASE digest \in DOMAIN a.unions /\ a.types[a.unions[digest]] = node
    <3>1. a.unions[digest] \in Ids(a)
      BY <2>6 DEF IsTyped, WellFormed, IsArena
    <3>2. new = [arena |-> a, id |-> a.unions[digest]]
      BY <2>0, <2>1, <2>6 DEF SharedUnion
    <3>3. Gives(a, new) /\ new.arena.types[new.id] = node
      BY <1>4, <2>6, <3>1, <3>2
    <3> QED
      BY <1>0, <1>5, <2>4, <3>3
  <2>7. CASE digest \in DOMAIN a.unions /\ a.types[a.unions[digest]] # node
    <3>1. SharedUnion(a, flat) = Push(a, node)
      BY <2>0, <2>7 DEF SharedUnion
    <3>2. Push(a, node) = [arena |-> Grown(a, node, a.interned, a.unions), id |-> NewId(a)]
      BY <1>3, PushRecord
    <3>3. new = [arena |-> Grown(a, node, a.interned, a.unions), id |-> NewId(a)]
      BY <2>1, <3>1, <3>2, Zenon
    <3>4. Gives(a, new) /\ new.arena.types[new.id] = node
      BY <2>2, <2>2a, <2>3, <3>3, PushGives
    <3> QED
      BY <1>0, <1>5, <2>4, <3>4
  <2> QED
    BY <2>5, <2>6, <2>7
<1> QED
  BY <1>6, <1>7, <1>8

LEMMA AllocNamedGives ==
    ASSUME NEW a, IsTyped(a), NEW inner \in Ids(a)
    PROVE  Gives(a, AllocNamed(a, inner))
<1> DEFINE node == NamedNode(inner)
<1>1. IsArenaRecord(a)
  BY DEF IsTyped, WellFormed
<1>2. CASE IsPrimitive(inner)
  BY <1>1, <1>2, KeepsItself DEF AllocNamed, Gives
<1>3. CASE ~ IsPrimitive(inner)
  <2>1. node \in Node(Ids(a), Slots(a)) /\ node.kind \notin Interned \cup Foreign \cup {"union"}
    BY NodesAre DEF NamedNode, Interned, Foreign
  <2>2. AllocNamed(a, inner) = Push(a, node)
    BY <1>3 DEF AllocNamed
  <2> HIDE DEF node
  <2>3. \A d \in DOMAIN a.unions : a.unions[d] \in Ids(a) \cup {NewId(a)}
    BY TablesFacts
  <2>4. Push(a, node) = [arena |-> Grown(a, node, a.interned, a.unions), id |-> NewId(a)]
    BY <1>1, PushRecord
  <2> QED
    BY <2>1, <2>2, <2>3, <2>4, PushGives
<1> QED
  BY <1>2, <1>3

(* An arena with other declarations: nothing but the bodies depends on     *)
(* them.                                                                   *)
IsDecl(a, decl) ==
    \/ decl \in [state : {"resolving", "failed"}, body : {NoBody}]
    \/ /\ decl \in [state : {"resolved"}, body : Ids(a)]
       /\ a.types[decl.body].kind = "object"

LEMMA DeclsChanged ==
    ASSUME NEW a, IsTyped(a), NEW b, IsArenaRecord(b), b.types = a.types,
           b.interned = a.interned, b.unions = a.unions, Slots(a) \subseteq Slots(b),
           \A slot \in Slots(b) : IsDecl(a, b.decls[slot])
    PROVE  IsTyped(b)
<1>1. Ids(b) = Ids(a)
  BY DEF Ids
<1>2. Node(Ids(a), Slots(a)) \subseteq Node(Ids(b), Slots(b))
  BY <1>1, NodeMono
<1>3. IsArena(b)
  <2>1. \A slot \in Slots(b) :
           \/ b.decls[slot] \in [state : {"resolving", "failed"}, body : {NoBody}]
           \/ b.decls[slot] \in [state : {"resolved"}, body : Ids(b)]
    BY <1>1 DEF IsDecl
  <2> QED
    BY <1>1, <1>2, <2>1 DEF IsTyped, WellFormed, IsArena
<1>4. GroundedIn(b)
  <2>1. \A slot \in Slots(b) :
           b.decls[slot].state = "resolved" => a.types[b.decls[slot].body].kind = "object"
    BY DEF IsDecl
  <2> QED
    BY <1>1, <2>1 DEF IsTyped, WellFormed, GroundedIn
<1>5. InternedIn(b)
  <2>1. \A i : Known(b, i) <=> Known(a, i)
    BY DEF Known, Shared
  <2> QED
    BY <1>1, <2>1 DEF IsTyped, WellFormed, InternedIn
<1>6. FlatIn(b)
  <2>1. WellFormed(a) /\ WellFormed(b) /\ FlatIn(a)
    BY <1>3, <1>4 DEF IsTyped, WellFormed
  <2>2. \A id \in Ids(a) : Get(b, id).kind = Get(a, id).kind
    BY <1>1, <2>1, ReadsStay DEF ReadsAs
  <2>3. \A i \in Ids(a) : a.types[i].kind = "union" => a.types[i].members \in Seq(Ids(a))
    BY <2>1, NodeFields DEF WellFormed, IsArena
  <2> QED
    BY <1>1, <2>1, <2>2, <2>3, MembersAre DEF FlatIn, ReadFlat
<1> QED
  BY <1>3, <1>4, <1>5, <1>6 DEF IsTyped, WellFormed

LEMMA AllocRefTyped ==
    ASSUME NEW a, IsTyped(a)
    PROVE  LET b == AllocRef(a).arena
               slot == Len(a.decls) + 1
           IN  /\ IsTyped(b) /\ Slots(b) = Slots(a) \cup {slot}
               /\ Ids(b) = Ids(a) \cup {AllocRef(a).id}
               /\ b.decls[slot] = [state |-> "resolving", body |-> NoBody]
<1> DEFINE slot == Len(a.decls) + 1
           new == [state |-> "resolving", body |-> NoBody]
           decls == Append(a.decls, new)
           c == [types |-> a.types, decls |-> decls, interned |-> a.interned, unions |-> a.unions]
<1>1. /\ IsSeq(a.decls) /\ IsSeq(a.types) /\ Slots(a) = 1 .. Len(a.decls) /\ Len(a.decls) \in Nat
      /\ a = [types |-> a.types, decls |-> a.decls, interned |-> a.interned, unions |-> a.unions]
  BY DEF IsTyped, WellFormed, IsArenaRecord, IsSeq, Slots
<1>2. /\ IsSeq(decls) /\ Len(decls) = slot /\ decls[slot] = new
      /\ \A i \in 1 .. Len(a.decls) : decls[i] = a.decls[i]
  BY <1>1, Appended
<1> HIDE DEF decls
<1>3. c = [a EXCEPT !.decls = decls]
  BY <1>1
<1>4. IsArenaRecord(c) /\ c.decls = decls /\ c.types = a.types
  BY <1>1, <1>2 DEF IsArenaRecord
<1>5. Slots(c) = Slots(a) \cup {slot} /\ DOMAIN decls = 1 .. slot
  BY <1>1, <1>2 DEF Slots, IsSeq
<1>6. IsTyped(c)
  <2>1. ASSUME NEW s \in Slots(c) PROVE IsDecl(a, c.decls[s])
    <3>1. CASE s = slot
      BY <1>2, <3>1 DEF IsDecl
    <3>2. CASE s \in Slots(a)
      BY <1>1, <1>2, <1>4, <3>2 DEF IsTyped, WellFormed, IsArena, GroundedIn, IsDecl
    <3> QED
      BY <1>5, <3>1, <3>2
  <2>2. c.interned = a.interned /\ c.unions = a.unions
    OBVIOUS
  <2> HIDE DEF c
  <2> QED
    BY <1>4, <1>5, <2>1, <2>2, DeclsChanged
<1>7. AllocRef(a) = Push(c, RefNode(slot)) 
  BY <1>3 DEF AllocRef, decls
<1> HIDE DEF c
<1>8. Push(c, RefNode(slot)) =
         [arena |-> Grown(c, RefNode(slot), c.interned, c.unions), id |-> NewId(c)]
  BY <1>4, PushRecord
<1> DEFINE b == Grown(c, RefNode(slot), c.interned, c.unions)
<1>9. RefNode(slot) \in Node(Ids(c), Slots(c))
  BY <1>5, NodesAre
<1>10. RefNode(slot).kind \notin Foreign /\ RefNode(slot).kind \notin Interned /\ RefNode(slot).kind # "union"
  BY DEF RefNode, Interned, Foreign
<1>11. \A d \in DOMAIN c.unions : c.unions[d] \in Ids(c) \cup {NewId(c)}
  BY <1>6, TablesFacts
<1>12. \A d \in DOMAIN c.interned : c.interned[d] \in Seq(Ids(c) \cup {NewId(c)})
  BY <1>6, TablesFacts
<1>13. Gives(c, [arena |-> b, id |-> NewId(c)])
  BY <1>6, <1>9, <1>10, <1>11, PushGives
<1>14. HasOneMore(c, RefNode(slot), b)
  BY <1>6, <1>9, <1>10, <1>11, <1>12, OneMore
<1>15. b.decls = c.decls
  BY GrownFields
<1> HIDE DEF b
<1>16. Ids(c) = Ids(a)
  BY <1>4 DEF Ids
<1>17. AllocRef(a).arena = b /\ AllocRef(a).id = NewId(c)
  BY <1>7, <1>8 DEF b
<1>18. IsTyped(b) /\ Slots(b) = Slots(c) /\ Ids(b) = Ids(c) \cup {NewId(c)}
  BY <1>13, <1>14 DEF Gives, HasOneMore
<1> QED
  BY <1>2, <1>4, <1>5, <1>15, <1>16, <1>17, <1>18

(* The state of a declaration is written: resolve_ref, fail_ref.           *)
LEMMA DeclWritten ==
    ASSUME NEW a, IsTyped(a), NEW slot \in Slots(a),
           NEW value, IsDecl(a, value),
           NEW b, b = [types |-> a.types, decls |-> [a.decls EXCEPT ![slot] = value],
                       interned |-> a.interned, unions |-> a.unions]
    PROVE  IsTyped(b) /\ Ids(b) = Ids(a) /\ Slots(b) = Slots(a)
<1>1. IsArenaRecord(a) /\ Slots(a) = 1 .. Len(a.decls) /\ Len(a.decls) \in Nat
  BY DEF IsTyped, WellFormed, IsArenaRecord, IsSeq, Slots
<1>2. /\ IsArenaRecord(b) /\ b.types = a.types
      /\ Len(b.decls) = Len(a.decls)
      /\ b.decls[slot] = value
      /\ \A i \in 1 .. Len(a.decls) : i # slot => b.decls[i] = a.decls[i]
  <2>1. slot \in 1 .. Len(a.decls)
    BY <1>1
  <2>2. IsArenaRecord(a)
    BY <1>1
  <2> QED
    BY <2>1, <2>2, SlotWritten, SMTT(30)
<1>3. Slots(b) = Slots(a) /\ Ids(b) = Ids(a)
  BY <1>1, <1>2 DEF IsArenaRecord, IsSeq, Slots, Ids
<1>4. ASSUME NEW s \in Slots(b) PROVE IsDecl(a, b.decls[s])
  <2>1. CASE s = slot
    BY <1>2, <2>1
  <2>2. CASE s # slot
    <3>1. b.decls[s] = a.decls[s] /\ s \in Slots(a)
      BY <1>1, <1>2, <1>3, <2>2
    <3> QED
      BY <3>1 DEF IsTyped, WellFormed, IsArena, GroundedIn, IsDecl
  <2> QED
    BY <2>1, <2>2
<1>5. b.interned = a.interned /\ b.unions = a.unions
  OBVIOUS
<1>6. IsTyped(b)
  BY <1>2, <1>3, <1>4, <1>5, DeclsChanged
<1> QED
  BY <1>3, <1>6

-----------------------------------------------------------------------------
(* Types of the state.  Declarations on the stack have not got a type or   *)
(* have no body yet, so nothing that is finished changes.                  *)

Typed == TypeOK /\ IsTyped(arena) /\ HasPrimitives(arena)

Unfinished ==
    \A i \in 1 .. Len(stack) :
       LET n == stack[i].name
       IN  /\ IF SelfReferenceable(n) THEN arena.decls[SlotOf(n)].state = "resolving"
              ELSE entries[n].resolved = NoType
           /\ stack[i].at = 0 => stack[i].parts = << >>

TInv == Typed /\ Unfinished

(* A step that changes what is known of no declaration but n.              *)
Touches(n) ==
    /\ UNCHANGED program
    /\ IsTyped(arena') /\ Ids(arena) \subseteq Ids(arena') /\ Slots(arena) \subseteq Slots(arena')
    /\ \A i \in Ids(arena) : arena'.types[i] = arena.types[i]
    /\ \A m \in DOMAIN program : m # n => entries'[m] = entries[m]
    /\ \A slot \in Slots(arena) :
          \/ arena'.decls[slot] = arena.decls[slot]
          \/ HasReference(n) /\ slot = SlotOf(n)

Finished(n) == HasReference(n) /\ arena.decls[SlotOf(n)].state = "resolved"

Bodied(n) == arena.types[arena.decls[SlotOf(n)].body]

LEMMA OthersStay ==
    ASSUME IInv, TInv, NEW n, Touches(n), NEW m \in DOMAIN program, m # n
    PROVE  /\ IsResolved(m)' <=> IsResolved(m)
           /\ entries'[m] = entries[m]
           /\ HasReference(m)' <=> HasReference(m)
           /\ HasReference(m) => /\ SlotOf(m)' = SlotOf(m)
                                 /\ arena'.decls[SlotOf(m)'] = arena.decls[SlotOf(m)]
           /\ Finished(m)' <=> Finished(m)
           /\ Finished(m) => Bodied(m)' = Bodied(m)
<1>1. program' = program /\ entries'[m] = entries[m]
  BY DEF Touches
<1>2. IsResolved(m)' <=> IsResolved(m)
  BY <1>1 DEF IsResolved, Declared
<1>3. SelfReferenceable(m)' <=> SelfReferenceable(m)
  BY <1>1 DEF SelfReferenceable
<1>4. HasReference(m)' <=> HasReference(m)
  BY <1>2, <1>3 DEF HasReference
<1>5. Ids(arena) = 1 .. Len(arena.types) /\ Slots(arena) = 1 .. Len(arena.decls)
  BY IdsAre DEF IInv, Shapes
<1>6. ASSUME HasReference(m)
      PROVE  /\ SlotOf(m)' = SlotOf(m) /\ SlotOf(m) \in Slots(arena)
             /\ arena'.decls[SlotOf(m)'] = arena.decls[SlotOf(m)]
  <2>1. entries[m].resolved \in Ids(arena) /\ SlotOf(m) \in Slots(arena)
    BY <1>5, <1>6 DEF IInv, OwnReferences
  <2>2. arena'.types[entries[m].resolved] = arena.types[entries[m].resolved]
    BY <2>1 DEF Touches
  <2>3. SlotOf(m)' = SlotOf(m)
    BY <1>1, <2>2 DEF SlotOf
  <2>4. ~ (HasReference(n) /\ SlotOf(m) = SlotOf(n))
    <3>1. HasReference(n) => n \in DOMAIN program
      BY DEF HasReference, IsResolved, Declared
    <3> QED
      BY <1>6, <3>1 DEF IInv, OwnReferences
  <2>5. arena'.decls[SlotOf(m)] = arena.decls[SlotOf(m)]
    BY <2>1, <2>4 DEF Touches
  <2> QED
    BY <2>1, <2>3, <2>5
<1>7. Finished(m)' <=> Finished(m)
  BY <1>4, <1>6 DEF Finished
<1>8. ASSUME Finished(m) PROVE Bodied(m)' = Bodied(m)
  <2>1. /\ HasReference(m) /\ SlotOf(m) \in Slots(arena)
        /\ arena.decls[SlotOf(m)].state = "resolved"
    BY <1>6, <1>8 DEF Finished
  <2>2. arena.decls[SlotOf(m)].body \in Ids(arena)
    BY <2>1 DEF TInv, Typed, IsTyped, WellFormed, IsArena
  <2>3. arena'.types[arena.decls[SlotOf(m)].body] = arena.types[arena.decls[SlotOf(m)].body]
    BY <2>2 DEF Touches
  <2> QED
    BY <1>6, <2>1, <2>3 DEF Bodied
<1> QED
  BY <1>1, <1>2, <1>4, <1>6, <1>7, <1>8

(* NoName is no declaration.                                               *)
LEMMA NoNameFacts ==
    ASSUME TInv
    PROVE  /\ DOMAIN program \subseteq Names /\ NoName \notin DOMAIN program
           /\ ~ HasReference(NoName)
<1>1. DOMAIN program \subseteq Names
  BY ProgramsAssumption DEF TInv, Typed, TypeOK, IsProgram
<1> QED
  BY <1>1, NamesAssumption DEF HasReference, IsResolved, Declared

LEMMA GivesTouches ==
    ASSUME IInv, TInv, NEW new, Gives(arena, new), arena' = new.arena,
           UNCHANGED <<program, entries>>
    PROVE  Touches(NoName) /\ new.id \in Ids(arena')
<1>1. Ids(arena) = 1 .. Len(arena.types)
  BY IdsAre DEF IInv, Shapes
<1> QED
  BY <1>1 DEF Gives, Keeps, Touches

LEMMA TypedParts ==
    ASSUME TInv
    PROVE  /\ program \in Programs /\ IsTyped(arena) /\ HasPrimitives(arena)
           /\ WellFormed(arena) /\ DOMAIN Primitives \subseteq Ids(arena)
           /\ entries \in [DOMAIN program -> [resolved : Ids(arena) \cup {NoType}, resolving : BOOLEAN]]
           /\ \A n \in DOMAIN program : entries[n].resolved \in Ids(arena) \cup {NoType}
           /\ \A n : IsResolved(n) => entries[n].resolved \in Ids(arena)
           /\ stack \in Seq(Frames(Ids(arena))) /\ failing \in BOOLEAN /\ requests \in Seq(Names)
           /\ stack # << >> =>
                 /\ Top \in Frames(Ids(arena)) /\ Tail(stack) \in Seq(Frames(Ids(arena)))
                 /\ IsFrame(Top) /\ Top.name \in Names /\ Top.at \in Nat
                 /\ Top.parts \in Seq(Ids(arena)) /\ Top.properties \in Properties(Ids(arena))
                 /\ Top.ref \in Ids(arena) \cup {NoType}
<1>1. /\ program \in Programs /\ IsTyped(arena) /\ HasPrimitives(arena)
      /\ WellFormed(arena) /\ DOMAIN Primitives \subseteq Ids(arena)
      /\ entries \in [DOMAIN program -> [resolved : Ids(arena) \cup {NoType}, resolving : BOOLEAN]]
      /\ stack \in Seq(Frames(Ids(arena))) /\ failing \in BOOLEAN /\ requests \in Seq(Names)
  <2>1. TypeOK /\ IsTyped(arena) /\ HasPrimitives(arena)
    BY DEF TInv, Typed
  <2>2. WellFormed(arena) /\ DOMAIN Primitives \subseteq Ids(arena)
    BY <2>1 DEF IsTyped, HasPrimitives
  <2> QED
    BY <2>1, <2>2 DEF TypeOK
<1>2. \A n \in DOMAIN program : entries[n].resolved \in Ids(arena) \cup {NoType}
  BY <1>1
<1>3. \A n : IsResolved(n) => entries[n].resolved \in Ids(arena)
  BY <1>2 DEF IsResolved, Declared
<1>4. ASSUME stack # << >>
      PROVE  Top \in Frames(Ids(arena)) /\ Tail(stack) \in Seq(Frames(Ids(arena)))
  BY <1>1, <1>4, HeadTailProperties DEF Top
<1>5. ASSUME Top \in Frames(Ids(arena))
      PROVE  /\ IsFrame(Top) /\ Top.name \in Names /\ Top.at \in Nat
             /\ Top.parts \in Seq(Ids(arena)) /\ Top.properties \in Properties(Ids(arena))
             /\ Top.ref \in Ids(arena) \cup {NoType}
  <2> PICK top : top = Top
    OBVIOUS
  <2> QED
    BY <1>5 DEF Frames, IsFrame
<1> QED
  BY <1>1, <1>2, <1>3, <1>4, <1>5

LEMMA FramesMono ==
    ASSUME NEW I, NEW J, I \subseteq J
    PROVE  Frames(I) \subseteq Frames(J) /\ Seq(Frames(I)) \subseteq Seq(Frames(J))
<1>1. Properties(I) \subseteq Properties(J) /\ Seq(I) \subseteq Seq(J)
  BY PropertiesMono, SeqMono
<1>2. Frames(I) \subseteq Frames(J)
  BY <1>1 DEF Frames
<1> QED
  BY <1>2, SeqMono

(* The members of a declaration.                                           *)
LEMMA MemberFacts ==
    ASSUME program \in Programs, NEW n \in DOMAIN program,
           NEW i \in DOMAIN program[n].members
    PROVE  LET member == program[n].members[i]
           IN  /\ i \in 1 .. Len(program[n].members) /\ i # 0
               /\ member.optional \in BOOLEAN /\ member.of \in Seq(Atoms)
               /\ SelfReferenceable(n) => member.name \in Property
<1>1. IsProgram(program)
  BY ProgramsAssumption
<1>2. program[n] \in Decls /\ (program[n].members[i].name = NoName <=> program[n].kind = "alias")
  BY <1>1 DEF IsProgram
<1>3. program[n].members \in Seq(Members)
  BY <1>2 DEF Decls
<1>4. i \in 1 .. Len(program[n].members) /\ program[n].members[i] \in Members
  BY <1>3, ElementOfSeq, LenProperties
<1> QED
  BY <1>2, <1>4 DEF Members, SelfReferenceable

(* What a part of an annotation is given: the declaration's own id, or an  *)
(* array of it, or that of the primitive.                                  *)
PartOf(part, id) ==
    /\ Declared(part.to) =>
          /\ IsResolved(part.to)
          /\ IF part.array THEN id \in Ids(arena) /\ arena.types[id] = ArrayNode(entries[part.to].resolved)
             ELSE id = entries[part.to].resolved
    /\ ~ Declared(part.to) /\ ~ part.array =>
          part.to \in PrimitiveNames /\ id = PrimitiveId(part.to)

(* A step that only replaces the innermost frame.                          *)
Replaces(f) ==
    /\ Touches(NoName) /\ UNCHANGED <<entries, requests>> /\ failing' \in BOOLEAN
    /\ stack # << >> /\ stack' = WithTop(f)
    /\ f \in Frames(Ids(arena')) /\ f.name = Top.name /\ f.at # 0

Nothing(id) == [arena |-> arena, id |-> id]

LEMMA NothingGives ==
    ASSUME TInv, NEW id \in Ids(arena)
    PROVE  Gives(arena, Nothing(id))
BY KeepsItself DEF TInv, Typed, IsTyped, WellFormed, Gives, Nothing

LEMMA InheritEffect ==
    ASSUME IInv, TInv, Inherit
    PROVE  \E f : /\ Replaces(f) /\ f.at = 1 /\ f.parts = Top.parts
                  /\ IsResolved(TopDecl.extends)
                        /\ Get(arena, entries[TopDecl.extends].resolved).kind = "object" =>
                     f.properties = Get(arena, entries[TopDecl.extends].resolved).properties
<1>1. /\ stack # << >> /\ UNCHANGED <<program, arena, entries, failing, requests>>
  BY DEF Inherit, Running
<1> DEFINE parent == IF IsResolved(TopDecl.extends)
                     THEN Get(arena, entries[TopDecl.extends].resolved) ELSE EmptyObject
           properties == IF parent.kind = "object" THEN parent.properties ELSE Top.properties
<1>2. stack' = WithTop([Top EXCEPT !.at = 1, !.properties = properties])
  BY DEF Inherit
<1>3. properties \in Properties(Ids(arena))
  <2>1. parent.kind = "object" => parent.properties \in Properties(Ids(arena))
    <3>1. CASE IsResolved(TopDecl.extends)
      <4>1. parent \in Node(Ids(arena), Slots(arena))
        BY <3>1, TypedParts, GetFacts
      <4> QED
        BY <4>1, NodeFields
    <3>2. CASE ~ IsResolved(TopDecl.extends)
      BY <3>2, NoPropertiesAre DEF EmptyObject, ObjectNode
    <3> QED
      BY <3>1, <3>2
  <2> QED
    BY <1>1, <2>1, TypedParts
<1>4. Touches(NoName)
  BY <1>1 DEF Touches, TInv, Typed
<1> HIDE DEF properties
<1>5. PICK top : top = Top
  OBVIOUS
<1>5a. PICK f : f = [top EXCEPT !.at = 1, !.properties = properties]
  OBVIOUS
<1>6. IsFrame(top) /\ top \in Frames(Ids(arena))
  BY <1>1, <1>5, TypedParts
<1>7. /\ f.at = 1 /\ f.parts = top.parts /\ f.name = top.name /\ f.ref = top.ref
      /\ f.properties = properties
      /\ f = [name |-> top.name, ref |-> top.ref, at |-> 1, parts |-> top.parts,
              properties |-> properties]
  BY <1>5a, <1>6 DEF IsFrame
<1>8. f \in Frames(Ids(arena))
  BY <1>3, <1>6, <1>7 DEF Frames
<1>9. Replaces(f)
  <2>1. stack' = WithTop(f)
    BY <1>2, <1>5, <1>5a, Zenon
  <2>2. f.name = Top.name /\ f.at # 0
    BY <1>5, <1>7
  <2>3. f \in Frames(Ids(arena'))
    BY <1>1, <1>8
  <2>4. failing' \in BOOLEAN
    BY <1>1, TypedParts
  <2>5. UNCHANGED <<entries, requests>> /\ stack # << >>
    BY <1>1
  <2> QED
    BY <1>4, <2>1, <2>2, <2>3, <2>4, <2>5 DEF Replaces
<1>10. IsResolved(TopDecl.extends)
          /\ Get(arena, entries[TopDecl.extends].resolved).kind = "object" =>
       f.properties = Get(arena, entries[TopDecl.extends].resolved).properties
  BY <1>7 DEF properties
<1> QED
  BY <1>5, <1>7, <1>9, <1>10

LEMMA PassOverEffect ==
    ASSUME IInv, TInv, PassOver
    PROVE  \E f : /\ Replaces(f) /\ f.at = 1 /\ f.parts = Top.parts
                  /\ f.properties = Top.properties
<1>1. /\ stack # << >> /\ UNCHANGED <<program, arena, entries, requests>> /\ failing' = FALSE
      /\ stack' = WithTop([Top EXCEPT !.at = 1])
  BY DEF PassOver
<1>2. Touches(NoName)
  BY <1>1 DEF Touches, TInv, Typed
<1>3. PICK top, f : top = Top /\ f = [top EXCEPT !.at = 1]
  OBVIOUS
<1>4. IsFrame(top) /\ top \in Frames(Ids(arena))
  BY <1>1, <1>3, TypedParts
<1>5. /\ f.at = 1 /\ f.parts = top.parts /\ f.name = top.name /\ f.properties = top.properties
      /\ f = [name |-> top.name, ref |-> top.ref, at |-> 1, parts |-> top.parts,
              properties |-> top.properties]
  BY <1>3, <1>4 DEF IsFrame
<1>6. f \in Frames(Ids(arena))
  BY <1>4, <1>5 DEF Frames
<1>7. Replaces(f)
  <2>1. stack' = WithTop(f)
    BY <1>1, <1>3, Zenon
  <2>2. f.name = Top.name /\ f.at # 0 /\ f \in Frames(Ids(arena'))
    BY <1>1, <1>3, <1>5, <1>6
  <2> QED
    BY <1>1, <1>2, <2>1, <2>2 DEF Replaces
<1> QED
  BY <1>3, <1>5, <1>7

LEMMA AnswerEffect ==
    ASSUME IInv, TInv, AnswerPart
    PROVE  \E f, id, part :
              /\ Replaces(f) /\ f.at = Top.at /\ f.parts = Append(Top.parts, id)
              /\ f.properties = Top.properties
              /\ id \in Ids(arena') /\ part = Part /\ PartOf(part, id)'
<1>1. /\ stack # << >> /\ UNCHANGED <<program, entries, failing, requests>> /\ AtPart
      /\ IsResolved(Part.to) \/ Part.to \in PrimitiveNames
  BY DEF AnswerPart, Running
<1>2. /\ Top.name \in DOMAIN program /\ IsArenaRecord(arena)
      /\ (stack # << >> => Top = stack[1])
  BY <1>1, TopIsFrame DEF IInv, Shapes
<1> DEFINE of == IF IsResolved(Part.to) THEN entries[Part.to].resolved ELSE PrimitiveId(Part.to)
           new == IF Part.array THEN Alloc(arena, ArrayNode(of)) ELSE Nothing(of)
<1>3. of \in Ids(arena)
  <2>1. CASE IsResolved(Part.to)
    BY <2>1, TypedParts
  <2>2. CASE ~ IsResolved(Part.to)
    <3>1. Part.to \in PrimitiveNames
      BY <1>1, <2>2
    <3>2. PrimitiveId(Part.to) \in DOMAIN Primitives
      BY <3>1 DEF PrimitiveNames, PrimitiveId
    <3> QED
      BY <2>2, <3>2, TypedParts
  <2> QED
    BY <2>1, <2>2
<1>4. arena' = new.arena /\ stack' = WithTop([Top EXCEPT !.parts = Append(Top.parts, new.id)])
  BY DEF AnswerPart, Nothing
<1> HIDE DEF of
<1>5. Gives(arena, new) /\ (Part.array => new.arena.types[new.id] = ArrayNode(of))
      /\ (~ Part.array => new.id = of)
  <2>1. CASE Part.array
    <3>1. ArrayNode(of) \in Node(Ids(arena), Slots(arena)) /\ ArrayNode(of).kind \in Interned
      BY <1>3, NodesAre DEF ArrayNode, Interned
    <3>2. IsTyped(arena)
      BY TypedParts
    <3> QED
      BY <2>1, <3>1, <3>2, AllocGives
  <2>2. CASE ~ Part.array
    BY <1>3, <2>2, NothingGives DEF Nothing
  <2> QED
    BY <2>1, <2>2
<1> HIDE DEF new
<1>6. Touches(NoName) /\ new.id \in Ids(arena') 
  BY <1>1, <1>4, <1>5, GivesTouches
<1>7. PICK top, part, id, f : /\ top = Top /\ part = Part /\ id = new.id 
                              /\ f = [top EXCEPT !.parts = Append(top.parts, id)]
  OBVIOUS
<1>8. IsFrame(top) /\ top \in Frames(Ids(arena)) /\ top.parts \in Seq(Ids(arena))
  BY <1>1, <1>7, TypedParts
<1>9. /\ f.at = top.at /\ f.parts = Append(top.parts, id) /\ f.name = top.name
      /\ f.properties = top.properties
      /\ f = [name |-> top.name, ref |-> top.ref, at |-> top.at, parts |-> Append(top.parts, id),
              properties |-> top.properties]
  BY <1>7, <1>8 DEF IsFrame
<1>10. f \in Frames(Ids(arena'))
  <2>1. Ids(arena) \subseteq Ids(arena')
    BY <1>6 DEF Touches
  <2>2. top \in Frames(Ids(arena'))
    BY <1>8, <2>1, FramesMono
  <2>3. Append(top.parts, id) \in Seq(Ids(arena'))
    BY <1>6, <1>7, <1>8, <2>1, SeqMono, AppendProperties
  <2> QED
    BY <1>9, <2>2, <2>3 DEF Frames
<1>11. Top.at # 0
  <2>1. Top.at \in DOMAIN program[Top.name].members
    BY <1>1 DEF AtPart, AtMember, TopDecl
  <2> QED
    BY <1>2, <2>1, TypedParts, MemberFacts
<1>12. Replaces(f)
  BY <1>1, <1>4, <1>6, <1>7, <1>9, <1>10, <1>11, TypedParts DEF Replaces
<1>13. PartOf(part, id)'
  <2>0. ASSUME ~ Declared(part.to)', ~ part.array
        PROVE  part.to \in PrimitiveNames /\ id = PrimitiveId(part.to)
    <3>1. ~ IsResolved(part.to)
      BY <1>1, <2>0 DEF Declared, IsResolved
    <3> QED
      BY <1>1, <1>5, <1>7, <2>0, <3>1 DEF of
  <2> SUFFICES ASSUME Declared(part.to)'
               PROVE  /\ IsResolved(part.to)'
                      /\ IF part.array
                         THEN /\ id \in Ids(arena')
                              /\ arena'.types[id] = ArrayNode(entries'[part.to].resolved)
                         ELSE id = entries'[part.to].resolved
    BY <2>0 DEF PartOf
  <2>1. part.to \in DOMAIN program
    BY <1>1 DEF Declared
  <2>2. part.to \notin PrimitiveNames
    BY <2>1, TypedParts, ProgramFacts
  <2>3. IsResolved(part.to) /\ IsResolved(part.to)'
    BY <1>1, <1>7, <2>2 DEF IsResolved, Declared
  <2>4. of = entries'[part.to].resolved
    BY <1>1, <1>7, <2>3 DEF of
  <2> QED
    BY <1>4, <1>5, <1>6, <1>7, <2>3, <2>4
<1> QED
  BY <1>6, <1>7, <1>9, <1>12, <1>13

(* The type of a member, or of an alias.                                   *)
LEMMA AnnotatedGives ==
    ASSUME IInv, TInv, stack # << >>, AtEndOfMember
    PROVE  /\ Gives(arena, Annotated)
           /\ Len(Member.of) = 1 => /\ Annotated.id = Top.parts[1]
                                    /\ Top.parts # << >>
           /\ Len(Member.of) > 1 => Whole(Annotated.arena, ToSet(Top.parts), Annotated.id)
<1>1. Top.parts \in Seq(Ids(arena)) /\ IsTyped(arena) /\ HasPrimitives(arena)
  BY TypedParts
<1>2. CASE Len(Member.of) = 1
  <2>1. ~ Len(Top.parts) < 1
    BY <1>2 DEF AtEndOfMember, AtPart
  <2>2. Top.parts # << >> /\ Top.parts[1] \in Ids(arena) /\ Head(Top.parts) = Top.parts[1]
    BY <1>1, <2>1, LenProperties, ElementOfSeq
  <2>3. Annotated = Nothing(Top.parts[1])
    BY <1>2, <2>2 DEF Annotated, Nothing
  <2>4. ~ Len(Member.of) > 1
    BY <1>2
  <2> QED
    BY <2>2, <2>3, <2>4, NothingGives DEF Nothing
<1>3. CASE Len(Member.of) # 1
  <2>1. Annotated = AllocUnion(arena, Top.parts)
    BY <1>3 DEF Annotated
  <2>2. Len(Member.of) > 1 => Top.parts # << >>
    <3>1. ~ Len(Top.parts) < Len(Member.of)
      BY DEF AtEndOfMember, AtPart
    <3>2. Top.at \in DOMAIN program[Top.name].members /\ Top.name \in DOMAIN program
      BY TopIsFrame DEF AtEndOfMember, AtMember, TopDecl, IInv, Shapes
    <3>3. Len(Member.of) \in Nat
      BY <3>2, TypedParts, MemberFacts, LenProperties DEF Member, TopDecl
    <3> QED
      BY <3>1, <3>3, EmptySeq
  <2> QED
    BY <1>1, <1>3, <2>1, <2>2, AllocUnionGives
<1> QED
  BY <1>2, <1>3

LEMMA CloseEffect ==
    ASSUME IInv, TInv, CloseMember
    PROVE  \E f, id, value :
              /\ Replaces(f) /\ f.at = Top.at + 1 /\ f.parts = << >>
              /\ value.type = id
              /\ f.properties = With(Top.properties, Member.name, value)
              /\ id \in Ids(arena')
              /\ Len(Member.of) = 1 => id = Top.parts[1] /\ Top.parts # << >>
              /\ Len(Member.of) > 1 => Whole(arena', ToSet(Top.parts), id)
<1>1. /\ stack # << >> /\ UNCHANGED <<program, entries, failing, requests>> /\ AtEndOfMember
      /\ SelfReferenceable(Top.name)
  BY DEF CloseMember, Running
<1>2. Top.name \in DOMAIN program
  BY <1>1, TopIsFrame DEF IInv, Shapes
<1>3. PICK top, new, id, value, properties, at :
         /\ top = Top /\ new = Annotated /\ id = new.id
         /\ value = [type |-> id, optional |-> Member.optional, method |-> FALSE]
         /\ properties = With(top.properties, Member.name, value)
         /\ at = top.at + 1
  OBVIOUS
<1>4. PICK f : f = [top EXCEPT !.at = at, !.parts = << >>, !.properties = properties]
  OBVIOUS
<1>5. arena' = new.arena /\ stack' = WithTop(f)
  BY <1>3, <1>4 DEF CloseMember
<1>6. /\ Gives(arena, new)
      /\ Len(Member.of) = 1 => id = Top.parts[1] /\ Top.parts # << >>
      /\ Len(Member.of) > 1 => Whole(arena', ToSet(Top.parts), id)
  BY <1>1, <1>3, <1>5, AnnotatedGives
<1>7. Touches(NoName) /\ id \in Ids(arena')
  BY <1>1, <1>3, <1>5, <1>6, GivesTouches
<1>8. /\ IsFrame(top) /\ top \in Frames(Ids(arena)) /\ top.at \in Nat
      /\ top.properties \in Properties(Ids(arena)) /\ top.name = Top.name
  BY <1>1, <1>3, TypedParts
<1>9. /\ f.at = at /\ f.parts = << >> /\ f.name = top.name
      /\ f.properties = properties
      /\ f = [name |-> top.name, ref |-> top.ref, at |-> at, parts |-> << >>,
              properties |-> properties]
  BY <1>4, <1>8 DEF IsFrame
<1>10. Ids(arena) \subseteq Ids(arena')
  BY <1>7 DEF Touches
<1>11. properties \in Properties(Ids(arena'))
  <2>1. Member.name \in Property /\ Member.optional \in BOOLEAN
    <3>1. Top.at \in DOMAIN program[Top.name].members
      BY <1>1 DEF AtEndOfMember, AtMember, TopDecl
    <3>2. program \in Programs
      BY TypedParts
    <3> QED
      BY <1>1, <1>2, <3>1, <3>2, MemberFacts DEF Member, TopDecl
  <2>2. PICK name : name = Member.name
    OBVIOUS
  <2>3. value \in [type : Ids(arena'), optional : BOOLEAN, method : BOOLEAN]
    BY <1>3, <1>7, <2>1
  <2>4. top.properties \in Properties(Ids(arena'))
    BY <1>8, <1>10, PropertiesMono
  <2>5. PICK names \in SUBSET Property :
           top.properties \in [names -> [type : Ids(arena'), optional : BOOLEAN, method : BOOLEAN]]
    BY <2>4 DEF Properties
  <2>6. properties = With(top.properties, name, value) /\ name \in Property
    BY <1>3, <2>1, <2>2
  <2>7. properties \in [names \cup {name} -> [type : Ids(arena'), optional : BOOLEAN, method : BOOLEAN]]
    BY <2>3, <2>5, <2>6 DEF With
  <2> QED
    BY <2>6, <2>7 DEF Properties
<1>12. f \in Frames(Ids(arena'))
  <2>1. top \in Frames(Ids(arena'))
    BY <1>8, <1>10, FramesMono
  <2>2. at \in Nat
    BY <1>3, <1>8
  <2>3. << >> \in Seq(Ids(arena'))
    BY EmptySeq
  <2> QED
    BY <1>9, <1>11, <2>1, <2>2, <2>3 DEF Frames
<1>13. Replaces(f)
  <2>1. f.name = Top.name /\ f.at # 0
    BY <1>3, <1>8, <1>9
  <2>2. failing' \in BOOLEAN
    BY <1>1, TypedParts
  <2> QED
    BY <1>1, <1>5, <1>7, <1>12, <2>1, <2>2 DEF Replaces
<1>14. f.at = Top.at + 1 /\ value.type = id /\ f.properties = With(Top.properties, Member.name, value)
  BY <1>3, <1>9
<1> QED
  BY <1>6, <1>7, <1>9, <1>13, <1>14

(* What is known of each declaration is what it was, or n's new type.      *)
EntryType(ids) == [resolved : ids \cup {NoType}, resolving : BOOLEAN]

LEMMA EntriesTyped ==
    ASSUME IInv, TInv, NEW n, Touches(n),
           entries' = [m \in DOMAIN program |-> entries'[m]],
           n \in DOMAIN program => entries'[n] \in EntryType(Ids(arena'))
    PROVE  entries' \in [DOMAIN program -> [resolved : Ids(arena') \cup {NoType}, resolving : BOOLEAN]]
<1>1. EntryType(Ids(arena)) \subseteq EntryType(Ids(arena'))
  BY DEF EntryType, Touches
<1>2. ASSUME NEW m \in DOMAIN program PROVE entries'[m] \in EntryType(Ids(arena'))
  <2>1. CASE m = n
    BY <2>1
  <2>2. CASE m # n
    <3>1. entries[m] \in EntryType(Ids(arena))
      BY TypedParts DEF EntryType
    <3>2. entries'[m] = entries[m]
      BY <2>2 DEF Touches
    <3> QED
      BY <1>1, <3>1, <3>2
  <2> QED
    BY <2>1, <2>2
<1> QED
  BY <1>2 DEF EntryType

LEMMA EnterTypes ==
    ASSUME IInv, TInv, UNCHANGED program, NEW n, Enter(n)
    PROVE  /\ n \in DOMAIN program /\ ~ IsResolved(n) /\ Touches(n)
           /\ \E r : /\ stack' = <<Frame(n, r)>> \o stack
                     /\ Frame(n, r) \in Frames(Ids(arena'))
           /\ entries' \in [DOMAIN program -> [resolved : Ids(arena') \cup {NoType}, resolving : BOOLEAN]]
           /\ SelfReferenceable(n) => arena'.decls[SlotOf(n)'].state = "resolving"
           /\ ~ SelfReferenceable(n) => entries'[n].resolved = NoType
<1>1. n \in DOMAIN program /\ ~ IsResolved(n) /\ n \in Names /\ entries[n].resolved = NoType
  BY NoNameFacts DEF Enter, IsUntouched, Declared, IsResolved
<1>2. ~ HasReference(n)
  BY <1>1 DEF HasReference
<1>3. Ids(arena) = 1 .. Len(arena.types) /\ Slots(arena) = 1 .. Len(arena.decls)
      /\ IsArenaRecord(arena) /\ Len(arena.decls) \in Nat
  BY IdsAre DEF IInv, Shapes, IsArenaRecord, IsSeq
<1>4. ASSUME NEW ids, NEW r \in ids \cup {NoType} PROVE Frame(n, r) \in Frames(ids)
  <2>1. NoProperties \in Properties(ids) /\ << >> \in Seq(ids)
    BY NoPropertiesAre, EmptySeq
  <2> QED
    BY <1>1, <2>1 DEF Frame, Frames
<1>5. entries[n] \in EntryType(Ids(arena)) /\ IsEntry(entries[n]) /\ DOMAIN entries = DOMAIN program
  BY <1>1, TypedParts DEF EntryType, IInv, Shapes
<1>6. CASE SelfReferenceable(n)
  <2>1. PICK new, slot, resolving :
           new = AllocRef(arena) /\ slot = Len(arena.decls) + 1 /\ resolving = entries[n].resolving
    OBVIOUS
  <2>2. /\ arena' = new.arena /\ entries' = [entries EXCEPT ![n].resolved = new.id]
        /\ stack' = <<Frame(n, new.id)>> \o stack
    BY <1>6, <2>1 DEF Enter, EnterObject
  <2>3. /\ IsTyped(arena') /\ Slots(arena') = Slots(arena) \cup {slot}
        /\ Ids(arena') = Ids(arena) \cup {new.id}
        /\ arena'.decls[slot] = [state |-> "resolving", body |-> NoBody]
    BY <2>1, <2>2, AllocRefTyped DEF TInv, Typed
  <2>4. /\ arena'.types[new.id] = RefNode(slot)
        /\ \A i \in Ids(arena) : arena'.types[i] = arena.types[i]
        /\ \A s \in Slots(arena) : arena'.decls[s] = arena.decls[s]
    BY <1>3, <2>1, <2>2, AllocRefAdds, SMTT(30)
  <2>5. entries'[n] = [resolved |-> new.id, resolving |-> resolving]
    BY <1>1, <1>5, <2>1, <2>2, EntryFields
  <2>6. /\ entries' = [m \in DOMAIN program |-> entries'[m]]
        /\ \A m \in DOMAIN program : m # n => entries'[m] = entries[m]
    BY <1>5, <2>2
  <2>7. Touches(n)
    BY <2>3, <2>4, <2>6 DEF Touches
  <2>8. entries'[n] \in EntryType(Ids(arena'))
    BY <1>5, <2>1, <2>3, <2>5 DEF EntryType
  <2>9. Frame(n, new.id) \in Frames(Ids(arena'))
    BY <1>4, <2>3
  <2>10. SlotOf(n)' = slot
    BY <2>4, <2>5 DEF SlotOf, RefNode
  <2> QED
    <3>1. entries' \in [DOMAIN program -> [resolved : Ids(arena') \cup {NoType}, resolving : BOOLEAN]]
      BY <2>6, <2>7, <2>8, EntriesTyped
    <3>2. arena'.decls[SlotOf(n)'].state = "resolving"
      BY <2>3, <2>10
    <3>3. \E r : stack' = <<Frame(n, r)>> \o stack /\ Frame(n, r) \in Frames(Ids(arena'))
      BY <2>2, <2>9
    <3> QED
      BY <1>1, <1>6, <2>7, <3>1, <3>2, <3>3
<1>7. CASE ~ SelfReferenceable(n)
  <2>1. /\ arena' = arena /\ entries' = [entries EXCEPT ![n].resolving = TRUE]
        /\ stack' = <<Frame(n, NoType)>> \o stack
    BY <1>7 DEF Enter, EnterAlias
  <2>2. entries'[n] = [resolved |-> NoType, resolving |-> TRUE]
    BY <1>1, <1>5, <2>1, EntryFields
  <2>3. /\ entries' = [m \in DOMAIN program |-> entries'[m]]
        /\ \A m \in DOMAIN program : m # n => entries'[m] = entries[m]
    BY <1>5, <2>1
  <2>4. Touches(n)
    BY <2>1, <2>3 DEF Touches, TInv, Typed
  <2>5. entries'[n] \in EntryType(Ids(arena'))
    BY <2>2 DEF EntryType
  <2>6. Frame(n, NoType) \in Frames(Ids(arena'))
    BY <1>4
  <2>7. entries' \in [DOMAIN program -> [resolved : Ids(arena') \cup {NoType}, resolving : BOOLEAN]]
    BY <2>3, <2>4, <2>5, EntriesTyped
  <2>8. \E r : stack' = <<Frame(n, r)>> \o stack /\ Frame(n, r) \in Frames(Ids(arena'))
    BY <2>1, <2>6
  <2> QED
    BY <1>1, <1>7, <2>2, <2>4, <2>7, <2>8
<1> QED
  BY <1>6, <1>7

LEMMA FinishTypes ==
    ASSUME IInv, TInv, Finish, NEW n, n = Top.name
    PROVE  /\ n \in DOMAIN program /\ SelfReferenceable(n) /\ Touches(n)
           /\ UNCHANGED <<program, entries, failing, requests>>
           /\ stack # << >> /\ stack' = Tail(stack)
           /\ Top.at = Len(program[n].members) + 1
           /\ Finished(n)' /\ Bodied(n)' = ObjectNode(Top.properties)
<1> DEFINE node == ObjectNode(Top.properties)
           body == Alloc(arena, node)
<1>1. /\ stack # << >> /\ UNCHANGED <<program, entries, failing, requests>> /\ stack' = Tail(stack)
      /\ SelfReferenceable(n) /\ Top.at = Len(program[n].members) + 1
      /\ arena' = ResolveRef(body.arena, body.arena.types[Top.ref].slot, body.id)
  BY DEF Finish, Running, TopDecl
<1>2. n \in DOMAIN program /\ HasReference(n) /\ entries[n].resolved = Top.ref
  BY <1>1, TopIsFrame DEF IInv, Entered, HasReference, IsResolved, Declared
<1>3. node \in Node(Ids(arena), Slots(arena)) /\ node.kind \in Interned
  BY <1>1, TypedParts, NodesAre DEF ObjectNode, Interned
<1> HIDE DEF node
<1>4. Gives(arena, body) /\ body.arena.types[body.id] = node
  BY <1>3, TypedParts, AllocGives
<1> HIDE DEF body
<1>5. PICK slot : slot = SlotOf(n)
  OBVIOUS
<1>6. Ids(arena) = 1 .. Len(arena.types) /\ Slots(arena) = 1 .. Len(arena.decls)
  BY IdsAre DEF IInv, Shapes
<1>7. /\ Top.ref \in Ids(arena) /\ slot \in Slots(arena)
      /\ arena.types[Top.ref] = RefNode(slot) /\ arena.types[Top.ref].slot = slot
  BY <1>2, <1>5, <1>6 DEF IInv, OwnReferences, RefNode, SlotOf
<1>8. \A i \in Ids(arena) : body.arena.types[i] = arena.types[i]
  BY <1>4, <1>6 DEF Gives, Keeps
<1>9. PICK a, id, value : /\ a = body.arena /\ id = body.id
                          /\ value = [state |-> "resolved", body |-> id]
  OBVIOUS
<1>10. /\ IsTyped(a) /\ IsArenaRecord(a) /\ a.decls = arena.decls /\ Slots(a) = Slots(arena)
       /\ id \in Ids(a) /\ a.types[id] = node /\ Ids(arena) \subseteq Ids(a)
  BY <1>4, <1>9 DEF Gives, Keeps
<1>11. arena' = [types |-> a.types, decls |-> [a.decls EXCEPT ![slot] = value],
                 interned |-> a.interned, unions |-> a.unions]
  <2>1. arena' = [a EXCEPT !.decls[slot] = value]
    <3>1. body.arena.types[Top.ref].slot = slot
      BY <1>7, <1>8
    <3> QED
      BY <1>1, <1>9, <3>1, Zenon DEF ResolveRef
  <2> QED
    BY <1>10, <2>1 DEF IsArenaRecord
<1>12. IsDecl(a, value) /\ slot \in Slots(a)
  <2>1. node.kind = "object"
    BY DEF node, ObjectNode
  <2> QED
    BY <1>7, <1>9, <1>10, <2>1 DEF IsDecl
<1>13. IsTyped(arena') /\ Ids(arena') = Ids(a) /\ Slots(arena') = Slots(a)
  <2> PICK b : b = [types |-> a.types, decls |-> [a.decls EXCEPT ![slot] = value],
                    interned |-> a.interned, unions |-> a.unions]
    OBVIOUS
  <2>1. IsTyped(b) /\ Ids(b) = Ids(a) /\ Slots(b) = Slots(a)
    BY <1>10, <1>12, DeclWritten
  <2> QED
    BY <1>11, <2>1
<1>14. /\ arena'.types = a.types /\ arena'.decls[slot] = value
       /\ \A s \in Slots(arena) : s # slot => arena'.decls[s] = arena.decls[s]
  <2>1. slot \in DOMAIN a.decls /\ DOMAIN a.decls = Slots(arena)
    BY <1>10, <1>12 DEF Slots
  <2> QED
    BY <1>10, <1>11, <2>1
<1>15. Touches(n)
  BY <1>1, <1>2, <1>5, <1>8, <1>9, <1>10, <1>13, <1>14, ZenonT(40) DEF Touches
<1>16. SlotOf(n)' = slot
  BY <1>1, <1>2, <1>7, <1>8, <1>9, <1>14 DEF SlotOf
<1>17. HasReference(n)'
  BY <1>1, <1>2 DEF HasReference, IsResolved, Declared, SelfReferenceable
<1>18. Finished(n)'
  BY <1>9, <1>14, <1>16, <1>17 DEF Finished
<1>19. Bodied(n)' = node
  BY <1>9, <1>10, <1>14, <1>16 DEF Bodied
<1> QED
  BY <1>1, <1>2, <1>15, <1>18, <1>19 DEF node

LEMMA FinishAliasTypes ==
    ASSUME IInv, TInv, FinishAlias, NEW n, n = Top.name
    PROVE  /\ n \in DOMAIN program /\ ~ SelfReferenceable(n) /\ Touches(n)
           /\ UNCHANGED <<program, failing, requests>> /\ arena'.decls = arena.decls
           /\ stack # << >> /\ stack' = Tail(stack)
           /\ entries' \in [DOMAIN program -> [resolved : Ids(arena') \cup {NoType}, resolving : BOOLEAN]]
<1> DEFINE named == AllocNamed(Annotated.arena, Annotated.id)
<1>1. /\ stack # << >> /\ UNCHANGED <<program, failing, requests>> /\ stack' = Tail(stack)
      /\ ~ SelfReferenceable(n) /\ AtEndOfMember
      /\ arena' = named.arena
      /\ entries' = [entries EXCEPT ![n] = [resolved |-> named.id, resolving |-> FALSE]]
  BY DEF FinishAlias, Running
<1>2. n \in DOMAIN program
  BY <1>1, TopIsFrame
<1>3. Gives(arena, Annotated)
  BY <1>1, AnnotatedGives
<1>4. Gives(Annotated.arena, named)
  BY <1>3, AllocNamedGives DEF Gives
<1> HIDE DEF named
<1>5. Ids(arena) = 1 .. Len(arena.types) /\ IsArenaRecord(arena)
  BY IdsAre DEF IInv, Shapes
<1>6. Keeps(arena, arena')
  BY <1>1, <1>3, <1>4, <1>5, KeepsIsTransitive DEF Gives
<1>7. /\ IsTyped(arena') /\ named.id \in Ids(arena') /\ Ids(arena) \subseteq Ids(arena')
      /\ Slots(arena') = Slots(arena)
  BY <1>1, <1>3, <1>4 DEF Gives
<1>8. /\ entries' = [m \in DOMAIN program |-> entries'[m]]
      /\ \A m \in DOMAIN program : m # n => entries'[m] = entries[m]
      /\ entries'[n] = [resolved |-> named.id, resolving |-> FALSE]
  BY <1>1, <1>2, EntryWritten DEF IInv
<1>9. arena'.decls = arena.decls /\ \A i \in Ids(arena) : arena'.types[i] = arena.types[i]
  BY <1>5, <1>6 DEF Keeps
<1>10. Touches(n)
  BY <1>1, <1>7, <1>8, <1>9 DEF Touches
<1>11. entries'[n] \in EntryType(Ids(arena'))
  BY <1>7, <1>8 DEF EntryType
<1> QED
  BY <1>1, <1>2, <1>8, <1>9, <1>10, <1>11, EntriesTyped

LEMMA FailTypes ==
    ASSUME IInv, TInv, Fail, NEW n, n = Top.name
    PROVE  /\ n \in DOMAIN program /\ Touches(n)
           /\ UNCHANGED <<program, requests>> /\ failing' \in BOOLEAN
           /\ stack # << >> /\ stack' = Tail(stack)
           /\ entries' \in [DOMAIN program -> [resolved : Ids(arena') \cup {NoType}, resolving : BOOLEAN]]
           /\ entries'[n].resolved = NoType
           /\ SelfReferenceable(n) => ~ NothingFailed'
           /\ ~ SelfReferenceable(n) => arena' = arena
<1>1. /\ stack # << >> /\ UNCHANGED <<program, requests>> /\ stack' = Tail(stack)
      /\ arena' = IF Top.ref = NoType THEN arena ELSE FailRef(arena, arena.types[Top.ref].slot)
      /\ entries' = [entries EXCEPT ![n] = [resolved |-> NoType, resolving |-> FALSE]]
      /\ failing' = (Len(stack) > 1)
  BY DEF Fail
<1>2. n \in DOMAIN program /\ Top = stack[1] /\ 1 \in 1 .. Len(stack) /\ IsArenaRecord(arena)
  BY <1>1, TopIsFrame DEF IInv, Shapes
<1>3. /\ entries' = [m \in DOMAIN program |-> entries'[m]]
      /\ \A m \in DOMAIN program : m # n => entries'[m] = entries[m]
      /\ entries'[n] = [resolved |-> NoType, resolving |-> FALSE]
  BY <1>1, <1>2, EntryWritten DEF IInv
<1>4. CASE ~ SelfReferenceable(n)
  <2>1. arena' = arena
    BY <1>1, <1>2, <1>4 DEF IInv, Entered
  <2>2. Touches(n)
    BY <1>1, <1>3, <2>1 DEF Touches, TInv, Typed
  <2>3. entries'[n] \in EntryType(Ids(arena'))
    BY <1>3 DEF EntryType
  <2>4. entries' \in [DOMAIN program -> [resolved : Ids(arena') \cup {NoType}, resolving : BOOLEAN]]
    BY <1>3, <2>2, <2>3, EntriesTyped
  <2>5. failing' \in BOOLEAN /\ entries'[n].resolved = NoType
    BY <1>1, <1>3
  <2> QED
    BY <1>1, <1>2, <1>4, <2>1, <2>2, <2>4, <2>5
<1>5. CASE SelfReferenceable(n)
  <2>1. Top.ref # NoType /\ HasReference(n) /\ entries[n].resolved = Top.ref
    BY <1>2, <1>5 DEF IInv, Entered, HasReference, IsResolved, Declared
  <2>2. PICK slot : slot = SlotOf(n)
    OBVIOUS
  <2>3. slot \in Slots(arena) /\ arena.types[Top.ref].slot = slot /\ slot \in 1 .. Len(arena.decls)
    BY <1>2, <2>1, <2>2, IdsAre DEF IInv, OwnReferences, SlotOf
  <2>4. arena.decls[slot].state = "resolving"
    BY <1>2, <1>5, <2>2 DEF TInv, Unfinished
  <2>5. arena.decls[slot] = [state |-> "resolving", body |-> NoBody]
    BY <2>3, <2>4 DEF TInv, Typed, IsTyped, WellFormed, IsArena
  <2>6. PICK value : value = [state |-> "failed", body |-> NoBody]
    OBVIOUS
  <2>7. arena' = [types |-> arena.types, decls |-> [arena.decls EXCEPT ![slot] = value],
                  interned |-> arena.interned, unions |-> arena.unions]
    <3>1. arena' = [arena EXCEPT !.decls[slot].state = "failed"]
      BY <1>1, <2>1, <2>3 DEF FailRef
    <3>2. [arena EXCEPT !.decls[slot].state = "failed"] = [arena EXCEPT !.decls[slot] = value]
      <4>1. [arena.decls[slot] EXCEPT !.state = "failed"] = value
        BY <2>5, <2>6
      <4> QED
        BY <4>1
    <3> QED
      BY <1>2, <3>1, <3>2 DEF IsArenaRecord
  <2>8. IsTyped(arena') /\ Ids(arena') = Ids(arena) /\ Slots(arena') = Slots(arena)
    <3>1. PICK b : b = [types |-> arena.types, decls |-> [arena.decls EXCEPT ![slot] = value],
                      interned |-> arena.interned, unions |-> arena.unions]
      OBVIOUS
    <3>2. IsDecl(arena, value)
      BY <2>6 DEF IsDecl
    <3>3. IsTyped(b) /\ Ids(b) = Ids(arena) /\ Slots(b) = Slots(arena)
      BY <2>3, <3>1, <3>2, TypedParts, DeclWritten
    <3> QED
      BY <2>7, <3>1, <3>3
  <2>9. /\ arena'.types = arena.types /\ arena'.decls[slot] = value
        /\ \A s \in Slots(arena) : s # slot => arena'.decls[s] = arena.decls[s]
    BY <2>3, <2>7 DEF Slots
  <2>10. Touches(n)
    BY <1>1, <1>3, <2>1, <2>2, <2>8, <2>9 DEF Touches
  <2>11. entries'[n] \in EntryType(Ids(arena'))
    BY <1>3 DEF EntryType
  <2>12. ~ NothingFailed'
    <3>1. slot \in DOMAIN arena'.decls /\ arena'.decls[slot].state = "failed"
      BY <2>3, <2>6, <2>8, <2>9 DEF Slots
    <3> QED
      BY <3>1 DEF NothingFailed
  <2>13. failing' \in BOOLEAN /\ entries'[n].resolved = NoType
    BY <1>1, <1>3
  <2>14. entries' \in [DOMAIN program -> [resolved : Ids(arena') \cup {NoType}, resolving : BOOLEAN]]
    BY <1>3, <2>10, <2>11, EntriesTyped
  <2> QED
    BY <1>1, <1>2, <1>5, <2>10, <2>12, <2>13, <2>14
<1> QED
  BY <1>4, <1>5

-----------------------------------------------------------------------------
(* The stack, with another innermost frame, with one more, with one less.  *)

LEMMA StackReplaced ==
    ASSUME IInv, stack # << >>, NEW f, stack' = WithTop(f)
    PROVE  /\ IsSeq(stack') /\ Len(stack') = Len(stack) /\ Len(stack) \in Nat \ {0}
           /\ stack'[1] = f /\ stack[1] = Top /\ stack' # << >>
           /\ \A i \in 1 .. Len(stack) : i # 1 => stack'[i] = stack[i]
<1>1. IsSeq(stack) /\ Len(stack) \in Nat /\ Len(stack) > 0
  BY Popped DEF IInv, Shapes, IsSeq
<1>2. /\ IsSeq(stack') /\ Len(stack') = Len(stack)
      /\ stack'[1] = f /\ stack[1] = Top
      /\ \A i \in 2 .. Len(stack) : stack'[i] = stack[i]
  BY <1>1, Replaced, Popped DEF WithTop, Top
<1>3. \A i \in 1 .. Len(stack) : i # 1 => i \in 2 .. Len(stack)
  BY <1>1
<1>4. Len(<< >>) = 0
  OBVIOUS
<1> QED
  BY <1>1, <1>2, <1>3, <1>4

LEMMA StackPushed ==
    ASSUME IInv, NEW f, stack' = <<f>> \o stack
    PROVE  /\ IsSeq(stack') /\ Len(stack') = Len(stack) + 1 /\ Len(stack) \in Nat
           /\ stack'[1] = f /\ stack' # << >>
           /\ stack # << >> => Top = stack[1] /\ 1 \in 1 .. Len(stack)
           /\ stack = << >> => Len(stack) = 0
           /\ \A i \in 1 .. Len(stack) + 1 :
                 i # 1 => i - 1 \in 1 .. Len(stack) /\ stack'[i] = stack[i - 1]
<1>1. IsSeq(stack) /\ Len(stack) \in Nat
  BY DEF IInv, Shapes, IsSeq
<1>2. /\ IsSeq(stack') /\ Len(stack') = Len(stack) + 1
      /\ stack'[1] = f
      /\ \A i \in 2 .. Len(stack) + 1 : stack'[i] = stack[i - 1]
  BY <1>1, Pushed
<1>3. \A i \in 1 .. Len(stack) + 1 : i # 1 => i - 1 \in 1 .. Len(stack) /\ i \in 2 .. Len(stack) + 1
  BY <1>1
<1>4. stack # << >> => Top = stack[1] /\ Len(stack) > 0
  BY <1>1, Popped DEF Top
<1>5. Len(<< >>) = 0
  OBVIOUS
<1> QED
  BY <1>1, <1>2, <1>3, <1>4, <1>5

LEMMA StackPopped ==
    ASSUME IInv, stack # << >>, stack' = Tail(stack)
    PROVE  /\ IsSeq(stack') /\ Len(stack') = Len(stack) - 1 /\ Len(stack) \in Nat \ {0}
           /\ Top = stack[1] /\ 1 \in 1 .. Len(stack)
           /\ stack' # << >> <=> Len(stack) > 1
           /\ \A i \in 1 .. Len(stack) - 1 :
                 i + 1 \in 1 .. Len(stack) /\ i + 1 # 1 /\ stack'[i] = stack[i + 1]
           /\ \A i \in 1 .. Len(stack) :
                 i # 1 => i - 1 \in 1 .. Len(stack') /\ stack'[i - 1] = stack[i]
<1>1. IsSeq(stack) /\ Len(stack) \in Nat
  BY DEF IInv, Shapes, IsSeq
<1>2. /\ IsSeq(stack') /\ Len(stack') = Len(stack) - 1 /\ Len(stack) > 0
      /\ \A i \in 1 .. Len(stack) - 1 : stack'[i] = stack[i + 1]
      /\ Top = stack[1]
  BY <1>1, Popped DEF Top
<1>3. \A s : IsSeq(s) /\ Len(s) = 0 => s = << >>
  BY SeqOver, EmptySeq DEF IsSeq
<1>4. Len(<< >>) = 0
  OBVIOUS
<1>5. \A i \in 1 .. Len(stack) - 1 : i + 1 \in 1 .. Len(stack) /\ i + 1 # 1
  BY <1>1
<1>6. ASSUME NEW i \in 1 .. Len(stack), i # 1
      PROVE  i - 1 \in 1 .. Len(stack') /\ stack'[i - 1] = stack[i]
  <2>1. i - 1 \in 1 .. Len(stack) - 1 /\ (i - 1) + 1 = i
    BY <1>1, <1>6
  <2> QED
    BY <1>2, <2>1
<1>7. Len(stack') = 0 <=> stack' = << >>
  BY <1>2, <1>3, <1>4
<1>8. stack' # << >> <=> Len(stack) > 1
  BY <1>1, <1>2, <1>7
<1>9. Len(stack) \in Nat \ {0} /\ 1 \in 1 .. Len(stack)
  BY <1>1, <1>2
<1> QED
  BY <1>2, <1>5, <1>6, <1>8, <1>9

-----------------------------------------------------------------------------
LEMMA NewArenaTyped == IsTyped(NewArena) /\ HasPrimitives(NewArena)
<1> DEFINE a == NewArena
<1>1. DOMAIN Primitives = 1 .. 10
  BY DEF Primitives
<1>2. /\ a.types = [i \in 1 .. 10 |-> PrimitiveNode(Primitives[i])]
      /\ a.decls = << >> /\ a.interned = << >> /\ a.unions = << >>
      /\ a = [types |-> a.types, decls |-> a.decls, interned |-> a.interned, unions |-> a.unions]
  BY <1>1 DEF NewArena
<1> HIDE DEF a
<1>3. /\ Ids(a) = 1 .. 10 /\ Slots(a) = {}
      /\ \A i \in 1 .. 10 : a.types[i] = PrimitiveNode(Primitives[i])
  BY <1>2 DEF Ids, Slots
<1>4. IsArenaRecord(a)
  <2>1. IsSeq(a.decls)
    BY <1>2, EmptySeq, SeqIsSeq
  <2>2. a.types \in Seq({PrimitiveNode(Primitives[i]) : i \in 1 .. 10})
    BY <1>2, SeqDef
  <2>3. IsSeq(a.types)
    BY <2>2, SeqIsSeq
  <2> QED
    BY <1>2, <2>1, <2>3 DEF IsArenaRecord
<1>5. \A i \in Ids(a) : a.types[i] \in Node(Ids(a), Slots(a)) /\ a.types[i].kind = "primitive"
  BY <1>1, <1>3, NodesAre DEF PrimitiveNames, PrimitiveNode
<1>6. DOMAIN a.interned = {} /\ DOMAIN a.unions = {}
  BY <1>2
<1>7. IsArena(a)
  BY <1>3, <1>5, <1>6 DEF IsArena
<1>8. GroundedIn(a) /\ InternedIn(a) /\ FlatIn(a)
  BY <1>3, <1>5 DEF GroundedIn, InternedIn, Interned, FlatIn, Foreign
<1> QED
  BY <1>1, <1>3, <1>4, <1>7, <1>8 DEF IsTyped, WellFormed, HasPrimitives, a

LEMMA InitTInv == Init => TInv
<1> SUFFICES ASSUME Init PROVE TInv
  OBVIOUS
<1>1. arena = NewArena /\ stack = << >> /\ requests = << >> /\ failing = FALSE
      /\ program \in Programs
      /\ entries = [n \in DOMAIN program |-> [resolved |-> NoType, resolving |-> FALSE]]
  BY DEF Init
<1>2. IsTyped(arena) /\ HasPrimitives(arena)
  BY <1>1, NewArenaTyped
<1>3. stack \in Seq(Frames(Ids(arena))) /\ requests \in Seq(Names) /\ Len(stack) = 0
  BY <1>1, EmptySeq
<1>4. entries \in [DOMAIN program -> [resolved : Ids(arena) \cup {NoType}, resolving : BOOLEAN]]
  BY <1>1
<1>5. Typed
  BY <1>1, <1>2, <1>3, <1>4 DEF Typed, TypeOK, IsTyped, WellFormed
<1>6. Unfinished
  BY <1>3 DEF Unfinished
<1> QED
  BY <1>5, <1>6 DEF TInv

(* A declaration on the stack that a step does not touch.                  *)
LEMMA StaysUnfinished ==
    ASSUME IInv, TInv, NEW n, Touches(n), NEW i \in 1 .. Len(stack), NEW m,
           m = stack[i].name, m # n
    PROVE  IF SelfReferenceable(m)' THEN arena'.decls[SlotOf(m)'].state = "resolving"
           ELSE entries'[m].resolved = NoType
<1>1. m \in DOMAIN program
  BY DEF IInv, Shapes
<1>2. SelfReferenceable(m)' <=> SelfReferenceable(m)
  BY DEF SelfReferenceable, Touches
<1>3. CASE SelfReferenceable(m)
  <2>1. HasReference(m)
    BY <1>1, <1>3 DEF IInv, Entered, HasReference, IsResolved, Declared
  <2>2. arena.decls[SlotOf(m)].state = "resolving"
    BY <1>3 DEF TInv, Unfinished
  <2> QED
    BY <1>1, <1>2, <1>3, <2>1, <2>2, OthersStay
<1>4. CASE ~ SelfReferenceable(m)
  <2>1. entries[m].resolved = NoType
    BY <1>4 DEF TInv, Unfinished
  <2> QED
    BY <1>1, <1>2, <1>4, <2>1, OthersStay
<1> QED
  BY <1>3, <1>4

LEMMA TypedAfter ==
    ASSUME TInv, NEW n, Touches(n), failing' \in BOOLEAN, requests' \in Seq(Names),
           entries' \in [DOMAIN program -> [resolved : Ids(arena') \cup {NoType}, resolving : BOOLEAN]],
           stack' \in Seq(Frames(Ids(arena')))
    PROVE  Typed'
<1>1. program' = program /\ program \in Programs /\ IsTyped(arena') /\ IsArena(arena')
      /\ HasPrimitives(arena')
  BY TypedParts DEF Touches, IsTyped, WellFormed, HasPrimitives
<1>2. DOMAIN program' = DOMAIN program
  BY <1>1
<1>3. TypeOK'
  BY <1>1, <1>2 DEF TypeOK
<1> QED
  BY <1>1, <1>3 DEF Typed

LEMMA TypedReplaces ==
    ASSUME IInv, TInv, NEW f, Replaces(f)
    PROVE  TInv'
<1>1. /\ Touches(NoName) /\ UNCHANGED <<entries, requests>> /\ failing' \in BOOLEAN
      /\ stack # << >> /\ stack' = WithTop(f)
      /\ f \in Frames(Ids(arena')) /\ f.name = Top.name /\ f.at # 0
  BY DEF Replaces
<1>2. /\ Len(stack') = Len(stack) /\ Len(stack) \in Nat \ {0} /\ stack'[1] = f /\ stack[1] = Top
      /\ \A i \in 1 .. Len(stack) : i # 1 => stack'[i] = stack[i]
  BY <1>1, StackReplaced
<1>3. Seq(Frames(Ids(arena))) \subseteq Seq(Frames(Ids(arena')))
  BY <1>1, FramesMono DEF Touches
<1>4. stack' \in Seq(Frames(Ids(arena')))
  <2>1. Tail(stack) \in Seq(Frames(Ids(arena')))
    BY <1>1, <1>3, TypedParts
  <2>2. <<f>> \in Seq(Frames(Ids(arena')))
    BY <1>1
  <2> QED
    BY <1>1, <2>1, <2>2, ConcatProperties DEF WithTop
<1>5. entries' \in [DOMAIN program -> [resolved : Ids(arena') \cup {NoType}, resolving : BOOLEAN]]
  <2>1. entries' = [m \in DOMAIN program |-> entries'[m]]
    BY <1>1 DEF IInv, Shapes
  <2> QED
    BY <1>1, <2>1, NoNameFacts, EntriesTyped
<1>6. Typed'
  BY <1>1, <1>4, <1>5, TypedParts, TypedAfter
<1>7. Unfinished'
  <2> SUFFICES ASSUME NEW i \in 1 .. Len(stack'), NEW m, m = stack'[i].name
               PROVE  /\ IF SelfReferenceable(m)' THEN arena'.decls[SlotOf(m)'].state = "resolving"
                         ELSE entries'[m].resolved = NoType
                      /\ stack'[i].at = 0 => stack'[i].parts = << >>
    <3>1. \A j \in 1 .. Len(stack') : \A m : m = stack'[j].name =>
             /\ IF SelfReferenceable(m)' THEN arena'.decls[SlotOf(m)'].state = "resolving"
                ELSE entries'[m].resolved = NoType
             /\ stack'[j].at = 0 => stack'[j].parts = << >>
      OBVIOUS
    <3> QED
      BY <3>1 DEF Unfinished, SelfReferenceable, SlotOf
  <2>1. i \in 1 .. Len(stack) /\ m = stack[i].name /\ m \in DOMAIN program
        /\ (stack'[i].at = 0 => stack'[i] = stack[i])
    BY <1>1, <1>2 DEF IInv, Shapes
  <2>2. m # NoName
    BY <2>1, NoNameFacts
  <2>3. stack'[i].at = 0 => stack'[i].parts = << >>
    BY <2>1 DEF TInv, Unfinished
  <2> QED
    BY <1>1, <2>1, <2>2, <2>3, StaysUnfinished
<1> QED
  BY <1>6, <1>7 DEF TInv

LEMMA TypedEnters ==
    ASSUME IInv, TInv, UNCHANGED program, NEW n, Enter(n),
           failing' \in BOOLEAN, requests' \in Seq(Names)
    PROVE  TInv'
<1>1. /\ n \in DOMAIN program /\ ~ IsResolved(n) /\ Touches(n)
      /\ entries' \in [DOMAIN program -> [resolved : Ids(arena') \cup {NoType}, resolving : BOOLEAN]]
      /\ SelfReferenceable(n) => arena'.decls[SlotOf(n)'].state = "resolving"
      /\ ~ SelfReferenceable(n) => entries'[n].resolved = NoType
  BY EnterTypes
<1>2. PICK r : /\ stack' = <<Frame(n, r)>> \o stack
               /\ Frame(n, r) \in Frames(Ids(arena'))
  BY EnterTypes
<1>3. PICK f : f = Frame(n, r)
  OBVIOUS
<1>4. f.name = n /\ f.parts = << >> /\ f \in Frames(Ids(arena')) /\ stack' = <<f>> \o stack
  BY <1>2, <1>3 DEF Frame
<1>5. /\ Len(stack') = Len(stack) + 1 /\ stack'[1] = f
      /\ \A i \in 1 .. Len(stack) + 1 :
            i # 1 => i - 1 \in 1 .. Len(stack) /\ stack'[i] = stack[i - 1]
  BY <1>4, StackPushed
<1>6. stack' \in Seq(Frames(Ids(arena')))
  <2>1. Ids(arena) \subseteq Ids(arena')
    BY <1>1 DEF Touches
  <2>2. stack \in Seq(Frames(Ids(arena')))
    BY <2>1, FramesMono, TypedParts
  <2>3. <<f>> \in Seq(Frames(Ids(arena')))
    BY <1>4
  <2> QED
    BY <1>4, <2>2, <2>3, ConcatProperties
<1>7. Typed'
  BY <1>1, <1>6, TypedAfter
<1>8. Unfinished'
  <2> SUFFICES ASSUME NEW i \in 1 .. Len(stack'), NEW m, m = stack'[i].name
               PROVE  /\ IF SelfReferenceable(m)' THEN arena'.decls[SlotOf(m)'].state = "resolving"
                         ELSE entries'[m].resolved = NoType
                      /\ stack'[i].at = 0 => stack'[i].parts = << >>
    <3>1. \A j \in 1 .. Len(stack') : \A m : m = stack'[j].name =>
             /\ IF SelfReferenceable(m)' THEN arena'.decls[SlotOf(m)'].state = "resolving"
                ELSE entries'[m].resolved = NoType
             /\ stack'[j].at = 0 => stack'[j].parts = << >>
      OBVIOUS
    <3> QED
      BY <3>1 DEF Unfinished, SelfReferenceable, SlotOf
  <2>1. CASE i = 1
    <3>1. m = n /\ stack'[i].parts = << >>
      BY <1>4, <1>5, <2>1
    <3>2. SelfReferenceable(n)' <=> SelfReferenceable(n)
      BY DEF SelfReferenceable
    <3> QED
      BY <1>1, <3>1, <3>2
  <2>2. CASE i # 1
    <3>1. PICK k \in 1 .. Len(stack) : stack'[i] = stack[k]
      BY <1>5, <2>2
    <3>2. (stack[k].at = 0 => stack[k].parts = << >>) /\ m = stack[k].name
      BY <3>1 DEF TInv, Unfinished
    <3>3. m # n
      <4>1. IF SelfReferenceable(m) THEN entries[m].resolved # NoType ELSE entries[m].resolving
        BY <3>2 DEF IInv, Entered
      <4> QED
        BY <1>1, <4>1 DEF Enter, IsUntouched, IsResolved, Declared
    <3> QED
      BY <1>1, <3>1, <3>2, <3>3, StaysUnfinished
  <2> QED
    BY <2>1, <2>2
<1> QED
  BY <1>7, <1>8 DEF TInv

LEMMA TypedLeaves ==
    ASSUME IInv, TInv, NEW n, n = Top.name, Touches(n), stack # << >>, stack' = Tail(stack),
           failing' \in BOOLEAN, requests' = requests,
           entries' \in [DOMAIN program -> [resolved : Ids(arena') \cup {NoType}, resolving : BOOLEAN]]
    PROVE  TInv'
<1>1. /\ Len(stack') = Len(stack) - 1 /\ Top = stack[1] /\ 1 \in 1 .. Len(stack)
      /\ \A i \in 1 .. Len(stack) - 1 :
            i + 1 \in 1 .. Len(stack) /\ i + 1 # 1 /\ stack'[i] = stack[i + 1]
  BY StackPopped
<1>2. stack' \in Seq(Frames(Ids(arena')))
  <2>1. Ids(arena) \subseteq Ids(arena')
    BY DEF Touches
  <2> QED
    BY <2>1, FramesMono, TypedParts
<1>3. Typed'
  BY <1>2, TypedParts, TypedAfter
<1>4. Unfinished'
  <2> SUFFICES ASSUME NEW i \in 1 .. Len(stack'), NEW m, m = stack'[i].name
               PROVE  /\ IF SelfReferenceable(m)' THEN arena'.decls[SlotOf(m)'].state = "resolving"
                         ELSE entries'[m].resolved = NoType
                      /\ stack'[i].at = 0 => stack'[i].parts = << >>
    <3>1. \A j \in 1 .. Len(stack') : \A m : m = stack'[j].name =>
             /\ IF SelfReferenceable(m)' THEN arena'.decls[SlotOf(m)'].state = "resolving"
                ELSE entries'[m].resolved = NoType
             /\ stack'[j].at = 0 => stack'[j].parts = << >>
      OBVIOUS
    <3> QED
      BY <3>1 DEF Unfinished, SelfReferenceable, SlotOf
  <2>1. PICK k \in 1 .. Len(stack) : k # 1 /\ stack'[i] = stack[k]
    BY <1>1
  <2>2. (stack[k].at = 0 => stack[k].parts = << >>) /\ m = stack[k].name
    BY <2>1 DEF TInv, Unfinished
  <2>3. m # n
    BY <1>1, <2>1, <2>2 DEF IInv, EnteredOnce
  <2> QED
    BY <2>1, <2>2, <2>3, StaysUnfinished
<1> QED
  BY <1>3, <1>4 DEF TInv

LEMMA NextTInv == IInv /\ TInv /\ [Next]_vars => TInv'
<1> SUFFICES ASSUME IInv, TInv, [Next]_vars PROVE TInv'
  OBVIOUS
<1>1. ASSUME NEW n \in Names, Request(n) PROVE TInv'
  <2>1. UNCHANGED <<program, failing>> /\ Enter(n) /\ requests' = <<n>> \o requests
    BY <1>1 DEF Request
  <2>2. requests' \in Seq(Names)
    <3>1. <<n>> \in Seq(Names) /\ requests \in Seq(Names)
      BY TypedParts
    <3> QED
      BY <2>1, <3>1, ConcatProperties
  <2>3. failing' \in BOOLEAN
    BY <2>1, TypedParts
  <2> QED
    BY <2>1, <2>2, <2>3, TypedEnters
<1>2. ASSUME AskParent \/ AskPart PROVE TInv'
  <2>1. /\ UNCHANGED <<program, failing, requests>>
        /\ \E n : Enter(n)
    BY <1>2 DEF AskParent, AskPart
  <2>2. failing' \in BOOLEAN /\ requests' \in Seq(Names)
    BY <2>1, TypedParts
  <2> QED
    BY <2>1, <2>2, TypedEnters
<1>3. CASE Inherit
  BY <1>3, InheritEffect, TypedReplaces
<1>4. CASE PassOver
  BY <1>4, PassOverEffect, TypedReplaces
<1>5. CASE AnswerPart
  BY <1>5, AnswerEffect, TypedReplaces
<1>6. CASE CloseMember
  BY <1>6, CloseEffect, TypedReplaces
<1>7. CASE Finish
  <2> PICK n : n = Top.name
    OBVIOUS
  <2>1. /\ Touches(n) /\ UNCHANGED <<program, entries, failing, requests>>
        /\ stack # << >> /\ stack' = Tail(stack)
    BY <1>7, FinishTypes
  <2>2. failing' \in BOOLEAN
    BY <2>1, TypedParts
  <2>3. entries' \in [DOMAIN program -> [resolved : Ids(arena') \cup {NoType}, resolving : BOOLEAN]]
    <3>1. Ids(arena) \subseteq Ids(arena') /\ entries' = entries
      BY <2>1 DEF Touches
    <3>2. EntryType(Ids(arena)) \subseteq EntryType(Ids(arena'))
      BY <3>1 DEF EntryType
    <3>3. entries \in [DOMAIN program -> EntryType(Ids(arena))]
      BY TypedParts DEF EntryType
    <3>4. entries \in [DOMAIN program -> EntryType(Ids(arena'))]
      BY <3>2, <3>3
    <3> QED
      BY <3>1, <3>4 DEF EntryType
  <2> QED
    BY <2>1, <2>2, <2>3, TypedLeaves
<1>8. CASE FinishAlias
  <2> PICK n : n = Top.name
    OBVIOUS
  <2>1. /\ Touches(n) /\ UNCHANGED <<program, failing, requests>>
        /\ stack # << >> /\ stack' = Tail(stack)
        /\ entries' \in [DOMAIN program -> [resolved : Ids(arena') \cup {NoType}, resolving : BOOLEAN]]
    BY <1>8, FinishAliasTypes
  <2>2. failing' \in BOOLEAN
    BY <2>1, TypedParts
  <2> QED
    BY <2>1, <2>2, TypedLeaves
<1>9. CASE Fail
  <2> PICK n : n = Top.name
    OBVIOUS
  <2>1. /\ Touches(n) /\ UNCHANGED <<program, requests>> /\ failing' \in BOOLEAN
        /\ stack # << >> /\ stack' = Tail(stack)
        /\ entries' \in [DOMAIN program -> [resolved : Ids(arena') \cup {NoType}, resolving : BOOLEAN]]
    BY <1>9, FailTypes
  <2> QED
    BY <2>1, TypedLeaves
<1>10. CASE UNCHANGED vars
  BY <1>10 DEF vars, TInv, Typed, TypeOK, Unfinished, SelfReferenceable, SlotOf
<1> QED
  BY <1>1, <1>2, <1>3, <1>4, <1>5, <1>6, <1>7, <1>8, <1>9, <1>10 DEF Next, Step

LEMMA AlwaysTInv == Spec => []TInv
<1>1. IInv /\ TInv /\ [Next]_vars => TInv'
  BY NextTInv
<1> QED
  BY <1>1, InitTInv, AlwaysIInv, PTL DEF Spec

(* Every id the arena, the entries and the frames hold is one the arena    *)
(* handed out, and a declaration has a body when it is resolved.           *)
THEOREM TypesAreSound == Spec => []TypeOK
<1>1. TInv => TypeOK
  BY DEF TInv, Typed
<1> QED
  BY <1>1, AlwaysTInv, PTL

(* Equal objects, and equal arrays, have one id, whatever the digests:     *)
(* alloc compares contents, and remembers every type it hands out.         *)
THEOREM ContentHasOneId == Spec => []OneIdPerContent
<1>1. TInv => OneIdPerContent
  BY DEF TInv, Typed, OneIdPerContent, IsTyped, WellFormed, InternedIn, Interned
<1> QED
  BY <1>1, AlwaysTInv, PTL

-----------------------------------------------------------------------------
(* The types of members.  A frame's properties are of the types its        *)
(* members name, as far as they are resolved, and a body's of those all    *)
(* its members name; nothing of it changes until something fails.          *)

DecidingUpTo(n, i, at) ==
    \A j \in DOMAIN program[n].members :
       i < j /\ j < at => program[n].members[j].name # program[n].members[i].name

(* The type of a member: its only part's, or the union of the names.       *)
HaveTypes(member) ==
    \A k \in DOMAIN member.of :
       IF Declared(member.of[k].to) THEN IsResolved(member.of[k].to)
       ELSE member.of[k].to \in PrimitiveNames

UnionFor(member, id) ==
    HaveTypes(member) /\ id \in Ids(arena) /\ Whole(arena, WrittenIds(member), id)

TypeFor(member, id) ==
    /\ Len(member.of) = 1 => PartOf(member.of[1], id)
    /\ IsUnionOfNames(member) => UnionFor(member, id)

GivenTypes(n, at, properties) ==
    \A i \in DOMAIN program[n].members :
       LET member == program[n].members[i]
       IN  i < at /\ DecidingUpTo(n, i, at) =>
             /\ member.name \in DOMAIN properties
             /\ TypeFor(member, properties[member.name].type)

PartsOf(member, parts) ==
    \A k \in DOMAIN parts : k \in DOMAIN member.of /\ PartOf(member.of[k], parts[k])

NamedFrame(frame) ==
    LET members == program[frame.name].members
    IN  /\ SelfReferenceable(frame.name) => GivenTypes(frame.name, frame.at, frame.properties)
        /\ frame.at \in DOMAIN members => PartsOf(members[frame.at], frame.parts)

NamedTypes ==
    NothingFailed =>
       /\ \A i \in 1 .. Len(stack) : NamedFrame(stack[i])
       /\ \A n \in DOMAIN program : Finished(n) =>
             GivenTypes(n, Len(program[n].members) + 1, Bodied(n).properties)

LEMMA WrittenAreIds ==
    ASSUME TInv, NEW member, HaveTypes(member)
    PROVE  WrittenIds(member) \subseteq Ids(arena)
<1>1. \A k \in DOMAIN member.of : ~ Declared(member.of[k].to) =>
         PrimitiveId(member.of[k].to) \in DOMAIN Primitives
  BY DEF HaveTypes, PrimitiveNames, PrimitiveId
<1>2. \A k \in DOMAIN member.of : Declared(member.of[k].to) =>
         entries[member.of[k].to].resolved \in Ids(arena)
  BY TypedParts DEF HaveTypes
<1> QED
  BY <1>1, <1>2, TypedParts DEF WrittenIds

LEMMA NamesStay ==
    ASSUME IInv, TInv, NEW n, Touches(n),
           IsResolved(n) => entries'[n].resolved = entries[n].resolved
    PROVE  /\ \A part, id : PartOf(part, id) => PartOf(part, id)'
           /\ \A member, id : TypeFor(member, id) => TypeFor(member, id)'
           /\ \A m, i, at : DecidingUpTo(m, i, at)' <=> DecidingUpTo(m, i, at)
           /\ \A m, at, properties : GivenTypes(m, at, properties) => GivenTypes(m, at, properties)'
           /\ \A f : NamedFrame(f) => NamedFrame(f)'
<1>1. program' = program
  BY DEF Touches
<1>2. \A m : Declared(m)' <=> Declared(m)
  BY <1>1 DEF Declared
<1>3. ASSUME NEW m, IsResolved(m)
      PROVE  /\ IsResolved(m)' /\ entries'[m].resolved = entries[m].resolved
  <2>1. m \in DOMAIN program /\ entries[m].resolved # NoType
    BY <1>3 DEF IsResolved, Declared
  <2>2. entries'[m].resolved = entries[m].resolved
    <3>1. CASE m = n
      BY <1>3, <3>1
    <3>2. CASE m # n
      BY <2>1, <3>2 DEF Touches
    <3> QED
      BY <3>1, <3>2
  <2> QED
    BY <1>1, <2>1, <2>2 DEF IsResolved, Declared
<1>4. ASSUME NEW part, NEW id, PartOf(part, id) PROVE PartOf(part, id)'
  <2> SUFFICES ASSUME Declared(part.to)
               PROVE  /\ IsResolved(part.to)'
                      /\ IF part.array
                         THEN /\ id \in Ids(arena')
                              /\ arena'.types[id] = ArrayNode(entries'[part.to].resolved)
                         ELSE id = entries'[part.to].resolved
    BY <1>2, <1>4 DEF PartOf
  <2>1. IsResolved(part.to)
    BY <1>4 DEF PartOf
  <2>2. IsResolved(part.to)' /\ entries'[part.to].resolved = entries[part.to].resolved
    BY <1>3, <2>1
  <2>3. CASE part.array
    BY <1>4, <2>2, <2>3 DEF PartOf, Touches
  <2>4. CASE ~ part.array
    BY <1>4, <2>2, <2>4 DEF PartOf
  <2> QED
    BY <2>2, <2>3, <2>4
<1>5. \A m, i, at : DecidingUpTo(m, i, at)' <=> DecidingUpTo(m, i, at)
  BY <1>1 DEF DecidingUpTo
<1>8. ASSUME NEW member, NEW id, UnionFor(member, id) PROVE UnionFor(member, id)'
  <2>1. HaveTypes(member) /\ id \in Ids(arena) /\ Whole(arena, WrittenIds(member), id)
    BY <1>8 DEF UnionFor
  <2>2. HaveTypes(member)'
    BY <1>2, <1>3, <2>1 DEF HaveTypes
  <2>3. PICK ids : ids = WrittenIds(member)
    OBVIOUS
  <2>4. ids = WrittenIds(member)'
    BY <1>2, <1>3, <2>1, <2>3 DEF HaveTypes, WrittenIds
  <2>5. ids \subseteq Ids(arena)
    BY <2>1, <2>3, WrittenAreIds
  <2>6. Ids(arena) \subseteq Ids(arena') /\ WellFormed(arena')
        /\ \A i \in Ids(arena) : arena'.types[i] = arena.types[i]
    BY DEF Touches, IsTyped
  <2>7. Whole(arena', ids, id)
    BY <2>1, <2>3, <2>5, <2>6, WholeStays, TypedParts
  <2> QED
    BY <2>1, <2>2, <2>4, <2>6, <2>7 DEF UnionFor
<1>9. ASSUME NEW member, NEW id, TypeFor(member, id) PROVE TypeFor(member, id)'
  <2>1. /\ Len(member.of) = 1 => PartOf(member.of[1], id)
        /\ IsUnionOfNames(member) => UnionFor(member, id)
    BY <1>9 DEF TypeFor
  <2>2. Len(member.of) = 1 => PartOf(member.of[1], id)'
    <3>1. PICK part : part = member.of[1]
      OBVIOUS
    <3> QED
      BY <1>4, <2>1, <3>1
  <2> QED
    BY <1>8, <2>1, <2>2 DEF TypeFor, IsUnionOfNames
<1>6. ASSUME NEW m, NEW at, NEW properties, GivenTypes(m, at, properties)
      PROVE  GivenTypes(m, at, properties)'
  BY <1>1, <1>5, <1>6, <1>9 DEF GivenTypes
<1>10. ASSUME NEW member, NEW parts, PartsOf(member, parts) PROVE PartsOf(member, parts)'
  BY <1>4, <1>10 DEF PartsOf
<1>7. ASSUME NEW f, NamedFrame(f) PROVE NamedFrame(f)'
  <2>1. SelfReferenceable(f.name)' <=> SelfReferenceable(f.name)
    BY <1>1 DEF SelfReferenceable
  <2> QED
    BY <1>1, <1>6, <1>7, <1>10, <2>1 DEF NamedFrame
<1> QED
  BY <1>4, <1>5, <1>6, <1>7, <1>9

(* Only a failure makes a slot a failed one.                               *)
LEMMA FailuresStay ==
    ASSUME IInv, TInv, NEW n, Touches(n),
           HasReference(n) => arena.decls[SlotOf(n)].state # "failed"
    PROVE  NothingFailed' => NothingFailed
<1> SUFFICES ASSUME NothingFailed', NEW slot \in DOMAIN arena.decls,
                    arena.decls[slot].state = "failed"
             PROVE  FALSE
  BY DEF NothingFailed
<1>1. slot \in Slots(arena) /\ slot \in Slots(arena')
  BY DEF Slots, Touches
<1>2. arena'.decls[slot] = arena.decls[slot]
  BY <1>1 DEF Touches
<1> QED
  BY <1>1, <1>2 DEF NothingFailed, Slots

LEMMA InitNamedTypes == Init => NamedTypes
<1> SUFFICES ASSUME Init PROVE NamedTypes
  OBVIOUS
<1>1. Len(stack) = 0
  BY EmptySeq DEF Init
<1>2. \A n \in DOMAIN program : ~ Finished(n)
  BY DEF Init, Finished, HasReference, IsResolved
<1> QED
  BY <1>1, <1>2 DEF NamedTypes

(* A frame that has no member yet.                                         *)
LEMMA FirstMember ==
    ASSUME program \in Programs, NEW f, f.name \in DOMAIN program, f.at \in {0, 1},
           f.parts = << >>
    PROVE  NamedFrame(f)
<1>1. /\ DOMAIN program[f.name].members = 1 .. Len(program[f.name].members)
      /\ Len(program[f.name].members) \in Nat
  BY ProgramFacts DEF IsSeq
<1>2. \A i \in DOMAIN program[f.name].members : ~ i < f.at
  BY <1>1
<1>3. GivenTypes(f.name, f.at, f.properties)
  BY <1>2 DEF GivenTypes
<1>4. \A member : PartsOf(member, f.parts)
  BY DEF PartsOf
<1> QED
  BY <1>3, <1>4 DEF NamedFrame

(* A frame is an old one or a named one, and so is what is finished.       *)
LEMMA NamedAfter ==
    ASSUME IInv, TInv, NamedTypes, NEW n, Touches(n),
           IsResolved(n) => entries'[n].resolved = entries[n].resolved,
           HasReference(n) => arena.decls[SlotOf(n)].state # "failed",
           NothingFailed =>
              /\ \A i \in 1 .. Len(stack') :
                    \/ NamedFrame(stack[i])'
                    \/ \E k \in 1 .. Len(stack) : stack'[i] = stack[k]
              /\ n \in DOMAIN program /\ Finished(n)' =>
                    GivenTypes(n, Len(program[n].members) + 1, Bodied(n).properties)'
    PROVE  NamedTypes'
<1>1. program' = program
  BY DEF Touches
<1> SUFFICES ASSUME NothingFailed'
             PROVE  /\ \A i \in 1 .. Len(stack') : NamedFrame(stack[i])'
                    /\ \A m \in DOMAIN program : Finished(m)' =>
                          GivenTypes(m, Len(program[m].members) + 1, Bodied(m).properties)'
  BY <1>1 DEF NamedTypes
<1>3. NothingFailed
  BY FailuresStay
<1>4. /\ \A g : NamedFrame(g) => NamedFrame(g)'
      /\ \A m, at, properties : GivenTypes(m, at, properties) => GivenTypes(m, at, properties)'
  BY NamesStay
<1>5. ASSUME NEW i \in 1 .. Len(stack') PROVE NamedFrame(stack[i])'
  <2>1. PICK g : g = stack'[i]
    OBVIOUS
  <2>2. NamedFrame(g)'
    <3>1. CASE NamedFrame(stack[i])'
      BY <2>1, <3>1
    <3>2. CASE \E k \in 1 .. Len(stack) : stack'[i] = stack[k]
      <4>1. PICK k \in 1 .. Len(stack) : g = stack[k]
        BY <2>1, <3>2
      <4>2. NamedFrame(g)
        BY <1>3, <4>1 DEF NamedTypes
      <4> QED
        BY <1>4, <4>2
    <3> QED
      BY <1>3, <3>1, <3>2
  <2> QED
    BY <2>1, <2>2
<1>6. ASSUME NEW m \in DOMAIN program, Finished(m)'
      PROVE  GivenTypes(m, Len(program[m].members) + 1, Bodied(m).properties)'
  <2>1. CASE m = n
    BY <1>3, <1>6, <2>1
  <2>2. CASE m # n
    <3>1. Finished(m) /\ Bodied(m)' = Bodied(m)
      BY <1>6, <2>2, OthersStay
    <3>2. PICK at, properties :
             at = Len(program[m].members) + 1 /\ properties = Bodied(m).properties
      OBVIOUS
    <3>3. GivenTypes(m, at, properties)'
      BY <1>3, <1>4, <3>1, <3>2 DEF NamedTypes
    <3>4. at = (Len(program[m].members) + 1)' /\ properties = Bodied(m).properties'
      BY <1>1, <3>1, <3>2
    <3> QED
      BY <3>3, <3>4
  <2> QED
    BY <2>1, <2>2
<1> QED
  BY <1>5, <1>6

LEMMA NamedReplaces ==
    ASSUME IInv, TInv, NamedTypes, NEW f, Replaces(f), NothingFailed => NamedFrame(f)'
    PROVE  NamedTypes'
<1>1. /\ Touches(NoName) /\ UNCHANGED entries /\ stack # << >> /\ stack' = WithTop(f)
  BY DEF Replaces
<1>2. /\ Len(stack') = Len(stack) /\ stack'[1] = f
      /\ \A i \in 1 .. Len(stack) : i # 1 => stack'[i] = stack[i]
  BY <1>1, StackReplaced
<1>3. ASSUME NothingFailed, NEW i \in 1 .. Len(stack')
      PROVE  NamedFrame(stack[i])' \/ \E k \in 1 .. Len(stack) : stack'[i] = stack[k]
  <2>1. CASE i = 1
    BY <1>2, <1>3, <2>1
  <2>2. CASE i # 1
    BY <1>2, <2>2
  <2> QED
    BY <2>1, <2>2
<1> QED
  BY <1>1, <1>3, NoNameFacts, NamedAfter

LEMMA NamedEnters ==
    ASSUME IInv, TInv, NamedTypes, UNCHANGED program, NEW n, Enter(n)
    PROVE  NamedTypes'
<1>1. /\ n \in DOMAIN program /\ ~ IsResolved(n) /\ Touches(n)
      /\ SelfReferenceable(n) => arena'.decls[SlotOf(n)'].state = "resolving"
  BY EnterTypes
<1>2. PICK r : stack' = <<Frame(n, r)>> \o stack
  BY EnterTypes
<1>3. PICK f : f = Frame(n, r)
  OBVIOUS
<1>4. f.name = n /\ f.parts = << >> /\ f.at \in {0, 1} /\ stack' = <<f>> \o stack
  BY <1>2, <1>3 DEF Frame
<1>5. /\ Len(stack') = Len(stack) + 1 /\ stack'[1] = f
      /\ \A i \in 1 .. Len(stack) + 1 :
            i # 1 => i - 1 \in 1 .. Len(stack) /\ stack'[i] = stack[i - 1]
  BY <1>4, StackPushed
<1>6. NamedFrame(f)'
  <2>1. NamedFrame(f)
    BY <1>1, <1>4, FirstMember, TypedParts
  <2> QED
    BY <1>1, <2>1, NamesStay
<1>7. ~ Finished(n)'
  <2>1. HasReference(n)' => SelfReferenceable(n)
    BY DEF HasReference, SelfReferenceable
  <2> QED
    BY <1>1, <2>1 DEF Finished
<1>8. ASSUME NEW i \in 1 .. Len(stack')
      PROVE  NamedFrame(stack[i])' \/ \E k \in 1 .. Len(stack) : stack'[i] = stack[k]
  <2>1. CASE i = 1
    BY <1>5, <1>6, <2>1
  <2>2. CASE i # 1
    BY <1>5, <2>2
  <2> QED
    BY <2>1, <2>2
<1> QED
  BY <1>1, <1>7, <1>8, NamedAfter DEF HasReference

LEMMA NamedLeaves ==
    ASSUME IInv, TInv, NamedTypes, NEW n, n = Top.name, Touches(n), stack # << >>,
           stack' = Tail(stack),
           IsResolved(n) => entries'[n].resolved = entries[n].resolved,
           NothingFailed =>
              (n \in DOMAIN program /\ Finished(n)' =>
                  GivenTypes(n, Len(program[n].members) + 1, Bodied(n).properties)')
    PROVE  NamedTypes'
<1>1. /\ Len(stack') = Len(stack) - 1 /\ Top = stack[1] /\ 1 \in 1 .. Len(stack)
      /\ \A i \in 1 .. Len(stack) - 1 :
            i + 1 \in 1 .. Len(stack) /\ i + 1 # 1 /\ stack'[i] = stack[i + 1]
  BY StackPopped
<1>2. \A i \in 1 .. Len(stack') : \E k \in 1 .. Len(stack) : stack'[i] = stack[k]
  BY <1>1
<1>3. HasReference(n) => arena.decls[SlotOf(n)].state # "failed"
  BY <1>1 DEF TInv, Unfinished, HasReference
<1> QED
  BY <1>2, <1>3, NamedAfter

(* The ids of all the names a union is written with.                       *)
LEMMA PartsWritten ==
    ASSUME NEW member, member.of \in Seq(Atoms), IsUnionOfNames(member),
           NEW parts \in Seq(Ids(arena)), PartsOf(member, parts), ~ Len(parts) < Len(member.of)
    PROVE  HaveTypes(member) /\ ToSet(parts) = WrittenIds(member)
<1>1. /\ DOMAIN member.of = 1 .. Len(member.of) /\ Len(member.of) \in Nat
      /\ DOMAIN parts = 1 .. Len(parts) /\ Len(parts) \in Nat
  BY MembersAre
<1>2. \A k \in DOMAIN member.of : k \in DOMAIN parts /\ ~ member.of[k].array
  BY <1>1 DEF IsUnionOfNames
<1>3. DOMAIN parts = DOMAIN member.of
  BY <1>2 DEF PartsOf
<1>4. ASSUME NEW k \in DOMAIN member.of
      PROVE  /\ parts[k] = IF Declared(member.of[k].to) THEN entries[member.of[k].to].resolved
                           ELSE PrimitiveId(member.of[k].to)
             /\ IF Declared(member.of[k].to) THEN IsResolved(member.of[k].to)
                ELSE member.of[k].to \in PrimitiveNames
  BY <1>2, <1>4 DEF PartsOf, PartOf
<1>5. HaveTypes(member)
  BY <1>4 DEF HaveTypes
<1>6. ToSet(parts) \subseteq WrittenIds(member)
  BY <1>3, <1>4 DEF ToSet, WrittenIds
<1>7. WrittenIds(member) \subseteq ToSet(parts)
  BY <1>3, <1>4 DEF ToSet, WrittenIds
<1> QED
  BY <1>5, <1>6, <1>7

(* A finished member: the last of its name so far.                         *)
LEMMA MemberGiven ==
    ASSUME program \in Programs, program' = program, NEW n \in DOMAIN program,
           NEW at \in DOMAIN program[n].members, NEW properties, GivenTypes(n, at, properties)',
           NEW value, NEW member, member = program[n].members[at],
           TypeFor(member, value.type)'
    PROVE  GivenTypes(n, at + 1, With(properties, member.name, value))'
<1>1. DOMAIN program[n].members = 1 .. Len(program[n].members) /\ Len(program[n].members) \in Nat
  BY ProgramFacts DEF IsSeq
<1>2. PICK with : with = With(properties, member.name, value)
  OBVIOUS
<1> SUFFICES ASSUME NEW i \in DOMAIN program[n].members, i < at + 1, DecidingUpTo(n, i, at + 1)',
                    NEW m, m = program[n].members[i]
             PROVE  m.name \in DOMAIN with /\ TypeFor(m, with[m.name].type)'
  BY <1>2 DEF GivenTypes
<1>3. CASE i = at
  <2>1. m = member /\ m.name \in DOMAIN with /\ with[m.name] = value
    BY <1>2, <1>3 DEF With
  <2> QED
    BY <2>1
<1>4. CASE i # at
  <2>1. i < at /\ at < at + 1
    BY <1>1, <1>4
  <2>2. member.name # m.name
    BY <2>1 DEF DecidingUpTo
  <2>3. DecidingUpTo(n, i, at)'
    <3>1. \A j \in DOMAIN program[n].members : j < at => j < at + 1
      BY <1>1
    <3> QED
      BY <3>1 DEF DecidingUpTo
  <2>4. /\ m.name \in DOMAIN properties
        /\ TypeFor(m, properties[m.name].type)'
    BY <2>1, <2>3 DEF GivenTypes
  <2>5. m.name \in DOMAIN with /\ with[m.name] = properties[m.name]
    BY <1>2, <2>2, <2>4 DEF With
  <2> QED
    BY <2>4, <2>5
<1> QED
  BY <1>3, <1>4

LEMMA NextNamedTypes == IInv /\ TInv /\ NamedTypes /\ [Next]_vars => NamedTypes'
<1> SUFFICES ASSUME IInv, TInv, NamedTypes, [Next]_vars PROVE NamedTypes'
  OBVIOUS
<1>0. stack # << >> =>
         /\ Top = stack[1] /\ 1 \in 1 .. Len(stack) /\ Top.name \in DOMAIN program
         /\ NothingFailed => NamedFrame(Top)
         /\ Top.at = 0 => Top.parts = << >>
  BY TopIsFrame DEF NamedTypes, TInv, Unfinished, IInv, Shapes
<1>1. ASSUME NEW n \in Names, Request(n) PROVE NamedTypes'
  BY <1>1, NamedEnters DEF Request
<1>2. ASSUME AskParent \/ AskPart PROVE NamedTypes'
  BY <1>2, NamedEnters DEF AskParent, AskPart
<1>3. ASSUME Inherit \/ PassOver PROVE NamedTypes'
  <2>1. PICK f : Replaces(f) /\ f.at = 1 /\ f.parts = Top.parts
    BY <1>3, InheritEffect, PassOverEffect
  <2>2. stack # << >> /\ Top.at = 0
    BY <1>3 DEF Inherit, PassOver, Running, AtHeritage
  <2>3. f.parts = << >> /\ f.name \in DOMAIN program
    BY <1>0, <2>1, <2>2 DEF Replaces
  <2>4. NamedFrame(f)
    BY <2>1, <2>3, FirstMember, TypedParts
  <2>5. NamedFrame(f)'
    BY <2>1, <2>4, NoNameFacts, NamesStay DEF Replaces
  <2> QED
    BY <2>1, <2>5, NamedReplaces
<1>4. CASE AnswerPart
  <2>1. PICK f, id, part :
           /\ Replaces(f) /\ f.at = Top.at /\ f.parts = Append(Top.parts, id)
           /\ f.properties = Top.properties /\ part = Part /\ PartOf(part, id)'
           /\ id \in Ids(arena')
    BY <1>4, AnswerEffect
  <2>2. stack # << >> /\ AtPart
    BY <1>4 DEF AnswerPart, Running
  <2>3. /\ Touches(NoName) /\ program' = program /\ f.name = Top.name
        /\ \A m, at, properties : GivenTypes(m, at, properties) => GivenTypes(m, at, properties)'
    <3>1. Touches(NoName) /\ f.name = Top.name /\ entries' = entries
      BY <2>1 DEF Replaces
    <3>2. \A m, at, properties : GivenTypes(m, at, properties) => GivenTypes(m, at, properties)'
      BY <3>1, NamesStay
    <3> QED
      BY <3>1, <3>2 DEF Touches
  <2>4. ASSUME NothingFailed, SelfReferenceable(f.name)
        PROVE  GivenTypes(f.name, f.at, f.properties)'
    <3>1. GivenTypes(f.name, f.at, f.properties)
      BY <1>0, <2>1, <2>2, <2>3, <2>4 DEF NamedFrame
    <3> QED
      BY <2>3, <3>1
  <2>5. PICK parts, k, member : /\ parts = Top.parts /\ k = Len(Top.parts) + 1 /\ member = Member
    OBVIOUS
  <2>6. /\ parts \in Seq(Ids(arena)) /\ f.parts = Append(parts, id)
        /\ k \in DOMAIN member.of /\ part = member.of[k]
        /\ member = program[f.name].members[f.at] /\ f.at \in DOMAIN program[f.name].members
    <3>1. f.at \in DOMAIN program[f.name].members /\ member = program[f.name].members[f.at]
      BY <2>1, <2>2, <2>3, <2>5 DEF AtPart, AtMember, Member, TopDecl
    <3>2. f.name \in DOMAIN program /\ parts \in Seq(Ids(arena)) /\ program \in Programs
      BY <1>0, <2>2, <2>3, <2>5, TypedParts
    <3>3. member.of \in Seq(Atoms)
      BY <3>1, <3>2, MemberFacts
    <3>4. Len(parts) < Len(member.of) /\ Len(parts) \in Nat /\ Len(member.of) \in Nat
          /\ DOMAIN member.of = 1 .. Len(member.of)
      BY <2>2, <2>5, <3>2, <3>3, MembersAre DEF AtPart
    <3>5. part = member.of[k] /\ k \in DOMAIN member.of
      BY <2>1, <2>5, <3>4 DEF Part
    <3> QED
      BY <2>1, <2>5, <3>1, <3>2, <3>5
  <2>7. ASSUME NothingFailed PROVE PartsOf(member, f.parts)'
    <3>1. PartsOf(member, parts)
      BY <1>0, <2>1, <2>2, <2>3, <2>5, <2>6, <2>7 DEF NamedFrame
    <3>2. \A p, i : PartOf(p, i) => PartOf(p, i)'
      BY <2>1, <2>3, NamesStay DEF Replaces
    <3>3. PartsOf(member, parts)'
      BY <3>1, <3>2 DEF PartsOf
    <3>4. /\ DOMAIN f.parts = DOMAIN parts \cup {k} /\ f.parts[k] = id
          /\ \A j \in DOMAIN parts : f.parts[j] = parts[j]
      <4>1. /\ Len(parts) \in Nat /\ DOMAIN parts = 1 .. Len(parts) /\ k = Len(parts) + 1
            /\ id \in Ids(arena') /\ Ids(arena) \subseteq Ids(arena')
        <5>1. Len(parts) \in Nat /\ DOMAIN parts = 1 .. Len(parts)
          BY <2>6, MembersAre
        <5>2. k = Len(parts) + 1
          BY <2>5
        <5> QED
          BY <2>1, <2>3, <5>1, <5>2 DEF Touches
      <4>2. parts \in Seq(Ids(arena'))
        BY <2>6, <4>1, SeqMono
      <4> QED
        BY <2>6, <4>1, <4>2, AppendProperties, MembersAre
    <3>5. ASSUME NEW j \in DOMAIN f.parts
          PROVE  j \in DOMAIN member.of /\ PartOf(member.of[j], f.parts[j])'
      <4>1. CASE j = k
        BY <2>1, <2>6, <3>4, <4>1
      <4>2. CASE j # k
        BY <3>3, <3>4, <4>2 DEF PartsOf
      <4> QED
        BY <4>1, <4>2
    <3> QED
      BY <3>5 DEF PartsOf
  <2>8. NothingFailed => NamedFrame(f)'
    <3>1. SelfReferenceable(f.name)' <=> SelfReferenceable(f.name)
      BY <2>3 DEF SelfReferenceable
    <3>2. NothingFailed =>
             (SelfReferenceable(f.name)' => GivenTypes(f.name, f.at, f.properties)')
      BY <2>4, <3>1
    <3> QED
      BY <2>3, <2>6, <2>7, <3>2 DEF NamedFrame
  <2> QED
    BY <2>1, <2>8, NamedReplaces
<1>5. CASE CloseMember
  <2>1. PICK f, id, value :
           /\ Replaces(f) /\ f.at = Top.at + 1 /\ f.parts = << >> /\ value.type = id
           /\ f.properties = With(Top.properties, Member.name, value)
           /\ Len(Member.of) = 1 => id = Top.parts[1] /\ Top.parts # << >>
           /\ Len(Member.of) > 1 => Whole(arena', ToSet(Top.parts), id)
           /\ id \in Ids(arena')
    BY <1>5, CloseEffect
  <2>2. /\ stack # << >> /\ Top.at \in DOMAIN program[Top.name].members
        /\ SelfReferenceable(Top.name) /\ ~ Len(Top.parts) < Len(Member.of)
    BY <1>5 DEF CloseMember, Running, AtEndOfMember, AtPart, AtMember, TopDecl
  <2>3. Touches(NoName) /\ f.name = Top.name /\ entries' = entries /\ program' = program
    BY <2>1 DEF Replaces, Touches
  <2>4. /\ \A part, type : PartOf(part, type) => PartOf(part, type)'
        /\ \A m, at, properties : GivenTypes(m, at, properties) => GivenTypes(m, at, properties)'
    BY <2>3, NamesStay
  <2>5. PICK member, parts, n, at, properties :
           /\ member = Member /\ parts = Top.parts /\ n = Top.name /\ at = Top.at
           /\ properties = Top.properties
    OBVIOUS
  <2>6. /\ member = program[n].members[at] /\ at \in DOMAIN program[n].members
        /\ n \in DOMAIN program /\ program \in Programs
        /\ parts \in Seq(Ids(arena)) /\ member.of \in Seq(Atoms)
    <3>1. member = program[n].members[at] /\ at \in DOMAIN program[n].members
      BY <2>2, <2>5 DEF Member, TopDecl
    <3>2. n \in DOMAIN program /\ program \in Programs /\ parts \in Seq(Ids(arena))
      BY <1>0, <2>2, <2>5, TypedParts
    <3> QED
      BY <3>1, <3>2, MemberFacts
  <2>7. ASSUME NothingFailed
        PROVE  PartsOf(member, parts) /\ GivenTypes(n, at, properties)'
    <3>1. NamedFrame(Top)
      BY <1>0, <2>2, <2>7
    <3>2. PartsOf(member, parts) /\ GivenTypes(n, at, properties)
      BY <2>2, <2>5, <2>6, <3>1 DEF NamedFrame
    <3> QED
      BY <2>4, <3>2
  <2>8. ASSUME NothingFailed, Len(member.of) = 1 PROVE PartOf(member.of[1], value.type)'
    <3>1. id = parts[1] /\ parts # << >> /\ value.type = id
      BY <2>1, <2>5, <2>8
    <3>2. 1 \in DOMAIN parts
      BY <2>6, <3>1, MembersAre, EmptySeq
    <3>3. PICK part : part = member.of[1] /\ PartOf(part, id)
      BY <2>7, <2>8, <3>1, <3>2 DEF PartsOf
    <3>4. PartOf(part, id)'
      BY <2>4, <3>3
    <3> QED
      BY <3>1, <3>3, <3>4
  <2>9. ASSUME NothingFailed, IsUnionOfNames(member) PROVE UnionFor(member, value.type)'
    <3>1. HaveTypes(member) /\ ToSet(parts) = WrittenIds(member)
      BY <2>2, <2>5, <2>6, <2>7, <2>9, PartsWritten
    <3>2. HaveTypes(member)' /\ ToSet(parts) = WrittenIds(member)'
      BY <2>3, <3>1 DEF HaveTypes, WrittenIds, Declared, IsResolved
    <3>3. Whole(arena', ToSet(parts), id) /\ value.type = id /\ id \in Ids(arena')
      BY <2>1, <2>5, <2>9 DEF IsUnionOfNames
    <3> QED
      BY <3>2, <3>3 DEF UnionFor
  <2>10. ASSUME NothingFailed PROVE NamedFrame(f)'
    <3>1. TypeFor(member, value.type)'
      BY <2>8, <2>9, <2>10 DEF TypeFor, IsUnionOfNames
    <3>2. GivenTypes(n, at + 1, With(properties, member.name, value))'
      BY <2>3, <2>6, <2>7, <2>10, <3>1, MemberGiven
    <3>3. /\ f.name = n /\ f.at = at + 1 /\ f.parts = << >>
          /\ f.properties = With(properties, member.name, value)
      BY <2>1, <2>3, <2>5
    <3>4. GivenTypes(f.name, f.at, f.properties)'
      BY <3>2, <3>3
    <3>5. \A m : PartsOf(m, f.parts)'
      BY <3>3 DEF PartsOf
    <3> QED
      BY <2>3, <3>4, <3>5 DEF NamedFrame
  <2> QED
    BY <2>1, <2>10, NamedReplaces
<1>6. CASE Finish
  <2>1. PICK n : n = Top.name
    OBVIOUS
  <2>2. /\ n \in DOMAIN program /\ SelfReferenceable(n) /\ Touches(n)
        /\ UNCHANGED <<program, entries>>
        /\ stack # << >> /\ stack' = Tail(stack)
        /\ Top.at = Len(program[n].members) + 1
        /\ Bodied(n)' = ObjectNode(Top.properties)
    BY <1>6, <2>1, FinishTypes
  <2>3. ASSUME NothingFailed
        PROVE  GivenTypes(n, Len(program[n].members) + 1, Bodied(n).properties)'
    <3>1. PICK at, properties : at = Top.at /\ properties = Top.properties
      OBVIOUS
    <3>2. GivenTypes(n, at, properties)
      BY <1>0, <2>1, <2>2, <2>3, <3>1 DEF NamedFrame
    <3>3. GivenTypes(n, at, properties)'
      BY <2>2, <3>2, NamesStay
    <3>4. at = (Len(program[n].members) + 1)' /\ properties = Bodied(n).properties'
      BY <2>2, <3>1 DEF ObjectNode
    <3> QED
      BY <3>3, <3>4
  <2> QED
    BY <2>1, <2>2, <2>3, NamedLeaves
<1>7. CASE FinishAlias
  <2>1. PICK n : n = Top.name
    OBVIOUS
  <2>2. /\ n \in DOMAIN program /\ ~ SelfReferenceable(n) /\ Touches(n)
        /\ stack # << >> /\ stack' = Tail(stack) /\ program' = program
    BY <1>7, <2>1, FinishAliasTypes
  <2>3. ~ IsResolved(n) /\ ~ Finished(n)'
    <3>1. entries[n].resolved = NoType
      BY <1>0, <2>1, <2>2 DEF TInv, Unfinished
    <3> QED
      BY <2>2, <3>1 DEF IsResolved, Finished, HasReference, SelfReferenceable
  <2> QED
    BY <2>1, <2>2, <2>3, NamedLeaves
<1>8. CASE Fail
  <2>1. PICK n : n = Top.name
    OBVIOUS
  <2>2. /\ n \in DOMAIN program /\ Touches(n) /\ program' = program
        /\ stack # << >> /\ stack' = Tail(stack)
        /\ entries'[n].resolved = NoType
        /\ SelfReferenceable(n) => ~ NothingFailed'
    BY <1>8, <2>1, FailTypes
  <2>3. CASE SelfReferenceable(n)
    BY <2>2, <2>3 DEF NamedTypes
  <2>4. CASE ~ SelfReferenceable(n)
    <3>1. entries[n].resolved = NoType
      BY <1>0, <2>1, <2>2, <2>4 DEF TInv, Unfinished
    <3>2. ~ Finished(n)'
      BY <2>2 DEF Finished, HasReference, IsResolved
    <3> QED
      BY <2>1, <2>2, <3>1, <3>2, NamedLeaves
  <2> QED
    BY <2>3, <2>4
<1>9. CASE UNCHANGED vars
  <2>1. UNCHANGED <<program, arena, entries, stack>>
    BY <1>9 DEF vars
  <2>2. Touches(NoName)
    BY <2>1 DEF Touches, TInv, Typed
  <2>3. \A i \in 1 .. Len(stack') : \E k \in 1 .. Len(stack) : stack'[i] = stack[k]
    BY <2>1
  <2> QED
    BY <2>1, <2>2, <2>3, NoNameFacts, NamedAfter
<1> QED
  BY <1>1, <1>2, <1>3, <1>4, <1>5, <1>6, <1>7, <1>8, <1>9 DEF Next, Step

(* What a finished declaration reads as.                                   *)
LEMMA FinishedGets ==
    ASSUME IInv, TInv, NEW n, Finished(n)
    PROVE  Get(arena, entries[n].resolved) = Bodied(n) /\ Bodied(n).kind = "object"
<1>1. n \in DOMAIN program /\ HasReference(n) /\ arena.decls[SlotOf(n)].state = "resolved"
  BY DEF Finished, IsResolved, Declared, HasReference
<1>2. IsArenaRecord(arena) /\ WellFormed(arena)
  BY TypedParts DEF IInv, Shapes
<1>3. PICK id, slot : id = entries[n].resolved /\ slot = SlotOf(n)
  OBVIOUS
<1>4. id \in Ids(arena) /\ arena.types[id] = RefNode(slot)
  <2>1. id \in 1 .. Len(arena.types) /\ arena.types[id] = RefNode(slot)
    BY <1>1, <1>3 DEF IInv, OwnReferences
  <2>2. Ids(arena) = 1 .. Len(arena.types)
    BY <1>2, IdsAre
  <2> QED
    BY <2>1, <2>2
<1>5. arena.types[id].kind = "ref" /\ arena.types[id].slot = slot
  BY <1>4 DEF RefNode
<1>6. Get(arena, id) = arena.types[arena.decls[slot].body]
      /\ arena.types[arena.decls[slot].body].kind = "object"
  BY <1>1, <1>2, <1>3, <1>4, <1>5, GetFacts
<1> QED
  BY <1>3, <1>6 DEF Bodied

LEMMA FinishedReads ==
    ASSUME IInv, TInv, NEW n, IsFinishedObject(n)
    PROVE  Finished(n) /\ BodyOf(n) = Bodied(n)
<1>1. n \in DOMAIN program /\ HasReference(n)
  BY DEF IsFinishedObject, IsResolved, Declared, HasReference
<1>2. \A i \in 1 .. Len(stack) : stack[i].name # n
  <2>1. DOMAIN stack = 1 .. Len(stack)
    BY DEF IInv, Shapes, IsSeq
  <2> QED
    BY <2>1 DEF IsFinishedObject, OnStack
<1>3. Finished(n)
  BY <1>1, <1>2 DEF IInv, OthersFinished, Finished
<1> QED
  BY <1>3, FinishedGets DEF BodyOf

LEMMA AlwaysNamedTypes == Spec => []NamedTypes
<1>1. Init => NamedTypes
  BY InitNamedTypes
<1>2. IInv /\ TInv /\ NamedTypes /\ [Next]_vars => NamedTypes'
  BY NextNamedTypes
<1> QED
  BY <1>1, <1>2, AlwaysIInv, AlwaysTInv, PTL DEF Spec

LEMMA FinishedGives ==
    ASSUME IInv, TInv, NamedTypes, NothingFailed, NEW n \in DOMAIN program, IsFinishedObject(n),
           NEW i \in DOMAIN program[n].members, Deciding(n, i),
           NEW member, member = program[n].members[i]
    PROVE  TypeFor(member, BodyOf(n).properties[member.name].type)
<1>1. Finished(n) /\ BodyOf(n) = Bodied(n)
  BY FinishedReads
<1>2. GivenTypes(n, Len(program[n].members) + 1, Bodied(n).properties)
  BY <1>1 DEF NamedTypes
<1>3. i < Len(program[n].members) + 1
  BY TypedParts, ProgramFacts DEF IsSeq
<1>4. DecidingUpTo(n, i, Len(program[n].members) + 1)
  BY DEF Deciding, DecidingUpTo
<1> QED
  BY <1>1, <1>2, <1>3, <1>4 DEF GivenTypes

LEMMA NamedTypesSuffice ==
    ASSUME IInv, TInv, NamedTypes
    PROVE  MembersNameTheirTypes
<1>1. ASSUME NothingFailed, NEW n \in DOMAIN program, IsFinishedObject(n),
             NEW i \in DOMAIN program[n].members, Deciding(n, i),
             NEW member, member = program[n].members[i], Len(member.of) = 1,
             Declared(member.of[1].to), NEW type, type = BodyOf(n).properties[member.name].type
      PROVE  IF member.of[1].array
             THEN arena.types[type] = ArrayNode(entries[member.of[1].to].resolved)
             ELSE type = entries[member.of[1].to].resolved
  <2>1. PICK part : part = member.of[1]
    OBVIOUS
  <2>2. PartOf(part, type) /\ Declared(part.to)
    BY <1>1, <2>1, FinishedGives DEF TypeFor
  <2>3. /\ part.array => arena.types[type] = ArrayNode(entries[part.to].resolved)
        /\ ~ part.array => type = entries[part.to].resolved
    BY ONLY <2>2 DEF PartOf
  <2>4. CASE part.array
    BY ONLY <2>1, <2>3, <2>4
  <2>5. CASE ~ part.array
    BY ONLY <2>1, <2>3, <2>5
  <2> QED
    BY ONLY <2>4, <2>5
<1> QED
  BY <1>1, Zenon DEF MembersNameTheirTypes

LEMMA UnionsSuffice ==
    ASSUME IInv, TInv, NamedTypes
    PROVE  UnionsAreWhole
<1>1. IsTyped(arena) /\ IsReadable(arena)
  BY TypedParts, TypedIsReadable
<1>2. \A id \in Ids(arena) : arena.types[id].kind = "union" =>
         \A i \in DOMAIN arena.types[id].members :
            Get(arena, arena.types[id].members[i]).kind # "union"
  BY <1>1 DEF IsTyped, FlatIn, ReadFlat
<1>3. ASSUME NothingFailed, NEW n \in DOMAIN program, IsFinishedObject(n),
             NEW i \in DOMAIN program[n].members,
             NEW member, member = program[n].members[i],
             IsUnionOfNames(member), Deciding(n, i)
      PROVE  UnionIsWhole(member, BodyOf(n).properties[member.name].type)
  <2>1. PICK id, ids, written, held :
           /\ id = BodyOf(n).properties[member.name].type /\ ids = WrittenIds(member)
           /\ written = OpenedOf(arena, ids) /\ held = Opened(arena, id)
    OBVIOUS
  <2>2. HaveTypes(member) /\ id \in Ids(arena) /\ Whole(arena, ids, id)
    BY <1>3, <2>1, FinishedGives DEF TypeFor, UnionFor
  <2>3. ids \subseteq Ids(arena)
    BY <2>1, <2>2, WrittenAreIds
  <2>4. /\ \A w \in ids : Opened(arena, w) \subseteq Ids(arena)
        /\ held \subseteq Ids(arena)
    BY <1>1, <2>1, <2>2, <2>3, OpenedFacts
  <2>5. written \subseteq Ids(arena)
    BY <2>1, <2>4 DEF OpenedOf
  <2>6. written = UNION {MembersOfUnion(w) : w \in ids} /\ held = MembersOfUnion(id)
    BY <2>1 DEF OpenedOf, Opened, MembersOfUnion
  <2>7. \A v, w \in Ids(arena) : Same(arena, v, w) => StructurallyEqual(arena, v, w)
    BY <1>1, EqualFacts DEF Same
  <2>8. (\A v, w \in written : ToldApart(v, w)) => HoldsAll(arena, written, held)
    BY <2>1, <2>2 DEF Whole, AllApart, Apart, ToldApart
  <2>9. HoldsAll(arena, written, held) =>
           /\ \A w \in written : Get(arena, w) # PrimitiveNode("never") =>
                 \E m \in held : StructurallyEqual(arena, w, m)
           /\ \A m \in held : \E w \in written : StructurallyEqual(arena, w, m)
    BY <2>4, <2>5, <2>7 DEF HoldsAll
  <2> QED
    BY <2>1, <2>6, <2>8, <2>9 DEF UnionIsWhole
<1> QED
  BY <1>2, <1>3 DEF UnionsAreWhole

(* A member that mentions one declaration has that declaration's own id,   *)
(* through recursion too, as long as nothing failed.                       *)
THEOREM MembersGetTheirTypes == Spec => []MembersNameTheirTypes
<1>1. IInv /\ TInv /\ NamedTypes => MembersNameTheirTypes
  BY NamedTypesSuffice
<1> QED
  BY <1>1, AlwaysIInv, AlwaysTInv, AlwaysNamedTypes, PTL

(* A union of names has every member it was written with and no other,     *)
(* whatever else has its digest, as long as nothing failed and its members *)
(* can be told apart when it is made; no union has a union as a member.    *)
THEOREM UnionsStayWhole == Spec => []UnionsAreWhole
<1>1. IInv /\ TInv /\ NamedTypes => UnionsAreWhole
  BY UnionsSuffice
<1> QED
  BY <1>1, AlwaysIInv, AlwaysTInv, AlwaysNamedTypes, PTL

(* Every type of the arena is found behind finitely many wrappers, which   *)
(* is all that the walks of the relations take for granted.                *)
THEOREM ArenaStaysReadable == Spec => []IsReadable(arena)
<1>1. TInv => IsReadable(arena)
  BY TypedParts, TypedIsReadable
<1> QED
  BY <1>1, AlwaysTInv, PTL

(* At every moment, whatever is unfinished or has failed: a value of a     *)
(* type is one of every type that is_subtype says the type can be used as, *)
(* and of none that is_disjoint says it is apart from.                     *)
THEOREM RelationsStaySound == Spec => [](SubtypesAreIncluded(arena) /\ DisjointAreApart(arena))
<1>1. TInv => IsReadable(arena) /\ IsGrounded(arena)
  BY TypedParts, TypedIsReadable, TypedIsGrounded
<1>2. IsReadable(arena) /\ IsGrounded(arena) => SubtypesAreIncluded(arena)
  BY SubtypesAreSubsets DEF SubtypesAreIncluded
<1>3. IsReadable(arena) /\ IsGrounded(arena) => DisjointAreApart(arena)
  BY DisjointShareNothing DEF DisjointAreApart
<1> QED
  BY <1>1, <1>2, <1>3, AlwaysTInv, PTL

(* What an id reads as changes with the bodies of declarations alone.      *)
LEMMA ReadsKept ==
    ASSUME NEW a, WellFormed(a), NEW b, WellFormed(b),
           Ids(a) \subseteq Ids(b), \A i \in Ids(a) : b.types[i] = a.types[i],
           \A slot \in Slots(a) :
              \/ b.decls[slot] = a.decls[slot]
              \/ b.decls[slot].state # "resolved" /\ a.decls[slot].state # "resolved"
    PROVE  ReadsAlike(a, b)
<1> DEFINE Bad == {id \in Ids(a) : Get(b, id) # Get(a, id)}
<1>1. SUFFICES ASSUME Bad # {} PROVE FALSE
  BY DEF ReadsAlike
<1>2. PICK id \in Bad : \A j \in Bad : id <= j
  <2>1. Bad \subseteq Nat
    BY DEF WellFormed, IsArenaRecord, IsSeq, Ids
  <2> HIDE DEF Bad
  <2> QED
    BY <1>1, <2>1, LeastNumber
<1>3. id \in Ids(a) /\ id \in Ids(b) /\ b.types[id] = a.types[id] /\ Get(b, id) # Get(a, id)
  BY <1>2
<1>4. CASE a.types[id].kind = "ref"
  <2>1. PICK slot : slot = a.types[id].slot
    OBVIOUS
  <2>2. slot \in Slots(a)
    BY <1>3, <1>4, <2>1, NodeFields DEF WellFormed, IsArena
  <2>3. CASE a.decls[slot].state = "resolved"
    <3>1. b.decls[slot] = a.decls[slot]
      BY <2>2, <2>3
    <3>2. PICK body : body = a.decls[slot].body
      OBVIOUS
    <3>3. body \in Ids(a) /\ Get(a, id) = a.types[body]
      BY <1>3, <1>4, <2>1, <2>3, <3>2, GetFacts
    <3>4. /\ b.types[id].kind = "ref" /\ slot = b.types[id].slot
          /\ b.decls[slot].state = "resolved" /\ body = b.decls[slot].body
      BY <1>3, <1>4, <2>1, <2>3, <3>1, <3>2
    <3>5. Get(b, id) = b.types[body]
      BY <1>3, <3>4, GetFacts
    <3> QED
      BY <1>3, <3>3, <3>5
  <2>4. CASE a.decls[slot].state # "resolved"
    <3>1. b.decls[slot].state # "resolved"
      BY <2>2, <2>4
    <3>2. Behind(a, id) = id
      BY <1>3, <1>4, <2>1, <2>4, BehindFacts DEF Inner
    <3>3. Behind(b, id) = id
      BY <1>3, <1>4, <2>1, <3>1, BehindFacts DEF Inner
    <3> QED
      BY <1>3, <3>2, <3>3 DEF Get
  <2> QED
    BY <2>3, <2>4
<1>5. CASE a.types[id].kind = "named"
  <2>1. PICK inner : inner = a.types[id].inner
    OBVIOUS
  <2>2. inner \in Ids(a) /\ inner < id /\ Get(a, id) = Get(a, inner) /\ Get(b, id) = Get(b, inner)
    BY <1>3, <1>5, <2>1, ReadsTypes
  <2>3. id \in Nat /\ inner \in Nat
    BY <1>3, <2>2 DEF WellFormed, IsArenaRecord, IsSeq, Ids
  <2>4. inner \notin Bad
    <3> HIDE DEF Bad
    <3> QED
      BY <1>2, <2>2, <2>3
  <2> QED
    BY <1>3, <2>2, <2>4
<1>6. CASE a.types[id].kind \notin {"ref", "named"}
  BY <1>3, <1>6, ReadsTypes
<1> QED
  BY <1>4, <1>5, <1>6

(* No step touches a declaration that has its body.                        *)
LEMMA StepTouches ==
    ASSUME IInv, TInv, [Next]_vars
    PROVE  \E n : Touches(n) /\ ~ Finished(n)
<1>0. stack # << >> =>
         /\ Top = stack[1] /\ 1 \in 1 .. Len(stack) /\ Top.name \in DOMAIN program
  BY TopIsFrame DEF IInv, Shapes
<1>1. ~ Finished(NoName)
  BY NoNameFacts DEF Finished
<1>2. stack # << >> => ~ Finished(Top.name)
  BY <1>0 DEF TInv, Unfinished, Finished, HasReference
<1>3. ASSUME NEW n, Enter(n), UNCHANGED program PROVE Touches(n) /\ ~ Finished(n)
  BY <1>3, EnterTypes DEF Finished, HasReference
<1>4. ASSUME NEW n \in Names, Request(n) PROVE \E m : Touches(m) /\ ~ Finished(m)
  BY <1>3, <1>4 DEF Request
<1>5. CASE AskParent
  BY <1>3, <1>5 DEF AskParent
<1>6. CASE AskPart
  BY <1>3, <1>6 DEF AskPart
<1>7. CASE Inherit
  BY <1>1, <1>7, InheritEffect DEF Replaces
<1>8. CASE PassOver
  BY <1>1, <1>8, PassOverEffect DEF Replaces
<1>9. CASE AnswerPart
  BY <1>1, <1>9, AnswerEffect DEF Replaces
<1>10. CASE CloseMember
  BY <1>1, <1>10, CloseEffect DEF Replaces
<1>11. PICK top : top = Top.name
  OBVIOUS
<1>12. CASE Finish
  BY <1>2, <1>11, <1>12, FinishTypes
<1>13. CASE FinishAlias
  BY <1>2, <1>11, <1>13, FinishAliasTypes
<1>14. CASE Fail
  BY <1>2, <1>11, <1>14, FailTypes
<1>15. CASE UNCHANGED vars
  <2>1. UNCHANGED <<program, arena, entries>>
    BY <1>15 DEF vars
  <2> QED
    BY <1>1, <2>1 DEF Touches, TInv, Typed
<1> QED
  BY <1>4, <1>5, <1>6, <1>7, <1>8, <1>9, <1>10, <1>12, <1>13, <1>14, <1>15 DEF Next, Step

(* A step in which no reference of the arena gets a body.                  *)
NoneResolved ==
    \A slot \in Slots(arena) :
        arena'.decls[slot].state = "resolved" => arena.decls[slot].state = "resolved"

AnswersKept ==
    \A a, b \in Ids(arena) :
        /\ Subtype(arena', a, b) <=> Subtype(arena, a, b)
        /\ Disjoint(arena', a, b) <=> Disjoint(arena, a, b)
        /\ ReducesToNever(arena', a) <=> ReducesToNever(arena, a)

(* What the generation of the arena is for (queries.rs, prepare; arena.rs, *)
(* resolve_ref): a remembered answer goes stale only in a step that gives  *)
(* a reference its body.  New types, new references, new unions and failed *)
(* declarations make no answer wrong.                                      *)
THEOREM AnswersGoStaleByBodies == Spec => [][NoneResolved => AnswersKept]_vars
<1>1. ASSUME IInv, TInv, [Next]_vars, NoneResolved PROVE AnswersKept
  <2>1. PICK n : Touches(n) /\ ~ Finished(n)
    BY <1>1, StepTouches
  <2>2. IsTyped(arena) /\ IsTyped(arena')
    BY <1>1, <2>1, TypedParts DEF Touches
  <2>3. \A slot \in Slots(arena) :
           \/ arena'.decls[slot] = arena.decls[slot]
           \/ arena'.decls[slot].state # "resolved" /\ arena.decls[slot].state # "resolved"
    BY <1>1, <2>1 DEF Touches, Finished, NoneResolved
  <2>4. ReadsAlike(arena, arena')
    BY <2>1, <2>2, <2>3, ReadsKept DEF Touches, IsTyped
  <2>5. IsReadable(arena) /\ IsReadable(arena') /\ IsGrounded(arena)
    BY <2>2, TypedIsReadable, TypedIsGrounded
  <2> QED
    BY <2>4, <2>5, AnswersOutlive DEF AnswersKept
<1> QED
  BY <1>1, AlwaysIInv, AlwaysTInv, PTL DEF Spec

-----------------------------------------------------------------------------
(* Inheritance.  A class has what its finished parent has, unless the      *)
(* parent is no sound class or cannot be resolved without the class: of    *)
(* the declarations being resolved, each asks its way to those above it,   *)
(* so a parent that is on the stack leads back to its child, and so does   *)
(* one that fails though it is sound.                                      *)

Exempt(n) ==
    LET parent == program[n].extends
    IN  Declared(parent) =>
           \/ ~ IsSound(parent) \/ ~ SelfReferenceable(parent)
           \/ n \in Reachable(AskGraph)[parent]

Own(n) == {program[n].members[i].name : i \in DOMAIN program[n].members}

HasParents(n, properties) ==
    LET parent == program[n].extends
    IN  /\ Finished(parent)
        /\ \A name \in DOMAIN Bodied(parent).properties \ Own(n) :
              /\ name \in DOMAIN properties
              /\ properties[name] = Bodied(parent).properties[name]

InheritedBy(n, properties) ==
    program[n].kind = "class" => Exempt(n) \/ HasParents(n, properties)

InheritedFrame(f) == f.at # 0 => InheritedBy(f.name, f.properties)

Inherited ==
    /\ \A i \in 1 .. Len(stack) : InheritedFrame(stack[i])
    /\ \A n \in DOMAIN program : Finished(n) => InheritedBy(n, Bodied(n).properties)

Asks ==
    \A i, k \in 1 .. Len(stack) :
       i <= k => stack[i].name \in Reachable(AskGraph)[stack[k].name]

Asked ==
    \A i, k \in 1 .. Len(stack) :
       k = i + 1 /\ stack[k].at = 0 => stack[i].name = program[stack[k].name].extends

IsFirstHeritage(k) == stack[k].at = 0 /\ \A j \in 1 .. Len(stack) : j < k => stack[j].at # 0

FailsBelow ==
    failing => \A k \in 1 .. Len(stack) : IsFirstHeritage(k) => Exempt(stack[k].name)

HInv == Asks /\ Asked /\ FailsBelow /\ Inherited

LEMMA AskFacts ==
    LET R == Reachable(AskGraph)
    IN  /\ \A n \in DOMAIN program : n \in R[n] /\ R[n] \subseteq DOMAIN program
        /\ \A n \in DOMAIN program : \A m \in R[n] :
              /\ Mentioned(m) \cap DOMAIN program \subseteq R[n]
              /\ program[m].extends \in DOMAIN program => program[m].extends \in R[n]
              /\ R[m] \subseteq R[n]
<1> DEFINE R == Reachable(AskGraph)
<1>1. /\ Nodes(AskGraph) = DOMAIN program
      /\ AskGraph \in [Nodes(AskGraph) -> SUBSET Nodes(AskGraph)]
      /\ \A m \in DOMAIN program :
            AskGraph[m] = (Mentioned(m) \cup {program[m].extends}) \cap DOMAIN program
  BY DEF AskGraph, Nodes
<1>2. /\ R \in [DOMAIN program -> SUBSET DOMAIN program]
      /\ \A m \in DOMAIN program : m \in R[m]
      /\ \A m \in DOMAIN program : \A n \in R[m] :
            AskGraph[n] \subseteq R[m] /\ R[n] \subseteq R[m]
  BY <1>1, ReachableFacts
<1> HIDE DEF R
<1>3. \A n \in DOMAIN program : n \in R[n] /\ R[n] \subseteq DOMAIN program
  BY <1>2
<1>4. \A n \in DOMAIN program : \A m \in R[n] :
         /\ Mentioned(m) \cap DOMAIN program \subseteq R[n]
         /\ program[m].extends \in DOMAIN program => program[m].extends \in R[n]
         /\ R[m] \subseteq R[n]
  BY <1>1, <1>2
<1> QED
  BY <1>3, <1>4 DEF R

(* Who is exempt depends on the program alone, and what a class has of its *)
(* parent stays as long as the parent is finished.                         *)
LEMMA ExemptStays ==
    ASSUME UNCHANGED program
    PROVE  /\ AskGraph' = AskGraph
           /\ \A n : Exempt(n)' <=> Exempt(n)
           /\ \A n : Own(n)' = Own(n)
<1>1. AskGraph' = AskGraph
  BY SoundStays DEF AskGraph
<1>2. \A n : SelfReferenceable(n)' <=> SelfReferenceable(n)
  BY DEF SelfReferenceable
<1>3. \A n : Exempt(n)' <=> Exempt(n)
  BY <1>1, <1>2, SoundStays DEF Exempt
<1>4. \A n : Own(n)' = Own(n)
  BY DEF Own
<1> QED
  BY <1>1, <1>3, <1>4

LEMMA InheritedStays ==
    ASSUME IInv, TInv, NEW n, Touches(n), ~ Finished(n)
    PROVE  /\ \A m, properties : InheritedBy(m, properties) => InheritedBy(m, properties)'
           /\ \A f : InheritedFrame(f) => InheritedFrame(f)'
<1>1. program' = program
  BY DEF Touches
<1>2. ASSUME NEW m, NEW properties, HasParents(m, properties)
      PROVE  HasParents(m, properties)'
  <2>1. PICK parent : parent = program[m].extends
    OBVIOUS
  <2>2. /\ Finished(parent)
        /\ \A name \in DOMAIN Bodied(parent).properties \ Own(m) :
              /\ name \in DOMAIN properties
              /\ properties[name] = Bodied(parent).properties[name]
    BY <1>2, <2>1 DEF HasParents
  <2>3. parent \in DOMAIN program /\ parent # n
    BY <2>2 DEF Finished, HasReference, IsResolved, Declared
  <2>4. Finished(parent)' /\ Bodied(parent)' = Bodied(parent)
    BY <2>2, <2>3, OthersStay
  <2>5. parent = program'[m].extends /\ Own(m)' = Own(m)
    BY <1>1, <2>1, ExemptStays
  <2> QED
    BY <2>2, <2>4, <2>5 DEF HasParents
<1>3. ASSUME NEW m, NEW properties, InheritedBy(m, properties)
      PROVE  InheritedBy(m, properties)'
  BY <1>1, <1>2, <1>3, ExemptStays DEF InheritedBy
<1> QED
  BY <1>3 DEF InheritedFrame

LEMMA InheritedAfter ==
    ASSUME IInv, TInv, Inherited, NEW n, Touches(n), ~ Finished(n),
           \A i \in 1 .. Len(stack') :
              \/ InheritedFrame(stack[i])'
              \/ \E k \in 1 .. Len(stack) : stack'[i] = stack[k],
           n \in DOMAIN program /\ Finished(n)' => InheritedBy(n, Bodied(n).properties)'
    PROVE  Inherited'
<1>1. program' = program
  BY DEF Touches
<1>2. /\ \A m, properties : InheritedBy(m, properties) => InheritedBy(m, properties)'
      /\ \A f : InheritedFrame(f) => InheritedFrame(f)'
  BY InheritedStays
<1>3. ASSUME NEW i \in 1 .. Len(stack') PROVE InheritedFrame(stack[i])'
  <2>1. PICK g : g = stack'[i]
    OBVIOUS
  <2>2. InheritedFrame(g)'
    <3>1. CASE InheritedFrame(stack[i])'
      BY <2>1, <3>1
    <3>2. CASE \E k \in 1 .. Len(stack) : stack'[i] = stack[k]
      <4>1. PICK k \in 1 .. Len(stack) : g = stack[k]
        BY <2>1, <3>2
      <4>2. InheritedFrame(g)
        BY <4>1 DEF Inherited
      <4> QED
        BY <1>2, <4>2
    <3> QED
      BY <3>1, <3>2
  <2> QED
    BY <2>1, <2>2
<1>4. ASSUME NEW m \in DOMAIN program, Finished(m)'
      PROVE  InheritedBy(m, Bodied(m).properties)'
  <2>1. CASE m = n
    BY <1>4, <2>1
  <2>2. CASE m # n
    <3>1. Finished(m) /\ Bodied(m)' = Bodied(m)
      BY <1>4, <2>2, OthersStay
    <3>2. PICK properties : properties = Bodied(m).properties
      OBVIOUS
    <3>3. InheritedBy(m, properties)
      BY <3>1, <3>2 DEF Inherited
    <3>4. InheritedBy(m, properties)' /\ properties = Bodied(m).properties'
      BY <1>2, <3>1, <3>2, <3>3
    <3> QED
      BY <3>4
  <2> QED
    BY <2>1, <2>2
<1> QED
  BY <1>1, <1>3, <1>4 DEF Inherited

(* What a step does to who asks for whom.                                  *)
LEMMA AsksReplaces ==
    ASSUME IInv, Asks, Asked, NEW f, Replaces(f)
    PROVE  Asks' /\ Asked'
<1>1. program' = program /\ stack # << >> /\ stack' = WithTop(f) /\ f.name = Top.name /\ f.at # 0
  BY DEF Replaces, Touches
<1>2. /\ Len(stack') = Len(stack) /\ stack'[1] = f /\ stack[1] = Top
      /\ \A i \in 1 .. Len(stack) : i # 1 => stack'[i] = stack[i]
  BY <1>1, StackReplaced
<1>3. \A i \in 1 .. Len(stack) :
         stack'[i].name = stack[i].name /\ (stack'[i].at = 0 => stack[i].at = 0)
  <2> TAKE i \in 1 .. Len(stack)
  <2>1. CASE i = 1
    BY <1>1, <1>2, <2>1
  <2>2. CASE i # 1
    BY <1>2, <2>2
  <2> QED
    BY <2>1, <2>2
<1>4. Asks'
  BY <1>1, <1>2, <1>3, ExemptStays DEF Asks
<1>5. Asked'
  BY <1>1, <1>2, <1>3 DEF Asked
<1> QED
  BY <1>4, <1>5

LEMMA AsksLeaves ==
    ASSUME IInv, Asks, Asked, UNCHANGED program, stack # << >>, stack' = Tail(stack)
    PROVE  Asks' /\ Asked'
<1>1. /\ Len(stack') = Len(stack) - 1 /\ Len(stack) \in Nat
      /\ \A i \in 1 .. Len(stack) - 1 :
            i + 1 \in 1 .. Len(stack) /\ stack'[i] = stack[i + 1]
  BY StackPopped
<1>2. Asks'
  <2> SUFFICES ASSUME NEW i \in 1 .. Len(stack'), NEW k \in 1 .. Len(stack'), i <= k
               PROVE  stack'[i].name \in Reachable(AskGraph)[stack'[k].name]
    BY ExemptStays DEF Asks
  <2>1. i + 1 <= k + 1
    BY <1>1
  <2> QED
    BY <1>1, <2>1 DEF Asks
<1>3. Asked'
  <2> SUFFICES ASSUME NEW i \in 1 .. Len(stack'), NEW k \in 1 .. Len(stack'), k = i + 1,
                      stack'[k].at = 0
               PROVE  stack'[i].name = program[stack'[k].name].extends
    BY DEF Asked
  <2>1. k + 1 = (i + 1) + 1
    OBVIOUS
  <2> QED
    BY <1>1, <2>1 DEF Asked
<1> QED
  BY <1>2, <1>3

LEMMA AsksEnters ==
    ASSUME IInv, Asks, Asked, UNCHANGED program, NEW n \in DOMAIN program,
           NEW f, f.name = n, stack' = <<f>> \o stack,
           stack # << >> =>
              /\ n \in Mentioned(Top.name) \cup {program[Top.name].extends}
              /\ Top.at = 0 => n = program[Top.name].extends
    PROVE  Asks' /\ Asked'
<1> DEFINE R == Reachable(AskGraph)
<1>1. /\ Len(stack') = Len(stack) + 1 /\ Len(stack) \in Nat /\ stack'[1] = f
      /\ stack # << >> => Top = stack[1] /\ 1 \in 1 .. Len(stack)
      /\ stack = << >> => Len(stack) = 0
      /\ \A i \in 1 .. Len(stack) + 1 :
            i # 1 => i - 1 \in 1 .. Len(stack) /\ stack'[i] = stack[i - 1]
  BY StackPushed
<1>2. \A i \in 1 .. Len(stack) : stack[i].name \in DOMAIN program
  BY DEF IInv, Shapes
<1>3. Asks'
  <2> SUFFICES ASSUME NEW i \in 1 .. Len(stack'), NEW k \in 1 .. Len(stack'), i <= k
               PROVE  stack'[i].name \in R[stack'[k].name]
    BY ExemptStays DEF Asks
  <2>1. CASE k = 1
    <3>1. i = 1 /\ n \in R[n]
      BY <2>1, <1>1, AskFacts
    <3> QED
      BY <1>1, <2>1, <3>1
  <2>2. CASE k # 1
    <3>1. k - 1 \in 1 .. Len(stack) /\ stack'[k] = stack[k - 1]
      BY <1>1, <2>2
    <3>2. CASE i = 1
      <4>1. stack # << >> /\ Top = stack[1] /\ 1 \in 1 .. Len(stack) /\ 1 <= k - 1
        BY <1>1, <3>1
      <4>2. stack[1].name \in R[stack[k - 1].name]
        BY <3>1, <4>1 DEF Asks
      <4>3. n \in R[stack[k - 1].name]
        BY <1>2, <3>1, <4>1, <4>2, AskFacts
      <4> QED
        BY <1>1, <3>1, <3>2, <4>3
    <3>3. CASE i # 1
      <4>1. i - 1 \in 1 .. Len(stack) /\ stack'[i] = stack[i - 1] /\ i - 1 <= k - 1
        BY <1>1, <3>1, <3>3
      <4> QED
        BY <3>1, <4>1 DEF Asks
    <3> QED
      BY <3>2, <3>3
  <2> QED
    BY <2>1, <2>2
<1>4. Asked'
  <2> SUFFICES ASSUME NEW i \in 1 .. Len(stack'), NEW k \in 1 .. Len(stack'), k = i + 1,
                      stack'[k].at = 0
               PROVE  stack'[i].name = program[stack'[k].name].extends
    BY DEF Asked
  <2>1. k # 1 /\ k - 1 \in 1 .. Len(stack) /\ stack'[k] = stack[k - 1]
    BY <1>1
  <2>2. CASE i = 1
    BY <1>1, <2>1, <2>2
  <2>3. CASE i # 1
    <3>1. i - 1 \in 1 .. Len(stack) /\ stack'[i] = stack[i - 1] /\ k - 1 = (i - 1) + 1
      BY <1>1, <2>3
    <3> QED
      BY <2>1, <3>1 DEF Asked
  <2> QED
    BY <2>2, <2>3
<1> QED
  BY <1>3, <1>4

(* What fails by itself under a class that looks for its parent: either    *)
(* the parent is unsound, or it leads back to the class.                   *)
LEMMA TopFailsBelow ==
    ASSUME IInv, SInv, Asks, Asked, stack # << >>,
           CannotAnswer \/ (AtEndOfMember /\ IsDuplicate), Top.at # 0,
           NEW k \in 1 .. Len(stack), IsFirstHeritage(k)
    PROVE  Exempt(stack[k].name)
<1> DEFINE n == Top.name
           R == Reachable(MentionGraph)
           A == Reachable(AskGraph)
<1>1. n \in DOMAIN program /\ Top = stack[1] /\ 1 \in 1 .. Len(stack) /\ Len(stack) \in Nat
  BY TopIsFrame DEF IInv, Shapes, IsSeq
<1>2. k # 1 /\ k - 1 \in 1 .. Len(stack) /\ 1 <= k - 1 /\ k = (k - 1) + 1
  BY <1>1 DEF IsFirstHeritage
<1>3. PICK parent : parent = program[stack[k].name].extends
  OBVIOUS
<1>4. stack[k - 1].name = parent /\ parent \in DOMAIN program /\ stack[k].name \in DOMAIN program
  BY <1>2, <1>3 DEF Asked, IsFirstHeritage, IInv, Shapes
<1>5. \A i \in 1 .. k - 1 : n \in R[stack[i].name]
  <2> TAKE i \in 1 .. k - 1
  <2>1. i \in 1 .. Len(stack) /\ 1 <= i
    BY <1>1
  <2>2. \A j \in 1 + 1 .. i : j \in 1 .. Len(stack) /\ j < k
    BY <1>1
  <2>3. \A j \in 1 + 1 .. i : stack[j].at # 0
    BY <2>2 DEF IsFirstHeritage
  <2> QED
    BY <1>1, <2>1, <2>3 DEF SInv, Paths
<1>6. n \in R[parent] /\ n \in R[n]
  BY <1>1, <1>2, <1>4, <1>5, MentionFacts
<1> SUFFICES ASSUME IsSound(parent)
             PROVE  stack[k].name \in A[parent]
  BY <1>3 DEF Exempt
<1>7. IsSound(n)
  BY <1>4, <1>6, MentionFacts
<1>8. CannotAnswer
  <2> SUFFICES ASSUME AtEndOfMember, IsDuplicate PROVE FALSE
    OBVIOUS
  <2>1. /\ Top.at \in DOMAIN TopDecl.members /\ TopDecl.kind # "class"
        /\ Member.name \in DOMAIN Top.properties
    BY DEF AtEndOfMember, AtMember, IsDuplicate
  <2>2. PICK j \in DOMAIN TopDecl.members : j < Top.at /\ TopDecl.members[j].name = Member.name
    BY <1>1, <2>1 DEF SInv, Collected, TopDecl
  <2>3. j # Top.at
    BY <1>1, <2>1, <2>2, ProgramFacts DEF SInv, TopDecl
  <2>4. HasDuplicate(n)
    BY <2>1, <2>2, <2>3 DEF HasDuplicate, TopDecl, Member
  <2> QED
    BY <1>6, <1>7, <2>4 DEF IsSound
<1>9. Part.to \in Mentioned(n)
  BY <1>8, PartIsMentioned DEF CannotAnswer
<1>10. Part.to \in DOMAIN program \cup PrimitiveNames
  BY <1>6, <1>7, <1>9 DEF IsSound
<1>11. IsResolving(Part.to)
  <2> SUFFICES ASSUME Part.to = Unsupported \/ (Part.to \in Names /\ ~ Declared(Part.to))
               PROVE  FALSE
    BY <1>8 DEF CannotAnswer
  <2>1. Part.to \notin DOMAIN program
    BY ProgramFacts DEF SInv, Declared
  <2>2. Part.to \notin PrimitiveNames
    BY NamesAssumption DEF PrimitiveNames, Primitives, Unsupported
  <2> QED
    BY <1>10, <2>1, <2>2
<1>12. Part.to \in DOMAIN program /\ entries[Part.to].resolving
  BY <1>11 DEF IsResolving, Declared
<1>13. PICK i \in 1 .. Len(stack) : stack[i].name = Part.to
  BY <1>12 DEF IInv, OthersFinished
<1>14. ~ SelfReferenceable(Part.to)
  BY <1>12, <1>13 DEF IInv, Entered
<1>15. CASE i <= k - 1
  <2>1. n \in R[Part.to]
    BY <1>1, <1>5, <1>13, <1>15
  <2>2. Part.to \in OnCycle(MentionGraph)
    BY <1>1, <1>9, <1>12, <2>1, CyclesFacts
  <2>3. Part.to \in R[n]
    BY <1>1, <1>6, <1>9, <1>12, MentionFacts
  <2> QED
    BY <1>7, <1>14, <2>2, <2>3 DEF IsSound
<1>16. CASE k <= i
  <2>1. stack[k].name \in A[Part.to]
    BY <1>13, <1>16 DEF Asks
  <2>2. n \in A[parent]
    BY <1>1, <1>2, <1>4 DEF Asks
  <2>3. Part.to \in A[parent]
    BY <1>4, <1>9, <1>12, <2>2, AskFacts
  <2> QED
    BY <1>4, <2>1, <2>3, AskFacts
<1>17. i <= k - 1 \/ k <= i
  BY <1>1, <1>2
<1> QED
  BY <1>15, <1>16, <1>17

(* A parent that is asked, and neither unsound, nor an alias, nor leading  *)
(* back to its child, is finished when its child copies it.                *)
LEMMA ParentIsFinished ==
    ASSUME IInv, Asks, stack # << >>, NEW parent \in DOMAIN program, ~ IsUntouched(parent),
           SelfReferenceable(parent), Top.name \notin Reachable(AskGraph)[parent]
    PROVE  Finished(parent)
<1>1. Top = stack[1] /\ 1 \in 1 .. Len(stack)
  BY TopIsFrame
<1>2. ASSUME NEW i \in 1 .. Len(stack) PROVE stack[i].name # parent
  <2>1. 1 <= i
    OBVIOUS
  <2>2. Top.name \in Reachable(AskGraph)[stack[i].name]
    BY <1>1, <2>1 DEF Asks
  <2> QED
    BY <2>2
<1>3. ~ entries[parent].resolving /\ (HasReference(parent) => arena.decls[SlotOf(parent)].state = "resolved")
  BY <1>2 DEF IInv, OthersFinished
<1>4. IsResolved(parent)
  BY <1>3 DEF IsUntouched, Declared
<1> QED
  BY <1>3, <1>4 DEF Finished, HasReference

LEMMA InitHInv == Init => HInv
<1> SUFFICES ASSUME Init PROVE HInv
  OBVIOUS
<1>1. Len(stack) = 0 /\ ~ failing
  BY EmptySeq DEF Init
<1>2. \A n \in DOMAIN program : ~ Finished(n)
  BY DEF Init, Finished, HasReference, IsResolved
<1> QED
  BY <1>1, <1>2 DEF HInv, Asks, Asked, FailsBelow, Inherited

LEMMA InheritedReplaces ==
    ASSUME IInv, TInv, HInv, NEW f, Replaces(f), ~ failing', InheritedFrame(f)
    PROVE  HInv'
<1>1. /\ Touches(NoName) /\ stack # << >> /\ stack' = WithTop(f)
  BY DEF Replaces
<1>2. Asks' /\ Asked'
  BY AsksReplaces DEF HInv
<1>3. NoName \notin DOMAIN program /\ ~ Finished(NoName)
  BY NoNameFacts DEF Finished
<1>4. /\ Len(stack') = Len(stack) /\ stack'[1] = f
      /\ \A i \in 1 .. Len(stack) : i # 1 => stack'[i] = stack[i]
  BY <1>1, StackReplaced
<1>5. InheritedFrame(f)'
  BY <1>1, <1>3, InheritedStays
<1>6. ASSUME NEW i \in 1 .. Len(stack')
      PROVE  InheritedFrame(stack[i])' \/ \E k \in 1 .. Len(stack) : stack'[i] = stack[k]
  <2>1. CASE i = 1
    BY <1>4, <1>5, <2>1
  <2>2. CASE i # 1
    BY <1>4, <2>2
  <2> QED
    BY <2>1, <2>2
<1>7. Inherited'
  BY <1>1, <1>3, <1>6, InheritedAfter DEF HInv
<1> QED
  BY <1>2, <1>7 DEF HInv, FailsBelow

LEMMA InheritedEnters ==
    ASSUME IInv, TInv, HInv, UNCHANGED program, ~ failing', NEW n, Enter(n),
           stack # << >> =>
              /\ n \in Mentioned(Top.name) \cup {program[Top.name].extends}
              /\ Top.at = 0 => n = program[Top.name].extends
    PROVE  HInv'
<1>1. /\ n \in DOMAIN program /\ ~ IsResolved(n) /\ Touches(n)
      /\ SelfReferenceable(n) => arena'.decls[SlotOf(n)'].state = "resolving"
  BY EnterTypes
<1>2. PICK r : stack' = <<Frame(n, r)>> \o stack
  BY EnterTypes
<1>3. PICK f : f = Frame(n, r)
  OBVIOUS
<1>4. f.name = n /\ stack' = <<f>> \o stack /\ (f.at # 0 => program[n].extends = NoName)
  BY <1>2, <1>3 DEF Frame
<1>5. Asks' /\ Asked'
  BY <1>1, <1>4, AsksEnters DEF HInv
<1>6. /\ Len(stack') = Len(stack) + 1 /\ stack'[1] = f
      /\ \A i \in 1 .. Len(stack) + 1 :
            i # 1 => i - 1 \in 1 .. Len(stack) /\ stack'[i] = stack[i - 1]
  BY <1>4, StackPushed
<1>7. ~ Finished(n)
  BY <1>1 DEF Finished, HasReference
<1>8. InheritedFrame(f)'
  <2>1. InheritedFrame(f)
    BY <1>4, NoNameFacts DEF InheritedFrame, InheritedBy, Exempt, Declared
  <2> QED
    BY <1>1, <1>7, <2>1, InheritedStays
<1>9. ~ Finished(n)'
  <2>1. HasReference(n)' => SelfReferenceable(n)
    BY DEF HasReference, SelfReferenceable
  <2> QED
    BY <1>1, <2>1 DEF Finished
<1>10. ASSUME NEW i \in 1 .. Len(stack')
       PROVE  InheritedFrame(stack[i])' \/ \E k \in 1 .. Len(stack) : stack'[i] = stack[k]
  <2>1. CASE i = 1
    BY <1>6, <1>8, <2>1
  <2>2. CASE i # 1
    BY <1>6, <2>2
  <2> QED
    BY <2>1, <2>2
<1>11. Inherited'
  BY <1>1, <1>7, <1>9, <1>10, InheritedAfter DEF HInv
<1> QED
  BY <1>5, <1>11 DEF HInv, FailsBelow

LEMMA InheritedLeaves ==
    ASSUME IInv, TInv, HInv, NEW n, n = Top.name, Touches(n), stack # << >>,
           stack' = Tail(stack),
           n \in DOMAIN program /\ Finished(n)' => InheritedBy(n, Bodied(n).properties)',
           failing' => \A k \in 1 .. Len(stack) :
                          IsFirstHeritage(k) => k # 1 /\ Exempt(stack[k].name),
           failing' => Top.at # 0
    PROVE  HInv'
<1>1. /\ Len(stack') = Len(stack) - 1 /\ Top = stack[1] /\ 1 \in 1 .. Len(stack)
      /\ Len(stack) \in Nat
      /\ \A i \in 1 .. Len(stack) - 1 :
            i + 1 \in 1 .. Len(stack) /\ i + 1 # 1 /\ stack'[i] = stack[i + 1]
      /\ \A i \in 1 .. Len(stack) :
            i # 1 => i - 1 \in 1 .. Len(stack') /\ stack'[i - 1] = stack[i]
  BY StackPopped
<1>2. program' = program
  BY DEF Touches
<1>3. Asks' /\ Asked'
  BY <1>2, AsksLeaves DEF HInv
<1>4. ~ Finished(n)
  BY <1>1 DEF TInv, Unfinished, Finished, HasReference
<1>5. \A i \in 1 .. Len(stack') : \E k \in 1 .. Len(stack) : stack'[i] = stack[k]
  BY <1>1
<1>6. Inherited'
  BY <1>4, <1>5, InheritedAfter DEF HInv
<1>7. FailsBelow'
  <2> SUFFICES ASSUME failing', NEW k \in 1 .. Len(stack'), stack'[k].at = 0,
                      \A j \in 1 .. Len(stack') : j < k => stack'[j].at # 0
               PROVE  Exempt(stack'[k].name)
    BY <1>2, ExemptStays DEF FailsBelow, IsFirstHeritage
  <2>1. k + 1 \in 1 .. Len(stack) /\ stack'[k] = stack[k + 1]
    BY <1>1
  <2>2. ASSUME NEW j \in 1 .. Len(stack), j < k + 1 PROVE stack[j].at # 0
    <3>1. CASE j = 1
      BY <1>1, <3>1
    <3>2. CASE j # 1
      <4>1. j - 1 \in 1 .. Len(stack') /\ stack'[j - 1] = stack[j] /\ j - 1 < k
        BY <1>1, <2>2, <3>2
      <4> QED
        BY <4>1
    <3> QED
      BY <3>1, <3>2
  <2>3. IsFirstHeritage(k + 1)
    BY <2>1, <2>2 DEF IsFirstHeritage
  <2> QED
    BY <2>1, <2>3
<1> QED
  BY <1>3, <1>6, <1>7 DEF HInv

LEMMA NextHInv == IInv /\ SInv /\ TInv /\ HInv /\ [Next]_vars => HInv'
<1> SUFFICES ASSUME IInv, SInv, TInv, HInv, [Next]_vars PROVE HInv'
  OBVIOUS
<1>0. stack # << >> =>
         /\ Top = stack[1] /\ 1 \in 1 .. Len(stack) /\ Top.name \in DOMAIN program
         /\ InheritedFrame(Top)
         /\ program[Top.name].kind # "class" => Top.at # 0
  BY TopIsFrame DEF HInv, Inherited, IInv, Shapes, SInv, Collected
<1>1. ASSUME NEW n \in Names, Request(n) PROVE HInv'
  <2>1. ~ failing' /\ UNCHANGED program /\ stack = << >> /\ Enter(n)
    BY <1>1 DEF Request, SInv, FailsForAReason
  <2> QED
    BY <2>1, InheritedEnters
<1>2. CASE AskParent
  <2>1. ~ failing' /\ UNCHANGED program /\ Enter(program[Top.name].extends)
    BY <1>2 DEF AskParent, Running, TopDecl
  <2> QED
    BY <2>1, InheritedEnters
<1>3. CASE AskPart
  <2>1. ~ failing' /\ UNCHANGED program /\ Enter(Part.to) /\ stack # << >> /\ AtPart
    BY <1>3 DEF AskPart, Running
  <2>2. Part.to \in Mentioned(Top.name) /\ Top.at # 0
    BY <2>1, PartIsMentioned
  <2> QED
    BY <2>1, <2>2, InheritedEnters
<1>4. CASE Inherit
  <2>1. PICK f :
           /\ Replaces(f) /\ f.at = 1
           /\ IsResolved(TopDecl.extends)
                 /\ Get(arena, entries[TopDecl.extends].resolved).kind = "object" =>
              f.properties = Get(arena, entries[TopDecl.extends].resolved).properties
    BY <1>4, InheritEffect
  <2>2. stack # << >> /\ ~ failing' /\ ~ IsUntouched(TopDecl.extends)
    BY <1>4 DEF Inherit, Running
  <2>3. PICK n, parent : n = Top.name /\ parent = program[n].extends
    OBVIOUS
  <2>4. TopDecl.extends = parent
    BY <2>3 DEF TopDecl
  <2>5. f.name = n
    BY <2>1, <2>3 DEF Replaces
  <2>6. ASSUME ~ Exempt(n) PROVE HasParents(n, f.properties)
    <3>1. /\ parent \in DOMAIN program /\ SelfReferenceable(parent)
          /\ n \notin Reachable(AskGraph)[parent]
      BY <2>3, <2>6 DEF Exempt, Declared
    <3>2. Finished(parent)
      BY <2>2, <2>3, <2>4, <3>1, ParentIsFinished DEF HInv
    <3>3. Get(arena, entries[parent].resolved) = Bodied(parent) /\ Bodied(parent).kind = "object"
      BY <3>2, FinishedGets
    <3>4. IsResolved(parent)
      BY <3>2 DEF Finished, HasReference
    <3>5. f.properties = Bodied(parent).properties
      BY <2>1, <2>4, <3>3, <3>4
    <3> QED
      BY <2>3, <3>2, <3>5 DEF HasParents
  <2>7. InheritedFrame(f)
    BY <2>5, <2>6 DEF InheritedFrame, InheritedBy
  <2> QED
    BY <2>1, <2>2, <2>7, InheritedReplaces
<1>5. CASE PassOver
  <2>1. PICK f : Replaces(f)
    BY <1>5, PassOverEffect
  <2>2. stack # << >> /\ failing /\ ~ failing' /\ Top.at = 0
    BY <1>5 DEF PassOver, AtHeritage
  <2>3. IsFirstHeritage(1)
    BY <1>0, <2>2 DEF IsFirstHeritage
  <2>4. Exempt(Top.name)
    BY <1>0, <2>2, <2>3 DEF HInv, FailsBelow
  <2>5. InheritedFrame(f)
    BY <2>1, <2>4 DEF InheritedFrame, InheritedBy, Replaces
  <2> QED
    BY <2>1, <2>2, <2>5, InheritedReplaces
<1>6. CASE AnswerPart
  <2>1. PICK f, id, part :
           /\ Replaces(f) /\ f.at = Top.at /\ f.properties = Top.properties
    BY <1>6, AnswerEffect
  <2>2. stack # << >> /\ ~ failing'
    BY <1>6 DEF AnswerPart, Running
  <2>3. InheritedFrame(f)
    BY <1>0, <2>1, <2>2 DEF InheritedFrame, Replaces
  <2> QED
    BY <2>1, <2>2, <2>3, InheritedReplaces
<1>7. CASE CloseMember
  <2>1. PICK f, id, value :
           /\ Replaces(f) /\ f.properties = With(Top.properties, Member.name, value)
    BY <1>7, CloseEffect
  <2>2. stack # << >> /\ ~ failing' /\ Top.at \in DOMAIN program[Top.name].members
    BY <1>7 DEF CloseMember, Running, AtEndOfMember, AtMember, TopDecl
  <2>3. PICK n, name, properties : n = Top.name /\ name = Member.name /\ properties = Top.properties
    OBVIOUS
  <2>4. name \in Own(n) /\ Top.at # 0
    <3>1. Top.at # 0
      BY <1>0, <2>2, TypedParts, MemberFacts
    <3> QED
      BY <2>2, <2>3, <3>1 DEF Own, Member, TopDecl
  <2>5. InheritedBy(n, properties)
    BY <1>0, <2>2, <2>3, <2>4 DEF InheritedFrame
  <2>6. f.properties = With(properties, name, value) /\ f.name = n
    BY <2>1, <2>3 DEF Replaces
  <2>7. InheritedBy(n, f.properties)
    BY <2>4, <2>5, <2>6 DEF InheritedBy, HasParents, With
  <2>8. InheritedFrame(f)
    BY <2>6, <2>7 DEF InheritedFrame
  <2> QED
    BY <2>1, <2>2, <2>8, InheritedReplaces
<1>8. CASE Finish
  <2>1. PICK n : n = Top.name
    OBVIOUS
  <2>2. /\ n \in DOMAIN program /\ Touches(n) /\ program' = program
        /\ stack # << >> /\ stack' = Tail(stack)
        /\ Top.at = Len(program[n].members) + 1
        /\ Bodied(n)' = ObjectNode(Top.properties) /\ ~ failing'
    BY <1>8, <2>1, FinishTypes DEF Finish, Running
  <2>3. Top.at # 0
    BY <2>2, TypedParts, ProgramFacts DEF IsSeq
  <2>4. PICK properties : properties = Top.properties
    OBVIOUS
  <2>5. InheritedBy(n, properties)
    BY <1>0, <2>1, <2>2, <2>3, <2>4 DEF InheritedFrame
  <2>6. ~ Finished(n)
    BY <1>0, <2>1, <2>2 DEF TInv, Unfinished, Finished, HasReference
  <2>7. InheritedBy(n, properties)'
    BY <2>2, <2>5, <2>6, InheritedStays
  <2>8. properties = Bodied(n).properties'
    BY <2>2, <2>4 DEF ObjectNode
  <2> QED
    BY <2>1, <2>2, <2>7, <2>8, InheritedLeaves
<1>9. CASE FinishAlias
  <2>1. PICK n : n = Top.name
    OBVIOUS
  <2>2. /\ ~ SelfReferenceable(n) /\ Touches(n) /\ program' = program
        /\ stack # << >> /\ stack' = Tail(stack) /\ ~ failing'
    BY <1>9, <2>1, FinishAliasTypes DEF FinishAlias, Running
  <2>3. ~ Finished(n)'
    BY <2>2 DEF Finished, HasReference, SelfReferenceable
  <2> QED
    BY <2>1, <2>2, <2>3, InheritedLeaves
<1>10. CASE Fail
  <2>1. PICK n : n = Top.name
    OBVIOUS
  <2>2. /\ Touches(n) /\ stack # << >> /\ stack' = Tail(stack)
        /\ entries'[n].resolved = NoType /\ Fails
    BY <1>10, <2>1, FailTypes DEF Fail
  <2>3. ~ Finished(n)'
    BY <2>2 DEF Finished, HasReference, IsResolved
  <2>4. Top.at # 0
    <3>1. CASE failing /\ ~ AtHeritage
      BY <3>1 DEF AtHeritage
    <3>2. CASE CannotAnswer \/ (AtEndOfMember /\ IsDuplicate)
      <4>1. Top.at \in DOMAIN program[Top.name].members
        BY <3>2 DEF CannotAnswer, AtPart, AtEndOfMember, AtMember, TopDecl
      <4> QED
        BY <1>0, <2>2, <4>1, TypedParts, MemberFacts
    <3> QED
      BY <2>2, <3>1, <3>2 DEF Fails
  <2>5. ASSUME NEW k \in 1 .. Len(stack), IsFirstHeritage(k)
        PROVE  k # 1 /\ Exempt(stack[k].name)
    <3>1. k # 1
      BY <1>0, <2>2, <2>4, <2>5 DEF IsFirstHeritage
    <3>2. CASE failing
      BY <2>5, <3>1, <3>2 DEF HInv, FailsBelow
    <3>3. CASE CannotAnswer \/ (AtEndOfMember /\ IsDuplicate)
      BY <2>2, <2>4, <2>5, <3>1, <3>3, TopFailsBelow DEF HInv
    <3> QED
      BY <2>2, <3>2, <3>3 DEF Fails
  <2> QED
    BY <2>1, <2>2, <2>3, <2>4, <2>5, InheritedLeaves
<1>11. CASE UNCHANGED vars
  <2>1. UNCHANGED <<program, arena, entries, stack, failing>>
    BY <1>11 DEF vars
  <2>2. Touches(NoName)
    BY <2>1 DEF Touches, TInv, Typed
  <2>3. \A i \in 1 .. Len(stack') : \E k \in 1 .. Len(stack) : stack'[i] = stack[k]
    BY <2>1
  <2>4. NoName \notin DOMAIN program /\ ~ Finished(NoName)
    BY NoNameFacts DEF Finished
  <2>5. Inherited'
    BY <2>2, <2>3, <2>4, InheritedAfter DEF HInv
  <2>6. Asks' /\ Asked'
    BY <2>1, ExemptStays DEF HInv, Asks, Asked
  <2>7. FailsBelow'
    BY <2>1, ExemptStays DEF HInv, FailsBelow, IsFirstHeritage
  <2> QED
    BY <2>5, <2>6, <2>7 DEF HInv
<1> QED
  BY <1>1, <1>2, <1>3, <1>4, <1>5, <1>6, <1>7, <1>8, <1>9, <1>10, <1>11 DEF Next, Step

(* A class has its parent's members, whatever failed before, if nothing is *)
(* wrong with the parent and it can be resolved without the class: such a  *)
(* parent is finished when the class copies it, and never passed over.     *)
THEOREM ClassesInherit == Spec => []InheritsFromOthers
<1>1. Spec => []HInv
  <2>1. Init => HInv
    BY InitHInv
  <2>2. IInv /\ SInv /\ TInv /\ HInv /\ [Next]_vars => HInv'
    BY NextHInv
  <2> QED
    BY <2>1, <2>2, AlwaysIInv, AlwaysSInv, AlwaysTInv, PTL DEF Spec
<1>2. IInv /\ TInv /\ HInv => InheritsFromOthers
  <2> SUFFICES ASSUME IInv, TInv, HInv, NEW n \in DOMAIN program, NEW parent \in DOMAIN program,
                      IsChildOf(n, parent), IsSound(parent),
                      n \notin Reachable(AskGraph)[parent]
               PROVE  InheritsFrom(n, parent)
    BY DEF InheritsFromOthers
  <2>1. /\ program[n].kind = "class" /\ parent = program[n].extends
        /\ IsFinishedObject(n) /\ IsFinishedObject(parent)
    BY DEF IsChildOf
  <2>2. /\ Finished(n) /\ BodyOf(n) = Bodied(n) /\ BodyOf(parent) = Bodied(parent)
        /\ SelfReferenceable(parent)
    BY <2>1, FinishedReads DEF IsFinishedObject
  <2>3. HasParents(n, Bodied(n).properties)
    <3>1. InheritedBy(n, Bodied(n).properties)
      BY <2>2 DEF HInv, Inherited
    <3>2. ~ Exempt(n)
      BY <2>1, <2>2 DEF Exempt, IsChildOf
    <3> QED
      BY <2>1, <3>1, <3>2 DEF InheritedBy
  <2> QED
    BY <2>1, <2>2, <2>3 DEF HasParents, InheritsFrom, Own
<1> QED
  BY <1>1, <1>2, AlwaysIInv, AlwaysTInv, PTL
=============================================================================
