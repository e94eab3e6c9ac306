--------------------------- MODULE ModuleGraphProofs ---------------------------
(***************************************************************************)
(* For any paths, contents, answers of the resolver and number of edits:   *)
(* the graph follows from what was read, in path order, and a file that    *)
(* changed since it was read is called changed.  A file that is read from  *)
(* is in an earlier layer where the two lookups of a specifier agree.      *)
(***************************************************************************)
EXTENDS ModuleGraph, GraphProofs

Distinct(seq) == \A i, j \in 1 .. Len(seq) : seq[i] = seq[j] => i = j

-----------------------------------------------------------------------------
(* Orders.  In a finite set with distinct keys the places are those from 1 *)
(* to the number of elements, each taken once: an element with a smaller   *)
(* key has a smaller place, and as many places as elements leave no gap.   *)

IsKey(S, key) ==
    /\ IsFiniteSet(S)
    /\ \A s \in S : key[s] \in Nat
    /\ \A s, t \in S : key[s] = key[t] => s = t

LEMMA PlaceFacts ==
    ASSUME NEW S, NEW key, IsKey(S, key)
    PROVE  /\ Cardinality(S) \in Nat
           /\ \A s \in S : PlaceOf(S, key, s) \in 1 .. Cardinality(S)
           /\ \A s, t \in S : key[s] < key[t] => PlaceOf(S, key, s) < PlaceOf(S, key, t)
           /\ \A i \in 1 .. Cardinality(S) : \E s \in S : PlaceOf(S, key, s) = i
<1> DEFINE upTo(s) == {t \in S : key[t] <= key[s]}
           N == Cardinality(S)
           place == [s \in S |-> PlaceOf(S, key, s)]
<1>1. N \in Nat /\ IsFiniteSet(1 .. N) /\ Cardinality(1 .. N) = N
  BY FS_CardinalityType, FS_Interval DEF IsKey
<1>2. ASSUME NEW s \in S
      PROVE  /\ IsFiniteSet(upTo(s)) /\ Cardinality(upTo(s)) \in 1 .. N
             /\ s \in upTo(s) /\ upTo(s) \subseteq S
  <2>1. s \in upTo(s) /\ upTo(s) \in SUBSET S
    BY DEF IsKey
  <2> HIDE DEF upTo
  <2>2. IsFiniteSet(upTo(s)) /\ Cardinality(upTo(s)) <= N
    BY <2>1, FS_Subset DEF IsKey
  <2>3. Cardinality(upTo(s)) \in Nat /\ Cardinality(upTo(s)) # 0
    BY <2>1, <2>2, FS_CardinalityType, FS_EmptySet
  <2> QED
    BY <1>1, <2>1, <2>2, <2>3
<1>3. \A s \in S : PlaceOf(S, key, s) = Cardinality(upTo(s))
  BY DEF PlaceOf
<1>4. ASSUME NEW s \in S, NEW t \in S, key[s] < key[t]
      PROVE  PlaceOf(S, key, s) < PlaceOf(S, key, t)
  <2>1. upTo(s) \in SUBSET upTo(t) /\ t \notin upTo(s) /\ t \in upTo(t)
    BY <1>4 DEF IsKey
  <2>2. /\ IsFiniteSet(upTo(t)) /\ Cardinality(upTo(t)) \in Nat
        /\ Cardinality(upTo(s)) \in Nat
    BY <1>2
  <2> HIDE DEF upTo
  <2>3. /\ Cardinality(upTo(s)) <= Cardinality(upTo(t))
        /\ Cardinality(upTo(t)) = Cardinality(upTo(s)) => upTo(t) = upTo(s)
    BY <2>1, <2>2, FS_Subset
  <2> QED
    BY <1>3, <2>1, <2>2, <2>3
<1>5. \A s, t \in S : place[s] = place[t] => s = t
  <2> SUFFICES ASSUME NEW s \in S, NEW t \in S, s # t PROVE place[s] # place[t]
    OBVIOUS
  <2>1. key[s] < key[t] \/ key[t] < key[s]
    BY DEF IsKey
  <2>2. PlaceOf(S, key, s) \in Nat /\ PlaceOf(S, key, t) \in Nat
    <3> HIDE DEF upTo, N
    <3> QED
      BY <1>1, <1>2, <1>3
  <2> QED
    BY <1>4, <2>1, <2>2
<1>6. place \in [S -> 1 .. N]
  BY <1>2, <1>3
<1>7. place \in Injection(S, 1 .. N)
  BY <1>5, <1>6 DEF Injection, IsInjective
<1>8. place \in Surjection(S, 1 .. N)
  <2> HIDE DEF place, N
  <2> QED
    BY <1>1, <1>7, FS_Injection DEF N
<1>9. \A i \in 1 .. N : \E s \in S : place[s] = i
  BY <1>8 DEF Surjection
<1> QED
  BY <1>1, <1>2, <1>3, <1>4, <1>9

LEMMA OrderFacts ==
    ASSUME NEW S, NEW key, IsKey(S, key)
    PROVE  LET seq == InOrder(S, key)
           IN  /\ seq \in Seq(S) /\ Len(seq) = Cardinality(S)
               /\ \A s \in S : PlaceOf(S, key, s) \in 1 .. Len(seq) /\ seq[PlaceOf(S, key, s)] = s
               /\ \A i \in 1 .. Len(seq) : PlaceOf(S, key, seq[i]) = i
               /\ \A i, j \in 1 .. Len(seq) : i < j => key[seq[i]] < key[seq[j]]
<1> DEFINE seq == InOrder(S, key)
           N == Cardinality(S)
<1>1. /\ N \in Nat
      /\ \A s \in S : PlaceOf(S, key, s) \in 1 .. N
      /\ \A s, t \in S : key[s] < key[t] => PlaceOf(S, key, s) < PlaceOf(S, key, t)
      /\ \A i \in 1 .. N : \E s \in S : PlaceOf(S, key, s) = i
  BY PlaceFacts
<1>2. seq = [i \in 1 .. N |-> CHOOSE s \in S : PlaceOf(S, key, s) = i]
  BY DEF InOrder
<1>3. \A i \in 1 .. N : seq[i] \in S /\ PlaceOf(S, key, seq[i]) = i
  BY <1>1, <1>2
<1>4. seq \in [1 .. N -> S]
  BY <1>2, <1>3
<1> HIDE DEF seq, N
<1>5. seq \in Seq(S) /\ Len(seq) = N
  BY <1>1, <1>4, SeqDef
<1>6. \A s, t \in S : key[s] < key[t] \/ key[t] < key[s] \/ s = t
  BY DEF IsKey
<1>7. \A s, t \in S : PlaceOf(S, key, s) = PlaceOf(S, key, t) => s = t
  BY <1>1, <1>6
<1>8. \A i, j \in 1 .. N : i < j => key[seq[i]] < key[seq[j]]
  <2> SUFFICES ASSUME NEW i \in 1 .. N, NEW j \in 1 .. N, i < j
               PROVE  key[seq[i]] < key[seq[j]]
    OBVIOUS
  <2>1. seq[i] \in S /\ seq[j] \in S /\ PlaceOf(S, key, seq[i]) = i /\ PlaceOf(S, key, seq[j]) = j
    BY <1>3
  <2> QED
    BY <1>1, <1>6, <2>1
<1> QED
  BY <1>1, <1>3, <1>5, <1>7, <1>8 DEF seq, N

-----------------------------------------------------------------------------
(* The table of files.  Interning keeps what is there, adds what is named, *)
(* and never the same path twice.                                          *)

LEMMA IdFacts ==
    ASSUME NEW seq, IsSeq(seq)
    PROVE  /\ \A path : path \in Elements(seq) <=> \E i \in 1 .. Len(seq) : seq[i] = path
           /\ \A path \in Elements(seq) :
                 IdOf(seq, path) \in 1 .. Len(seq) /\ seq[IdOf(seq, path)] = path
           /\ Distinct(seq) => \A i \in 1 .. Len(seq) : IdOf(seq, seq[i]) = i
<1>1. DOMAIN seq = 1 .. Len(seq)
  BY DEF IsSeq
<1>2. \A path \in Elements(seq) :
         IdOf(seq, path) \in 1 .. Len(seq) /\ seq[IdOf(seq, path)] = path
  BY <1>1 DEF Elements, IdOf
<1> QED
  BY <1>1, <1>2 DEF Elements, Distinct

LEMMA InternFacts ==
    ASSUME NEW known \in Seq(Paths), Distinct(known), NEW path \in Paths \cup {NoFile}
    PROVE  LET now == Intern(known, path)
           IN  /\ now \in Seq(Paths) /\ Distinct(now)
               /\ Len(known) <= Len(now) /\ \A i \in 1 .. Len(known) : now[i] = known[i]
               /\ Elements(now) = Elements(known) \cup ({path} \ {NoFile})
<1>0. NoFile \notin Paths
  BY PathsAssumption
<1>1. IsSeq(known) /\ Len(known) \in Nat /\ \A i \in 1 .. Len(known) : known[i] \in Paths
  BY SeqIsSeq, LenProperties, ElementOfSeq
<1>2. CASE path \in Elements(known) \cup {NoFile}
  <2>1. Intern(known, path) = known /\ NoFile \notin Elements(known)
    BY <1>0, <1>1, <1>2, IdFacts DEF Intern
  <2> QED
    BY <1>1, <1>2, <2>1
<1>3. CASE path \notin Elements(known) \cup {NoFile}
  <2>1. Intern(known, path) = Append(known, path) /\ path \in Paths
    BY <1>3 DEF Intern
  <2> DEFINE now == Append(known, path)
  <2>2. /\ now \in Seq(Paths) /\ IsSeq(now) /\ Len(now) = Len(known) + 1
        /\ now[Len(known) + 1] = path
        /\ \A i \in 1 .. Len(known) : now[i] = known[i]
    BY <1>1, <2>1, Appended, AppendProperties
  <2> HIDE DEF now
  <2>3. \A i \in 1 .. Len(known) : known[i] # path
    BY <1>1, <1>3, IdFacts
  <2>4. \A i \in 1 .. Len(now) : i \in 1 .. Len(known) \/ i = Len(known) + 1
    BY <1>1, <2>2
  <2>5. Distinct(now)
    BY <2>2, <2>3, <2>4 DEF Distinct
  <2>6. \A p : p \in Elements(now) <=> p \in Elements(known) \/ p = path
    <3>1. \A i \in 1 .. Len(known) : i \in 1 .. Len(now)
      BY <1>1, <2>2
    <3>2. Len(known) + 1 \in 1 .. Len(now)
      BY <1>1, <2>2
    <3> QED
      BY <1>1, <2>2, <2>4, <3>1, <3>2, IdFacts
  <2>7. Elements(now) = Elements(known) \cup ({path} \ {NoFile})
    BY <1>3, <2>6
  <2> QED
    BY <1>1, <2>1, <2>2, <2>5, <2>7 DEF now
<1> QED
  BY <1>2, <1>3

LEMMA InternedFacts ==
    ASSUME NEW known \in Seq(Paths), Distinct(known), NEW paths \in Seq(Paths \cup {NoFile})
    PROVE  LET now == Interned(known, paths)
           IN  /\ now \in Seq(Paths) /\ Distinct(now)
               /\ Len(known) <= Len(now) /\ \A i \in 1 .. Len(known) : now[i] = known[i]
               /\ Elements(now) = Elements(known) \cup (Elements(paths) \ {NoFile})
<1> DEFINE N == Len(paths)
           Named(n) == {paths[i] : i \in 1 .. n} \ {NoFile}
           Good(n, now) == /\ now \in Seq(Paths) /\ Distinct(now)
                           /\ Len(known) <= Len(now)
                           /\ \A i \in 1 .. Len(known) : now[i] = known[i]
                           /\ Elements(now) = Elements(known) \cup Named(n)
           S == [n \in 0 .. N |-> {now \in Seq(Paths) : Good(n, now)}]
           G == [n \in 1 .. N |-> [now \in Seq(Paths) |-> Intern(now, paths[n])]]
<1>1. N \in Nat /\ \A i \in 1 .. N : paths[i] \in Paths \cup {NoFile}
  BY LenProperties, ElementOfSeq
<1>2. known \in S[0]
  <2>1. Len(known) \in Nat
    BY LenProperties
  <2>2. Named(0) = {}
    OBVIOUS
  <2> QED
    BY <1>1, <2>1, <2>2
<1>3. ASSUME NEW n \in 1 .. N, NEW now \in S[n - 1] PROVE G[n][now] \in S[n]
  <2>1. now \in Seq(Paths) /\ Good(n - 1, now) /\ n \in 0 .. N
    BY <1>1, <1>3
  <2> DEFINE next == Intern(now, paths[n])
  <2>2. /\ next \in Seq(Paths) /\ Distinct(next)
        /\ Len(now) <= Len(next) /\ \A i \in 1 .. Len(now) : next[i] = now[i]
        /\ Elements(next) = Elements(now) \cup ({paths[n]} \ {NoFile})
    BY <1>1, <2>1, InternFacts
  <2>3. Len(known) \in Nat /\ Len(now) \in Nat /\ Len(next) \in Nat
    BY <2>1, <2>2, LenProperties
  <2>4. \A i \in 1 .. n : i \in 1 .. n - 1 \/ i = n
    BY <1>1
  <2>5. \A i \in 1 .. n - 1 : i \in 1 .. n
    BY <1>1
  <2>6. Named(n) = Named(n - 1) \cup ({paths[n]} \ {NoFile})
    <3>1. n \in 1 .. n
      BY <1>1
    <3> QED
      BY <2>4, <2>5, <3>1
  <2>7. G[n][now] = next
    BY <2>1
  <2> HIDE DEF next, Named, G
  <2>8. \A i \in 1 .. Len(known) : i \in 1 .. Len(now)
    BY <2>1, <2>3
  <2>9. Good(n, next)
    BY <2>1, <2>2, <2>3, <2>6, <2>8
  <2> QED
    BY <2>1, <2>2, <2>7, <2>9
<1> HIDE DEF S, G
<1>4. Advances(N, S, G)
  BY <1>3 DEF Advances
<1>5. PICK f : /\ f = [n \in 0 .. N |-> f[n]]
               /\ f[0] = known
               /\ \A n \in 1 .. N : f[n] = G[n][f[n - 1]]
               /\ \A n \in 0 .. N : f[n] \in S[n]
  BY <1>1, <1>2, <1>4, Iterated
<1> DEFINE Rec(upTo) == [n \in 0 .. N |-> IF n = 0 THEN known ELSE Intern(upTo[n - 1], paths[n])]
           upTo == CHOOSE upTo : upTo = Rec(upTo)
<1>6. ASSUME NEW n \in 0 .. N PROVE f[n] = Rec(f)[n]
  <2>1. CASE n = 0
    BY <1>5, <2>1
  <2>2. CASE n # 0
    <3>1. n \in 1 .. N /\ n - 1 \in 0 .. N
      BY <1>1, <2>2
    <3>2. f[n - 1] \in Seq(Paths)
      BY <1>5, <3>1 DEF S
    <3> QED
      BY <1>5, <2>2, <3>1, <3>2 DEF G
  <2> QED
    BY <2>1, <2>2
<1>7. f = Rec(f)
  BY <1>5, <1>6
<1>8. upTo = Rec(upTo)
  BY <1>7
<1> HIDE DEF upTo
<1>9. \A n \in 0 .. N : upTo[n] = f[n]
  <2> DEFINE Bad == {n \in 0 .. N : upTo[n] # f[n]}
  <2>1. SUFFICES ASSUME Bad # {} PROVE FALSE
    OBVIOUS
  <2>0. Bad \subseteq Nat
    BY <1>1
  <2>2. PICK n \in Bad : \A k \in Bad : n <= k
    <3> HIDE DEF Bad
    <3> QED
      BY <2>0, <2>1, LeastNumber
  <2>3. n \in 0 .. N /\ upTo[n] = Rec(upTo)[n] /\ f[n] = Rec(f)[n]
    BY <1>7, <1>8, <2>2
  <2>4. n # 0
    BY <2>2, <2>3
  <2>5. n - 1 \in 0 .. N /\ n - 1 \notin Bad
    BY <1>1, <2>2, <2>3, <2>4
  <2> QED
    BY <2>2, <2>3, <2>4, <2>5
<1>10. Interned(known, paths) = upTo[N]
  BY DEF Interned, upTo
<1>11. Interned(known, paths) \in S[N]
  BY <1>1, <1>5, <1>9, <1>10
<1>12. Named(N) = Elements(paths) \ {NoFile}
  BY LenProperties DEF Elements
<1> QED
  BY <1>1, <1>11, <1>12 DEF S

-----------------------------------------------------------------------------
(* What a file asks for, in source order, and what that resolves to.       *)

Asked(path, content) == IF path \in Scannable THEN Scan(content) ELSE << >>

LEMMA ResolvesToPath ==
    ASSUME NEW path \in Paths, NEW r, r.specifier \in Specifiers
    PROVE  Resolve(path, r) \in Paths \cup {NoFile}
<1>1. /\ Declared[path][r.specifier] \in Paths \cup {NoFile}
      /\ Runtime[path][r.specifier] \in Paths \cup {NoFile}
  BY ResolverAssumption
<1>2. r.specifier \in DOMAIN TypesOf =>
          Declared[path][TypesOf[r.specifier]] \in Paths \cup {NoFile}
  BY ResolverAssumption
<1>3. \A found \in Paths \cup {NoFile} :
          WithTypes(path, r.specifier, found) \in Paths \cup {NoFile}
  BY <1>2 DEF WithTypes
<1> QED
  BY <1>1, <1>3 DEF Resolve

LEMMA StatementFacts ==
    ASSUME NEW path \in Paths, NEW content, IsContent(content)
    PROVE  LET S == Statements(path, content)
           IN  /\ IsFiniteSet(S)
               /\ \A r \in S : /\ r.place \in Nat /\ r.specifier \in Specifiers /\ r.form \in Forms
                               /\ Resolve(path, r) \in Paths \cup {NoFile}
               /\ \A q, r \in S : q.place = r.place => q = r
<1> DEFINE S == Statements(path, content)
<1>1. S \in SUBSET content.requests
  BY DEF Statements, Requested
<1>2. IsFiniteSet(S)
  BY <1>1, FS_Subset DEF IsContent
<1>3. \A r \in S : r.place \in Nat /\ r.specifier \in Specifiers /\ r.form \in Forms
  BY <1>1 DEF IsContent
<1>4. \A q, r \in S : q.place = r.place => q = r
  BY <1>1 DEF IsContent
<1> HIDE DEF S
<1>5. \A r \in S : Resolve(path, r) \in Paths \cup {NoFile}
  BY <1>3, ResolvesToPath
<1> QED
  BY <1>2, <1>3, <1>4, <1>5 DEF S

LEMMA AskedFacts ==
    ASSUME NEW path \in Paths, NEW content, IsContent(content)
    PROVE  LET S == Statements(path, content)
               asked == Asked(path, content)
           IN  /\ asked \in Seq(S) /\ IsSeq(asked) /\ Len(asked) = Cardinality(S)
               /\ \A r \in S : LET i == Cardinality({q \in S : q.place <= r.place})
                               IN  i \in 1 .. Len(asked) /\ asked[i] = r
<1> DEFINE S == Statements(path, content)
           asked == Asked(path, content)
           key == [r \in S |-> r.place]
<1>1. /\ IsFiniteSet(S)
      /\ \A r \in S : r.place \in Nat
      /\ \A q, r \in S : q.place = r.place => q = r
  BY StatementFacts
<1>2. CASE path \in Scannable
  <2>1. asked = InOrder(S, key)
    BY <1>2 DEF Asked, Scan, Statements
  <2>2. IsKey(S, key)
    <3> HIDE DEF S
    <3> QED
      BY <1>1 DEF IsKey
  <2>3. \A r \in S : PlaceOf(S, key, r) = Cardinality({q \in S : q.place <= r.place})
    <3> HIDE DEF S
    <3> SUFFICES ASSUME NEW r \in S PROVE {t \in S : key[t] <= key[r]} = {q \in S : q.place <= r.place}
      BY DEF PlaceOf
    <3> QED
      OBVIOUS
  <2> HIDE DEF S, key, asked
  <2>4. /\ asked \in Seq(S) /\ Len(asked) = Cardinality(S)
        /\ \A r \in S : PlaceOf(S, key, r) \in 1 .. Len(asked) /\ asked[PlaceOf(S, key, r)] = r
    BY <2>1, <2>2, OrderFacts
  <2>5. IsSeq(asked)
    BY <2>4, SeqIsSeq
  <2> QED
    BY <2>3, <2>4, <2>5 DEF S, asked
<1>3. CASE path \notin Scannable
  <2>1. asked = << >> /\ S = {}
    BY <1>3 DEF Asked, Statements
  <2>2. asked \in Seq(S) /\ Len(asked) = 0 /\ Cardinality(S) = 0
    BY <2>1, EmptySeq, FS_EmptySet
  <2>3. IsSeq(asked)
    BY <2>2, SeqIsSeq
  <2> QED
    BY <2>1, <2>2, <2>3
<1> QED
  BY <1>2, <1>3

LeadsOf(path, content) ==
    {Resolve(path, r) : r \in Statements(path, content)} \ {NoFile}

(* The edges of a file with this content: its statements in order, each    *)
(* with the id of what it resolves to.                                     *)
AreEdges(known, path, content, list) ==
    LET asked == Asked(path, content)
    IN  /\ list = [i \in 1 .. Len(asked) |->
                      [specifier |-> asked[i].specifier, kind |-> Kind(asked[i]),
                       target |-> list[i].target]]
        /\ \A i \in 1 .. Len(asked) :
              IF Resolve(path, asked[i]) = NoFile THEN list[i].target = NoFile
              ELSE /\ list[i].target \in 1 .. Len(known)
                   /\ known[list[i].target] = Resolve(path, asked[i])

(* Files found later do not change the edges there are.                    *)
LEMMA EdgesStay ==
    ASSUME NEW known, NEW now, NEW path, NEW content, NEW list,
           AreEdges(known, path, content, list),
           Len(known) \in Nat, Len(now) \in Nat, Len(known) <= Len(now),
           \A i \in 1 .. Len(known) : now[i] = known[i]
    PROVE  AreEdges(now, path, content, list)
BY DEF AreEdges

(* What the scan of a file does to the tables.                             *)
LEMMA EdgesAdded ==
    ASSUME NEW path \in Paths, NEW content, IsContent(content),
           files \in Seq(Paths), Distinct(files), path = Here,
           AddEdges(Asked(path, content)), IsSeq(edges)
    PROVE  /\ files' \in Seq(Paths) /\ Distinct(files')
           /\ Len(files) <= Len(files') /\ \A i \in 1 .. Len(files) : files'[i] = files[i]
           /\ Elements(files') = Elements(files) \cup LeadsOf(path, content)
           /\ IsSeq(edges') /\ Len(edges') = Len(edges) + 1
           /\ \A n \in 1 .. Len(edges) : edges'[n] = edges[n]
           /\ AreEdges(files', path, content, edges'[Len(edges) + 1])
<1> DEFINE S == Statements(path, content)
           asked == Asked(path, content)
           N == Len(asked)
           targets == [i \in DOMAIN asked |-> Resolve(Here, asked[i])]
           known == Interned(files, targets)
           list == [i \in DOMAIN asked |->
                      [specifier |-> asked[i].specifier, kind |-> Kind(asked[i]),
                       target |-> IF targets[i] = NoFile THEN NoFile ELSE IdOf(known, targets[i])]]
<1>1. files' = known /\ edges' = Append(edges, list)
  BY DEF AddEdges
<1>2. /\ asked \in Seq(S) /\ IsSeq(asked)
      /\ \A r \in S : \E i \in 1 .. N : asked[i] = r
      /\ \A r \in S : Resolve(path, r) \in Paths \cup {NoFile}
  <2>1. \A r \in S : Resolve(path, r) \in Paths \cup {NoFile}
    BY StatementFacts
  <2>2. /\ asked \in Seq(S) /\ IsSeq(asked)
        /\ \A r \in S : LET i == Cardinality({q \in S : q.place <= r.place})
                        IN  i \in 1 .. N /\ asked[i] = r
    BY AskedFacts
  <2> HIDE DEF S, asked, N
  <2> QED
    BY <2>1, <2>2
<1>3. N \in Nat /\ DOMAIN asked = 1 .. N /\ \A i \in 1 .. N : asked[i] \in S
  BY <1>2, LenProperties, ElementOfSeq
<1>4. LeadsOf(path, content) = {Resolve(path, r) : r \in S} \ {NoFile}
  BY DEF LeadsOf
<1> HIDE DEF S, asked, N
<1>5. targets = [i \in 1 .. N |-> Resolve(path, asked[i])]
  BY <1>3
<1>6. targets \in [1 .. N -> Paths \cup {NoFile}]
  BY <1>2, <1>3, <1>5
<1>7. targets \in Seq(Paths \cup {NoFile}) /\ Len(targets) = N /\ DOMAIN targets = 1 .. N
  BY <1>3, <1>6, SeqDef
<1>8. Elements(targets) \ {NoFile} = LeadsOf(path, content)
  <2>1. \A t : t \in Elements(targets) <=> \E i \in 1 .. N : t = Resolve(path, asked[i])
    BY <1>5, <1>7 DEF Elements
  <2>2. \A t : t \in Elements(targets) <=> \E r \in S : t = Resolve(path, r)
    BY <1>2, <1>3, <2>1
  <2> QED
    BY <1>4, <2>2
<1> HIDE DEF targets
<1>9. /\ known \in Seq(Paths) /\ Distinct(known)
      /\ Len(files) <= Len(known) /\ \A i \in 1 .. Len(files) : known[i] = files[i]
      /\ Elements(known) = Elements(files) \cup LeadsOf(path, content)
  <2>1. /\ known \in Seq(Paths) /\ Distinct(known)
        /\ Len(files) <= Len(known) /\ \A i \in 1 .. Len(files) : known[i] = files[i]
        /\ Elements(known) = Elements(files) \cup (Elements(targets) \ {NoFile})
    BY <1>7, InternedFacts
  <2> QED
    BY <1>8, <2>1
<1>10. /\ IsSeq(edges') /\ Len(edges') = Len(edges) + 1
       /\ \A n \in 1 .. Len(edges) : edges'[n] = edges[n]
       /\ edges'[Len(edges) + 1] = list
  BY <1>1, Appended
<1>11. AreEdges(known, path, content, list)
  <2>1. list = [i \in 1 .. N |->
                   [specifier |-> asked[i].specifier, kind |-> Kind(asked[i]),
                    target |-> IF targets[i] = NoFile THEN NoFile ELSE IdOf(known, targets[i])]]
    BY <1>3
  <2> HIDE DEF list
  <2>2. \A i \in 1 .. N : list[i].target = IF targets[i] = NoFile THEN NoFile ELSE IdOf(known, targets[i])
    BY <2>1
  <2>3. list = [i \in 1 .. N |->
                   [specifier |-> asked[i].specifier, kind |-> Kind(asked[i]),
                    target |-> list[i].target]]
    BY <2>1, <2>2
  <2>4. ASSUME NEW i \in 1 .. N, Resolve(path, asked[i]) # NoFile
        PROVE  /\ list[i].target \in 1 .. Len(known)
               /\ known[list[i].target] = Resolve(path, asked[i])
    <3>1. targets[i] = Resolve(path, asked[i])
      BY <1>5
    <3>2. targets[i] \in Elements(targets) \ {NoFile}
      BY <1>7, <2>4, <3>1 DEF Elements
    <3>3. targets[i] \in Elements(known) /\ IsSeq(known)
      BY <1>8, <1>9, <3>2, SeqIsSeq
    <3>4. /\ IdOf(known, targets[i]) \in 1 .. Len(known)
          /\ known[IdOf(known, targets[i])] = targets[i]
      BY <3>3, IdFacts
    <3> QED
      BY <2>2, <2>4, <3>1, <3>4
  <2>5. \A i \in 1 .. N : targets[i] = Resolve(path, asked[i])
    BY <1>5
  <2> QED
    BY <2>2, <2>3, <2>4, <2>5 DEF AreEdges, asked, N
<1> QED
  BY <1>1, <1>9, <1>10, <1>11
-----------------------------------------------------------------------------
(* The invariant.  A stamp seen on a file is older than any edit to come,  *)
(* so as long as a file bears the stamp it had when it was read it holds   *)
(* what was read.                                                          *)

DiskInv ==
    /\ edits \in Nat
    /\ DOMAIN disk = Paths
    /\ \A path \in Paths :
          \/ disk[path] = Absent
          \/ /\ disk[path] = Written(disk[path].stamp, disk[path].content)
             /\ disk[path].stamp \in 1 .. edits + 1
             /\ IsContent(disk[path].content)

Remembers(path, stamp, content) ==
    /\ stamp \in 1 .. edits + 1
    /\ IsContent(content)
    /\ disk[path] # Absent /\ disk[path].stamp = stamp => disk[path].content = content

ReadingInv ==
    \/ reading = Nothing
    \/ /\ Len(edges) < Len(files)
       /\ \/ /\ reading = [step |-> "stamped", stamp |-> reading.stamp]
             /\ reading.stamp \in 1 .. edits + 1
          \/ /\ reading = [step |-> "read", stamp |-> reading.stamp, content |-> reading.content]
             /\ Remembers(Here, reading.stamp, reading.content)

TablesInv ==
    /\ entries \in Seq(Paths)
    /\ files \in Seq(Paths) /\ Distinct(files) /\ Elements(entries) \subseteq Elements(files)
    /\ IsSeq(edges) /\ IsSeq(states) /\ Len(states) = Len(edges) /\ Len(edges) <= Len(files)

IsStateOf(n) ==
    /\ states[n] = [stamp |-> states[n].stamp, hash |-> states[n].hash,
                    failed |-> files[n] \in Scannable /\ states[n].hash.parse # "whole"]
    /\ Remembers(files[n], states[n].stamp, states[n].hash)
    /\ AreEdges(files, files[n], states[n].hash, edges[n])

StatesInv == \A n \in 1 .. Len(edges) : IsStateOf(n)

(* Every file is there because an entry leads to it: it is in every set    *)
(* that has the entries and what its members lead to.                      *)
HoldsTheFound(Z) ==
    /\ Elements(entries) \subseteq Z
    /\ \A n \in 1 .. Len(edges) : files[n] \in Z => LeadsOf(files[n], states[n].hash) \subseteq Z

FoundInv == \A Z \in SUBSET Paths : HoldsTheFound(Z) => Elements(files) \subseteq Z

PublishedInv ==
    \/ graph = Nothing
    \/ graph = [step |-> "failed"]
    \/ graph = InPathOrder /\ Len(edges) = Len(files)

GraphInv == DiskInv /\ TablesInv /\ ReadingInv /\ StatesInv /\ FoundInv /\ PublishedInv

LEMMA InitGraph == Init => GraphInv
<1> SUFFICES ASSUME Init PROVE GraphInv
  OBVIOUS
<1>1. DiskInv
  <2>1. disk \in Disks /\ edits = 0
    BY DEF Init
  <2>2. /\ DOMAIN disk = Paths
        /\ \A path \in Paths :
              \/ disk[path] = Absent
              \/ disk[path] = Written(1, disk[path].content) /\ IsContent(disk[path].content)
    BY <2>1, ContentsAssumption
  <2>3. \A content : Written(1, content).stamp = 1 /\ 1 \in 1 .. 0 + 1
    BY DEF Written
  <2> QED
    BY <2>1, <2>2, <2>3 DEF DiskInv
<1>2. /\ edges = << >> /\ states = << >> /\ reading = Nothing /\ graph = Nothing
      /\ entries \in Seq(Paths) /\ files = Interned(<< >>, entries)
  BY ContentsAssumption DEF Init
<1>3. IsSeq(edges) /\ IsSeq(states) /\ Len(edges) = 0 /\ Len(states) = 0 /\ Elements(edges) = {}
  <2>1. << >> \in Seq(Paths) /\ Len(<< >>) = 0
    BY EmptySeq
  <2>2. IsSeq(<< >>)
    BY <2>1, SeqIsSeq
  <2> QED
    BY <1>2, <2>1, <2>2 DEF Elements, IsSeq
<1>4. /\ files \in Seq(Paths) /\ Distinct(files)
      /\ Elements(files) = Elements(entries) \ {NoFile}
  <2>1. edges \in Seq(Paths) /\ Distinct(edges)
    BY <1>2, <1>3, EmptySeq DEF Distinct
  <2>2. entries \in Seq(Paths \cup {NoFile})
    BY <1>2, SeqMonotonic
  <2>3. /\ files \in Seq(Paths) /\ Distinct(files)
        /\ Elements(files) = Elements(edges) \cup (Elements(entries) \ {NoFile})
    BY <1>2, <2>1, <2>2, InternedFacts
  <2> QED
    BY <1>3, <2>3
<1>5. NoFile \notin Elements(entries)
  <2>1. IsSeq(entries) /\ \A i \in 1 .. Len(entries) : entries[i] \in Paths
    BY <1>2, SeqIsSeq, ElementOfSeq
  <2>2. \A path : path \in Elements(entries) => \E i \in 1 .. Len(entries) : entries[i] = path
    BY <2>1, IdFacts
  <2> QED
    BY <2>1, <2>2, PathsAssumption
<1>6. TablesInv
  BY <1>2, <1>3, <1>4, <1>5, LenProperties DEF TablesInv
<1>7. FoundInv
  BY <1>4, <1>5 DEF FoundInv, HoldsTheFound
<1>8. ReadingInv /\ StatesInv /\ PublishedInv
  BY <1>2, <1>3 DEF ReadingInv, StatesInv, PublishedInv
<1> QED
  BY <1>1, <1>6, <1>7, <1>8 DEF GraphInv

(* An edit makes nobody remember anything else.                            *)
LEMMA EditRemembers ==
    ASSUME DiskInv, Edit
    PROVE  /\ DiskInv'
           /\ \A path \in Paths : \A stamp, content :
                 Remembers(path, stamp, content) => Remembers(path, stamp, content)'
           /\ \A stamp : stamp \in 1 .. edits + 1 => stamp \in (1 .. edits + 1)'
<1>0. PICK path \in Paths : \E content \in Edits[path] :
          disk' = [disk EXCEPT ![path] = IF content = Absent THEN Absent
                                         ELSE Written(edits + 2, content)]
  BY DEF Edit
<1>1. PICK content \in Edits[path] :
          disk' = [disk EXCEPT ![path] = IF content = Absent THEN Absent
                                         ELSE Written(edits + 2, content)]
  BY <1>0
<1>2. edits' = edits + 1 /\ edits \in Nat /\ DOMAIN disk = Paths
  BY DEF Edit, DiskInv
<1>3. content = Absent \/ IsContent(content)
  BY ContentsAssumption
<1>4. /\ DOMAIN disk' = Paths
      /\ \A p \in Paths \ {path} : disk'[p] = disk[p]
      /\ disk'[path] = IF content = Absent THEN Absent ELSE Written(edits + 2, content)
  BY <1>1, <1>2
<1>5. DiskInv'
  BY <1>2, <1>3, <1>4 DEF DiskInv, Written
<1>6. ASSUME NEW p \in Paths, NEW stamp, NEW read, Remembers(p, stamp, read)
      PROVE  Remembers(p, stamp, read)'
  BY <1>2, <1>4, <1>6 DEF Remembers, Written
<1>7. \A stamp : stamp \in 1 .. edits + 1 => stamp \in 1 .. edits' + 1
  BY <1>2
<1> QED
  BY <1>5, <1>6, <1>7

LEMMA ScanStep ==
    ASSUME GraphInv, ScanFile
    PROVE  GraphInv'
<1> DEFINE content == reading.content
<1>0. PICK N : N = Len(edges)
  OBVIOUS
<1>1. /\ Building /\ reading.step = "read"
      /\ AddEdges(Asked(Here, content))
      /\ states' = Append(states, StateRead(reading.stamp))
      /\ reading' = Nothing
      /\ UNCHANGED <<disk, edits, entries, graph>>
  BY DEF ScanFile, Asked
<1>2. /\ entries \in Seq(Paths)
      /\ files \in Seq(Paths) /\ Distinct(files) /\ Elements(entries) \subseteq Elements(files)
      /\ IsSeq(edges) /\ IsSeq(states) /\ Len(states) = N /\ N \in Nat /\ Len(files) \in Nat
  BY <1>0, LenProperties DEF GraphInv, TablesInv, IsSeq
<1>3. N < Len(files) /\ Remembers(Here, reading.stamp, content)
  BY <1>0, <1>1 DEF GraphInv, ReadingInv, Nothing
<1>4. /\ N + 1 \in 1 .. Len(files) /\ Here = files[N + 1] /\ Here \in Paths
      /\ Here \in Elements(files) /\ IsContent(content)
  <2>1. N + 1 \in 1 .. Len(files)
    BY <1>2, <1>3
  <2> QED
    BY <1>0, <1>2, <1>3, <2>1, ElementOfSeq, IdFacts, SeqIsSeq DEF Here, Remembers
<1>5. /\ files' \in Seq(Paths) /\ Distinct(files')
      /\ Len(files) <= Len(files') /\ \A i \in 1 .. Len(files) : files'[i] = files[i]
      /\ Elements(files') = Elements(files) \cup LeadsOf(Here, content)
      /\ IsSeq(edges') /\ Len(edges') = N + 1
      /\ \A n \in 1 .. N : edges'[n] = edges[n]
      /\ AreEdges(files', Here, content, edges'[N + 1])
  BY <1>0, <1>1, <1>2, <1>4, EdgesAdded
<1>6. /\ IsSeq(states') /\ Len(states') = N + 1
      /\ states'[N + 1] = StateRead(reading.stamp)
      /\ \A n \in 1 .. N : states'[n] = states[n]
  BY <1>1, <1>2, Appended
<1>7. /\ \A n \in 1 .. N : n \in 1 .. Len(files) /\ n \in 1 .. N + 1
      /\ \A n \in 1 .. N + 1 : n \in 1 .. N \/ n = N + 1
      /\ N + 1 \in 1 .. N + 1 /\ Len(files') \in Nat
  BY <1>2, <1>3, <1>5, LenProperties
<1>8. TablesInv'
  BY <1>1, <1>2, <1>3, <1>5, <1>6, <1>7 DEF TablesInv
<1>9. \A path, stamp, read : Remembers(path, stamp, read)' <=> Remembers(path, stamp, read)
  BY <1>1 DEF Remembers
<1>10. ASSUME NEW n \in 1 .. N PROVE IsStateOf(n)'
  <2>1. IsStateOf(n)
    BY <1>0 DEF GraphInv, StatesInv
  <2>2. files'[n] = files[n] /\ states'[n] = states[n] /\ edges'[n] = edges[n]
    BY <1>5, <1>6, <1>7
  <2>3. AreEdges(files', files[n], states[n].hash, edges[n])
    BY <1>2, <1>5, <1>7, <2>1, EdgesStay DEF IsStateOf
  <2>4. Remembers(files[n], states[n].stamp, states[n].hash)'
          <=> Remembers(files[n], states[n].stamp, states[n].hash)
    BY <1>1, <2>2 DEF Remembers
  <2> QED
    BY <2>1, <2>2, <2>3, <2>4 DEF IsStateOf
<1>11. IsStateOf(N + 1)'
  <2>1. files'[N + 1] = Here
    BY <1>4, <1>5
  <2>2. states'[N + 1] = [stamp |-> reading.stamp, hash |-> content,
                          failed |-> Here \in Scannable /\ content.parse # "whole"]
    BY <1>6 DEF StateRead
  <2>3. Remembers(files[N + 1], states[N + 1].stamp, states[N + 1].hash)'
    BY <1>1, <1>3, <2>1, <2>2 DEF Remembers
  <2>4. AreEdges(files', files'[N + 1], states'[N + 1].hash, edges'[N + 1])
    BY <1>5, <2>1, <2>2
  <2> QED
    BY <2>1, <2>2, <2>3, <2>4 DEF IsStateOf
<1>12. StatesInv'
  BY <1>5, <1>7, <1>10, <1>11 DEF StatesInv
<1>13. FoundInv'
  <2> SUFFICES ASSUME NEW Z \in SUBSET Paths, HoldsTheFound(Z)' PROVE Elements(files') \subseteq Z
    BY DEF FoundInv
  <2>1. /\ Elements(entries) \subseteq Z
        /\ \A n \in 1 .. N + 1 : files'[n] \in Z => LeadsOf(files'[n], states'[n].hash) \subseteq Z
    BY <1>1, <1>5 DEF HoldsTheFound
  <2>2. \A n \in 1 .. N : files[n] \in Z => LeadsOf(files[n], states[n].hash) \subseteq Z
    BY <1>5, <1>6, <1>7, <2>1
  <2>3. Elements(files) \subseteq Z
    BY <1>0, <2>1, <2>2 DEF GraphInv, FoundInv, HoldsTheFound
  <2>4. LeadsOf(Here, content) \subseteq Z
    <3>1. files'[N + 1] = Here /\ states'[N + 1].hash = content
      BY <1>4, <1>5, <1>6 DEF StateRead
    <3> QED
      BY <1>4, <1>7, <2>1, <2>3, <3>1
  <2> QED
    BY <1>5, <2>3, <2>4
<1>4a. DiskInv' /\ ReadingInv' /\ PublishedInv'
  BY <1>1 DEF GraphInv, DiskInv, ReadingInv, PublishedInv, Building
<1> QED
  BY <1>8, <1>12, <1>13, <1>4a DEF GraphInv

(* What is known of the tables does not depend on anything else.           *)
LEMMA SameTables ==
    ASSUME UNCHANGED <<entries, files, edges, states>>
    PROVE  /\ TablesInv' <=> TablesInv
           /\ FoundInv' <=> FoundInv
           /\ InPathOrder' = InPathOrder
           /\ Here' = Here
<1>1. TablesInv' <=> TablesInv
  BY DEF TablesInv
<1>2. FoundInv' <=> FoundInv
  BY DEF FoundInv, HoldsTheFound
<1>3. InPathOrder' = InPathOrder /\ Here' = Here
  BY DEF InPathOrder, Here
<1> QED
  BY <1>1, <1>2, <1>3

LEMMA EditStep ==
    ASSUME GraphInv, Edit
    PROVE  GraphInv'
<1>1. UNCHANGED <<entries, files, edges, states, reading, graph>>
  BY DEF Edit
<1>2. DiskInv' /\ TablesInv' /\ FoundInv' /\ PublishedInv'
  BY <1>1, EditRemembers, SameTables DEF GraphInv, PublishedInv
<1>3. /\ files \in Seq(Paths) /\ Len(files) \in Nat /\ Len(edges) \in Nat /\ Len(edges) <= Len(files)
      /\ \A n \in 1 .. Len(files) : files[n] \in Paths
  BY LenProperties, ElementOfSeq DEF GraphInv, TablesInv, IsSeq
<1>4. StatesInv'
  <2> SUFFICES ASSUME NEW n \in 1 .. Len(edges) PROVE IsStateOf(n)'
    BY <1>1 DEF StatesInv
  <2>1. IsStateOf(n)
    BY DEF GraphInv, StatesInv
  <2>2. files[n] \in Paths
    BY <1>3
  <2> DEFINE path == files[n]  stamp == states[n].stamp  content == states[n].hash
  <2>3. Remembers(path, stamp, content)' 
    <3>1. PICK p, t, c : p = path /\ t = stamp /\ c = content
      OBVIOUS
    <3>2. Remembers(p, t, c)'
      BY <2>1, <2>2, <3>1, EditRemembers DEF GraphInv, IsStateOf
    <3> QED
      BY <1>1, <3>1, <3>2 DEF Remembers
  <2> QED
    BY <1>1, <2>1, <2>3 DEF IsStateOf
<1>5. ReadingInv'
  <2>1. CASE reading = Nothing
    BY <1>1, <2>1 DEF ReadingInv
  <2>2. CASE /\ Len(edges) < Len(files)
             /\ reading = [step |-> "stamped", stamp |-> reading.stamp]
             /\ reading.stamp \in 1 .. edits + 1
    <3>1. reading.stamp \in 1 .. edits' + 1
      BY <2>2, EditRemembers DEF GraphInv
    <3> QED
      BY <1>1, <2>2, <3>1 DEF ReadingInv
  <2>3. CASE /\ Len(edges) < Len(files)
             /\ reading = [step |-> "read", stamp |-> reading.stamp, content |-> reading.content]
             /\ Remembers(Here, reading.stamp, reading.content)
    <3>1. Here \in Paths
      BY <1>3, <2>3 DEF Here
    <3>2. PICK p, t, c : p = Here /\ t = reading.stamp /\ c = reading.content
      OBVIOUS
    <3>3. Remembers(p, t, c)'
      BY <2>3, <3>1, <3>2, EditRemembers DEF GraphInv
    <3>4. Remembers(Here, reading.stamp, reading.content)'
      BY <1>1, <3>2, <3>3, SameTables DEF Remembers
    <3> QED
      BY <1>1, <2>3, <3>4 DEF ReadingInv
  <2> QED
    BY <2>1, <2>2, <2>3 DEF GraphInv, ReadingInv
<1> QED
  BY <1>2, <1>4, <1>5 DEF GraphInv

(* The other steps read the disk, publish, or fail.                        *)
LEMMA OtherSteps ==
    ASSUME GraphInv, UNCHANGED <<disk, edits, entries, files, edges, states>>,
           ReadingInv', PublishedInv'
    PROVE  GraphInv'
<1>1. TablesInv' /\ FoundInv' /\ DiskInv'
  BY SameTables DEF GraphInv, DiskInv
<1>2. StatesInv'
  BY DEF GraphInv, StatesInv, IsStateOf, Remembers
<1> QED
  BY <1>1, <1>2 DEF GraphInv

LEMMA StepGraph == GraphInv /\ [Next]_vars => GraphInv'
<1> SUFFICES ASSUME GraphInv, [Next]_vars PROVE GraphInv'
  OBVIOUS
<1>0. /\ Len(edges) < Len(files) => Here \in Paths
      /\ DiskInv
  <2>1. Len(edges) < Len(files) => Len(edges) + 1 \in 1 .. Len(files)
    BY LenProperties DEF GraphInv, TablesInv, IsSeq
  <2> QED
    BY <2>1, ElementOfSeq DEF GraphInv, TablesInv, Here
<1>1. CASE TakeFingerprint
  <2>1. CASE disk[Here] = Absent
    BY <1>1, <2>1, OtherSteps DEF TakeFingerprint, Fails, GraphInv, ReadingInv, PublishedInv, Nothing
  <2>2. CASE disk[Here] # Absent
    <3>1. /\ Len(edges) < Len(files) /\ reading' = [step |-> "stamped", stamp |-> disk[Here].stamp]
          /\ UNCHANGED <<disk, edits, entries, files, edges, states, graph>>
      BY <1>1, <2>2 DEF TakeFingerprint
    <3>2. disk[Here].stamp \in 1 .. edits + 1
      BY <1>0, <2>2, <3>1 DEF DiskInv
    <3>3. ReadingInv' /\ PublishedInv'
      BY <3>1, <3>2, SameTables DEF ReadingInv, GraphInv, PublishedInv
    <3> QED
      BY <3>1, <3>3, OtherSteps
  <2> QED
    BY <2>1, <2>2
<1>2. CASE Read
  <2>1. CASE disk[Here] = Absent
    <3>1. UNCHANGED <<disk, edits, entries, files, edges, states, reading>> /\ PublishedInv'
      BY <1>2, <2>1 DEF Read, Fails, PublishedInv
    <3>2. ReadingInv'
      BY <3>1, SameTables DEF GraphInv, ReadingInv, Remembers
    <3> QED
      BY <3>1, <3>2, OtherSteps
  <2>2. CASE disk[Here] # Absent
    <3>1. /\ reading.step = "stamped"
          /\ reading' = [step |-> "read", stamp |-> reading.stamp, content |-> disk[Here].content]
          /\ UNCHANGED <<disk, edits, entries, files, edges, states, graph>>
      BY <1>2, <2>2 DEF Read
    <3>2. Len(edges) < Len(files) /\ reading.stamp \in 1 .. edits + 1
      BY <3>1 DEF GraphInv, ReadingInv, Nothing
    <3>3. Remembers(Here, reading.stamp, disk[Here].content)
      BY <1>0, <2>2, <3>2 DEF Remembers, DiskInv
    <3>4. ReadingInv' /\ PublishedInv'
      BY <3>1, <3>2, <3>3, SameTables DEF ReadingInv, GraphInv, PublishedInv, Remembers
    <3> QED
      BY <3>1, <3>4, OtherSteps
  <2> QED
    BY <2>1, <2>2
<1>3. CASE Publish
  <2>1. /\ graph' = InPathOrder /\ Len(edges) = Len(files)
        /\ UNCHANGED <<disk, edits, entries, files, edges, states, reading>>
    BY <1>3 DEF Publish
  <2>2. ReadingInv' /\ PublishedInv'
    BY <2>1, SameTables DEF GraphInv, ReadingInv, PublishedInv, Remembers
  <2> QED
    BY <2>1, <2>2, OtherSteps
<1>4. CASE UNCHANGED vars
  <2>1. ReadingInv' /\ PublishedInv'
    BY <1>4, SameTables DEF vars, GraphInv, ReadingInv, PublishedInv, Remembers
  <2> QED
    BY <1>4, <2>1, OtherSteps DEF vars
<1> QED
  BY <1>1, <1>2, <1>3, <1>4, ScanStep, EditStep DEF Next, Build, Done

THEOREM GraphIsTracked == Spec => []GraphInv
  BY InitGraph, StepGraph, PTL DEF Spec

-----------------------------------------------------------------------------
(* What is published: the same files, states and edges, numbered by path.  *)

IsPublished(n) ==
    /\ graph.states[n].failed =
          (graph.files[n] \in Scannable /\ graph.states[n].hash.parse # "whole")
    /\ Remembers(graph.files[n], graph.states[n].stamp, graph.states[n].hash)
    /\ AreEdges(graph.files, graph.files[n], graph.states[n].hash, graph.edges[n])

LEMMA PublishedFacts ==
    ASSUME GraphInv, IsBuilt
    PROVE  /\ graph.files \in Seq(Paths) /\ IsSeq(graph.files) /\ Distinct(graph.files)
           /\ \A m, n \in 1 .. Len(graph.files) : m < n => graph.files[m] < graph.files[n]
           /\ Elements(graph.files) = Elements(files)
           /\ \A n \in 1 .. Len(graph.files) :
                 /\ IsPublished(n)
                 /\ \E m \in 1 .. Len(edges) : /\ files[m] = graph.files[n]
                                               /\ states[m] = graph.states[n]
           /\ \A m \in 1 .. Len(edges) : \E n \in 1 .. Len(graph.files) :
                 files[m] = graph.files[n] /\ states[m] = graph.states[n]
<1> DEFINE V == DOMAIN files
           order == InOrder(V, files)
           N == Len(files)
           Renumbered(edge) == [edge EXCEPT !.target = IF @ = NoFile THEN @ ELSE IdOf(order, @)]
<1>1. graph = InPathOrder /\ Len(edges) = N /\ Len(states) = N
  BY DEF GraphInv, PublishedInv, TablesInv, IsBuilt, Nothing
<1>2. /\ files \in Seq(Paths) /\ Distinct(files) /\ N \in Nat /\ V = 1 .. N
      /\ \A m \in V : files[m] \in Paths
  BY LenProperties, ElementOfSeq DEF GraphInv, TablesInv
<1>3. IsKey(V, files) /\ Cardinality(V) = N
  <2>1. IsFiniteSet(V) /\ Cardinality(V) = N
    BY <1>2, FS_Interval, SMTT(30)
  <2>2. \A m \in V : files[m] \in Nat
    BY <1>2, PathsAssumption
  <2> QED
    BY <1>2, <2>1, <2>2 DEF IsKey, Distinct
<1> HIDE DEF V, order, N
<1>4. /\ order \in Seq(V) /\ Len(order) = N
      /\ \A m \in V : PlaceOf(V, files, m) \in 1 .. Len(order) /\ order[PlaceOf(V, files, m)] = m
      /\ \A n \in 1 .. Len(order) : PlaceOf(V, files, order[n]) = n
      /\ \A m, n \in 1 .. Len(order) : m < n => files[order[m]] < files[order[n]]
  BY <1>3, OrderFacts DEF order
<1>4a. \A m \in V : \E n \in 1 .. N : order[n] = m
  BY <1>4
<1>5. /\ IsSeq(order) /\ DOMAIN order = 1 .. N /\ \A n \in 1 .. N : order[n] \in V
      /\ \A m \in V : m \in Elements(order)
  <2>1. IsSeq(order) /\ DOMAIN order = 1 .. N /\ \A n \in 1 .. N : order[n] \in V
    BY <1>4, SeqIsSeq, LenProperties, ElementOfSeq
  <2>2. \A m \in V : \E n \in DOMAIN order : order[n] = m
    BY <1>4, <2>1
  <2> QED
    BY <2>1, <2>2 DEF Elements
<1>6. /\ graph.files = [n \in 1 .. N |-> files[order[n]]]
      /\ graph.states = [n \in 1 .. N |-> states[order[n]]]
      /\ graph.edges = [n \in 1 .. N |->
                          [i \in DOMAIN edges[order[n]] |-> Renumbered(edges[order[n]][i])]]
  BY <1>1, <1>5 DEF InPathOrder, order, V
<1>7. /\ graph.files \in Seq(Paths) /\ IsSeq(graph.files) /\ Len(graph.files) = N
      /\ \A n \in 1 .. N : graph.files[n] = files[order[n]] /\ graph.states[n] = states[order[n]]
  <2>1. graph.files \in [1 .. N -> Paths]
    BY <1>2, <1>5, <1>6
  <2>2. graph.files \in Seq(Paths) /\ Len(graph.files) = N
    BY <1>2, <2>1, SeqDef
  <2> QED
    BY <1>6, <2>2, SeqIsSeq
<1>8. \A m, n \in 1 .. N : m < n => graph.files[m] < graph.files[n]
  BY <1>4, <1>7
<1>9. Distinct(graph.files)
  <2>1. \A n \in 1 .. N : graph.files[n] \in Nat
    BY <1>7, ElementOfSeq, PathsAssumption
  <2> SUFFICES ASSUME NEW m \in 1 .. N, NEW n \in 1 .. N, graph.files[m] = graph.files[n] PROVE m = n
    BY <1>7 DEF Distinct
  <2> QED
    BY <1>2, <1>8, <2>1
<1>10. Elements(graph.files) = Elements(files)
  <2>1. \A path : path \in Elements(files) <=> \E m \in V : files[m] = path
    BY DEF Elements, V
  <2>2. \A path : path \in Elements(graph.files) <=> \E n \in 1 .. N : files[order[n]] = path
    BY <1>6 DEF Elements
  <2>3. \A path : (\E m \in V : files[m] = path) <=> \E n \in 1 .. N : files[order[n]] = path
    BY <1>5, <1>4a
  <2> QED
    BY <2>1, <2>2, <2>3
<1>11. ASSUME NEW n \in 1 .. N PROVE IsPublished(n)
  <2> DEFINE m == order[n]
             asked == Asked(files[m], states[m].hash)
             list == graph.edges[n]
  <2>1. m \in V /\ m \in 1 .. N /\ IsStateOf(m)
    BY <1>1, <1>2, <1>5 DEF GraphInv, StatesInv, N
  <2>2. graph.files[n] = files[m] /\ graph.states[n] = states[m]
    BY <1>7
  <2>3. list = [i \in DOMAIN edges[m] |-> Renumbered(edges[m][i])]
    BY <1>6
  <2>4. AreEdges(files, files[m], states[m].hash, edges[m])
    BY <2>1 DEF IsStateOf
  <2> HIDE DEF m, list
  <2>5. /\ edges[m] = [i \in 1 .. Len(asked) |->
                         [specifier |-> asked[i].specifier, kind |-> Kind(asked[i]),
                          target |-> edges[m][i].target]]
        /\ \A i \in 1 .. Len(asked) :
              IF Resolve(files[m], asked[i]) = NoFile THEN edges[m][i].target = NoFile
              ELSE /\ edges[m][i].target \in 1 .. N
                   /\ files[edges[m][i].target] = Resolve(files[m], asked[i])
    BY <2>4 DEF AreEdges, N
  <2> HIDE DEF asked
  <2>6. ASSUME NEW i \in 1 .. Len(asked)
        PROVE  list[i] = [specifier |-> asked[i].specifier, kind |-> Kind(asked[i]),
                          target |-> IF edges[m][i].target = NoFile THEN NoFile
                                     ELSE IdOf(order, edges[m][i].target)]
    <3>1. edges[m][i] = [specifier |-> asked[i].specifier, kind |-> Kind(asked[i]),
                         target |-> edges[m][i].target]
      BY <2>5
    <3>2. list[i] = Renumbered(edges[m][i])
      BY <2>3, <2>5
    <3> QED
      BY <3>1, <3>2
  <2>7. list = [i \in 1 .. Len(asked) |->
                   [specifier |-> asked[i].specifier, kind |-> Kind(asked[i]),
                    target |-> list[i].target]]
    <3>1. DOMAIN list = 1 .. Len(asked) /\ list = [i \in 1 .. Len(asked) |-> list[i]]
      BY <2>3, <2>5
    <3>2. \A i \in 1 .. Len(asked) :
             list[i] = [specifier |-> asked[i].specifier, kind |-> Kind(asked[i]),
                        target |-> list[i].target]
      <4> SUFFICES ASSUME NEW i \in 1 .. Len(asked)
                   PROVE  list[i] = [specifier |-> asked[i].specifier, kind |-> Kind(asked[i]),
                                     target |-> list[i].target]
        OBVIOUS
      <4>1. PICK t : list[i] = [specifier |-> asked[i].specifier, kind |-> Kind(asked[i]),
                                target |-> t]
        BY <2>6
      <4> QED
        BY <4>1
    <3> QED
      BY <3>1, <3>2
  <2>8. ASSUME NEW i \in 1 .. Len(asked)
        PROVE  IF Resolve(files[m], asked[i]) = NoFile THEN list[i].target = NoFile
               ELSE /\ list[i].target \in 1 .. N
                    /\ graph.files[list[i].target] = Resolve(files[m], asked[i])
    <3>1. CASE Resolve(files[m], asked[i]) = NoFile
      BY <2>5, <2>6, <3>1
    <3>2. CASE Resolve(files[m], asked[i]) # NoFile
      <4> DEFINE t == edges[m][i].target
      <4>1. t \in 1 .. N /\ files[t] = Resolve(files[m], asked[i])
        BY <2>5, <3>2
      <4>2. t # NoFile /\ t \in V
        BY <1>2, <4>1 DEF NoFile
      <4>2a. list[i].target = IF t = NoFile THEN NoFile ELSE IdOf(order, t)
        <5>1. PICK u : u = IF t = NoFile THEN NoFile ELSE IdOf(order, t)
          OBVIOUS
        <5>2. list[i] = [specifier |-> asked[i].specifier, kind |-> Kind(asked[i]), target |-> u]
          BY <2>6, <5>1
        <5> QED
          BY <5>1, <5>2
      <4>3. list[i].target = IdOf(order, t)
        BY <4>2, <4>2a
      <4>4. IdOf(order, t) \in 1 .. N /\ order[IdOf(order, t)] = t
        BY <1>4, <1>5, <4>2, IdFacts
      <4> QED
        BY <1>7, <3>2, <4>1, <4>3, <4>4
    <3> QED
      BY <3>1, <3>2
  <2>9. AreEdges(graph.files, graph.files[n], graph.states[n].hash, graph.edges[n])
    BY <1>7, <2>2, <2>7, <2>8 DEF AreEdges, asked, list
  <2>10. /\ states[m] = [stamp |-> states[m].stamp, hash |-> states[m].hash,
                         failed |-> files[m] \in Scannable /\ states[m].hash.parse # "whole"]
         /\ Remembers(files[m], states[m].stamp, states[m].hash)
    BY <2>1 DEF IsStateOf
  <2> QED
    BY <2>2, <2>9, <2>10 DEF IsPublished
<1>12. \A n \in 1 .. N : \E m \in 1 .. N : files[m] = graph.files[n] /\ states[m] = graph.states[n]
  BY <1>2, <1>5, <1>7
<1>13. \A m \in 1 .. N : \E n \in 1 .. N : files[m] = graph.files[n] /\ states[m] = graph.states[n]
  <2> SUFFICES ASSUME NEW m \in 1 .. N
               PROVE  \E n \in 1 .. N : files[m] = graph.files[n] /\ states[m] = graph.states[n]
    OBVIOUS
  <2>1. PICK n \in 1 .. N : order[n] = m
    BY <1>2, <1>4a
  <2>2. files[m] = graph.files[n] /\ states[m] = graph.states[n]
    BY <1>7, <2>1
  <2> QED
    BY <2>2
<1>14. Len(graph.files) = N /\ Len(edges) = N
  BY <1>1, <1>7
<1>15. \A n \in 1 .. N : /\ IsPublished(n)
                          /\ \E m \in 1 .. N : /\ files[m] = graph.files[n]
                                               /\ states[m] = graph.states[n]
  BY <1>11, <1>12
<1> QED
  BY <1>7, <1>8, <1>9, <1>10, <1>13, <1>14, <1>15

-----------------------------------------------------------------------------
(* graph.rs: "The fingerprint is taken before the read."  For any contents *)
(* and any number of edits, whenever they happen: a file is called changed *)
(* exactly when it no longer holds what its edges were read from.          *)
THEOREM ChangesSeen == Spec => []ChangesAreSeen
<1>1. GraphInv => ChangesAreSeen
  <2> SUFFICES ASSUME GraphInv, IsBuilt, NEW n \in Ids
               PROVE  n \in ChangedFiles <=>
                         \/ disk[graph.files[n]] = Absent
                         \/ disk[graph.files[n]].content # graph.states[n].hash
    BY DEF ChangesAreSeen
  <2>1. Remembers(graph.files[n], graph.states[n].stamp, graph.states[n].hash)
    BY PublishedFacts DEF Ids, IsPublished, IsSeq
  <2> QED
    BY <2>1 DEF ChangedFiles, IsUnchanged, Remembers
<1> QED
  BY <1>1, GraphIsTracked, PTL

(* The graph is determined by what was read: neither the order of the      *)
(* entries nor that of discovery shows in it.                              *)

(* The files are those the entries lead to.                                *)
LEMMA FoundFiles ==
    ASSUME GraphInv, IsBuilt
    PROVE  LET found == Elements(graph.files)
               leads == [p \in found |-> LeadsOf(p, graph.states[IdOf(graph.files, p)].hash)]
           IN  /\ leads \in [found -> SUBSET found]
               /\ Elements(entries) \subseteq found
               /\ found = UNION {Reachable(leads)[p] : p \in Elements(entries)}
<1> DEFINE found == Elements(graph.files)
           ContentOf(p) == graph.states[IdOf(graph.files, p)].hash
           leads == [p \in found |-> LeadsOf(p, ContentOf(p))]
           reached == UNION {Reachable(leads)[p] : p \in Elements(entries)}
<1>1. /\ graph.files \in Seq(Paths) /\ IsSeq(graph.files) /\ Distinct(graph.files)
      /\ found = Elements(files)
      /\ \A n \in 1 .. Len(graph.files) : IsPublished(n)
      /\ \A m \in 1 .. Len(edges) : \E n \in 1 .. Len(graph.files) :
            files[m] = graph.files[n] /\ states[m] = graph.states[n]
  BY PublishedFacts
<1>2. \A p \in found :
         /\ IdOf(graph.files, p) \in 1 .. Len(graph.files)
         /\ graph.files[IdOf(graph.files, p)] = p
  BY <1>1, IdFacts
<1>3. \A n \in 1 .. Len(graph.files) :
         /\ graph.files[n] \in found /\ graph.files[n] \in Paths
         /\ ContentOf(graph.files[n]) = graph.states[n].hash
  BY <1>1, IdFacts, ElementOfSeq
<1>4. Elements(entries) \subseteq found /\ found \subseteq Paths
  <2>1. Elements(entries) \subseteq found
    BY <1>1 DEF GraphInv, TablesInv
  <2> QED
    BY <1>2, <1>3, <2>1
<1>5. ASSUME NEW p \in found, NEW t \in LeadsOf(p, ContentOf(p)) PROVE t \in found
  <2> DEFINE n == IdOf(graph.files, p)
             content == graph.states[n].hash
             asked == Asked(p, content)
  <2>1. n \in 1 .. Len(graph.files) /\ graph.files[n] = p /\ p \in Paths
    BY <1>2, <1>4
  <2> HIDE DEF n
  <2>2. IsContent(content) /\ AreEdges(graph.files, p, content, graph.edges[n])
    BY <1>1, <2>1 DEF IsPublished, Remembers
  <2>3. PICK r \in Statements(p, content) : t = Resolve(p, r) /\ t # NoFile
    BY DEF LeadsOf, n
  <2>4. PICK i \in 1 .. Len(asked) : asked[i] = r
    <3> DEFINE S == Statements(p, content)
    <3>1. \A q \in S : LET k == Cardinality({x \in S : x.place <= q.place})
                      IN  k \in 1 .. Len(asked) /\ asked[k] = q
      BY <2>1, <2>2, AskedFacts
    <3>2. r \in S
      BY <2>3
    <3> HIDE DEF S, asked
    <3> QED
      BY <3>1, <3>2
  <2>5. PICK id \in 1 .. Len(graph.files) : graph.files[id] = t
    BY <2>2, <2>3, <2>4 DEF AreEdges
  <2> QED
    BY <1>3, <2>5
<1>6. leads \in [found -> SUBSET found] /\ Nodes(leads) = found
  BY <1>5 DEF Nodes
<1>7. /\ Reachable(leads) \in [found -> SUBSET found]
      /\ \A p \in found : p \in Reachable(leads)[p]
      /\ \A p \in found : \A q \in Reachable(leads)[p] : leads[q] \subseteq Reachable(leads)[p]
  <2> HIDE DEF leads, found
  <2> QED
    BY <1>6, ReachableFacts
<1>8. reached \subseteq found /\ Elements(entries) \subseteq reached
  <2> HIDE DEF leads, found
  <2> QED
    BY <1>4, <1>7
<1>9. \A q \in reached : leads[q] \subseteq reached
  <2> HIDE DEF leads, found
  <2> QED
    BY <1>4, <1>7
<1>10. ASSUME NEW m \in 1 .. Len(edges), files[m] \in reached
       PROVE  LeadsOf(files[m], states[m].hash) \subseteq reached
  <2>1. PICK n \in 1 .. Len(graph.files) : files[m] = graph.files[n] /\ states[m] = graph.states[n]
    BY <1>1
  <2>2. leads[files[m]] = LeadsOf(files[m], states[m].hash)
    <3> HIDE DEF found
    <3> QED
      BY <1>3, <2>1
  <2> QED
    BY <1>9, <1>10, <2>2
<1> HIDE DEF reached
<1>11. HoldsTheFound(reached) /\ reached \in SUBSET Paths
  BY <1>4, <1>8, <1>10 DEF HoldsTheFound
<1>12. found \subseteq reached
  BY <1>1, <1>11 DEF GraphInv, FoundInv
<1> QED
  BY <1>4, <1>6, <1>8, <1>12 DEF reached

THEOREM ReadAndNothingElse == Spec => []GraphIsWhatWasRead
<1>1. GraphInv => GraphIsWhatWasRead
  <2> SUFFICES ASSUME GraphInv, IsBuilt PROVE GraphIsWhatWasRead
    BY DEF GraphIsWhatWasRead
  <2> DEFINE content == [n \in Ids |-> graph.states[n].hash]
             PathOf(id) == IF id = NoFile THEN NoFile ELSE graph.files[id]
             found == Elements(graph.files)
             leads == [p \in found |->
                         {Resolve(p, r) : r \in Statements(p, content[IdOf(graph.files, p)])} \ {NoFile}]
             read == [p \in found |-> LeadsOf(p, graph.states[IdOf(graph.files, p)].hash)]
  <2>1. /\ graph.files \in Seq(Paths) /\ IsSeq(graph.files) /\ Distinct(graph.files)
        /\ \A m, n \in 1 .. Len(graph.files) : m < n => graph.files[m] < graph.files[n]
        /\ \A n \in 1 .. Len(graph.files) : IsPublished(n)
    BY PublishedFacts
  <2>2. Ids = 1 .. Len(graph.files)
    BY <2>1, LenProperties DEF Ids
  <2>3. \A p \in found : IdOf(graph.files, p) \in Ids
    BY <2>1, <2>2, IdFacts
  <2>4. leads = read
    <3>1. \A p \in found : content[IdOf(graph.files, p)] = graph.states[IdOf(graph.files, p)].hash
      BY <2>3
    <3> QED
      BY <3>1 DEF LeadsOf
  <2>5. found = UNION {Reachable(leads)[p] : p \in Elements(entries)}
    <3>1. found = UNION {Reachable(read)[p] : p \in Elements(entries)}
      BY FoundFiles
    <3> HIDE DEF leads, read, found
    <3> QED
      BY <2>4, <3>1
  <2>6. ASSUME NEW n \in Ids
        PROVE  LET statements == Statements(graph.files[n], content[n])
               IN  /\ Len(graph.edges[n]) = Cardinality(statements)
                   /\ \A r \in statements :
                         LET i == Cardinality({q \in statements : q.place <= r.place})
                             edge == graph.edges[n][i]
                         IN  /\ edge.specifier = r.specifier /\ edge.kind = Kind(r)
                             /\ PathOf(edge.target) = Resolve(graph.files[n], r)
                   /\ content[n].parse = "fatal" /\ graph.files[n] \in Scannable
                         => graph.states[n].failed
    <3> DEFINE path == graph.files[n]
               c == graph.states[n].hash
               S == Statements(path, c)
               asked == Asked(path, c)
               list == graph.edges[n]
    <3>1. content[n] = c
      OBVIOUS
    <3>2. IsPublished(n) /\ path \in Paths
      BY <2>1, <2>2, ElementOfSeq
    <3>3. /\ IsContent(c)
          /\ graph.states[n].failed = (path \in Scannable /\ c.parse # "whole")
          /\ AreEdges(graph.files, path, c, list)
      BY <3>2 DEF IsPublished, Remembers
    <3> HIDE DEF path, c, list
    <3>4. /\ Len(asked) \in Nat /\ Len(asked) = Cardinality(S)
          /\ \A r \in S : LET i == Cardinality({q \in S : q.place <= r.place})
                          IN  i \in 1 .. Len(asked) /\ asked[i] = r
      <4>1. /\ IsSeq(asked) /\ Len(asked) = Cardinality(S)
            /\ \A r \in S : LET i == Cardinality({q \in S : q.place <= r.place})
                            IN  i \in 1 .. Len(asked) /\ asked[i] = r
        BY <3>2, <3>3, AskedFacts DEF path
      <4> QED
        BY <4>1 DEF IsSeq
    <3>5. /\ list = [i \in 1 .. Len(asked) |->
                      [specifier |-> asked[i].specifier, kind |-> Kind(asked[i]),
                       target |-> list[i].target]]
          /\ \A i \in 1 .. Len(asked) :
                IF Resolve(path, asked[i]) = NoFile THEN list[i].target = NoFile
                ELSE /\ list[i].target \in 1 .. Len(graph.files)
                     /\ graph.files[list[i].target] = Resolve(path, asked[i])
      BY <3>3 DEF AreEdges
    <3> HIDE DEF asked, S
    <3>6. Len(list) = Cardinality(S)
      <4>1. \E list0 : list0 \in [1 .. Len(asked) -> {list[i] : i \in 1 .. Len(asked)}] /\ list0 = list
        BY <3>5
      <4>2. list \in Seq({list[i] : i \in 1 .. Len(asked)}) /\ Len(list) = Len(asked)
        BY <3>4, <4>1, SeqDef
      <4> QED
        BY <3>4, <4>2
    <3>7. ASSUME NEW r \in S
          PROVE  LET i == Cardinality({q \in S : q.place <= r.place})
                     edge == list[i]
                 IN  /\ edge.specifier = r.specifier /\ edge.kind = Kind(r)
                     /\ PathOf(edge.target) = Resolve(path, r)
      <4>1. PICK i \in 1 .. Len(asked) :
                i = Cardinality({q \in S : q.place <= r.place}) /\ asked[i] = r
        BY <3>4
      <4>2. list[i] = [specifier |-> r.specifier, kind |-> Kind(r), target |-> list[i].target]
        BY <3>5, <4>1
      <4>3. PathOf(list[i].target) = Resolve(path, r)
        BY <3>5, <4>1 DEF NoFile
      <4>4. list[i].specifier = r.specifier /\ list[i].kind = Kind(r)
        BY <4>2
      <4> QED
        BY <4>1, <4>3, <4>4
    <3>8. c.parse = "fatal" /\ path \in Scannable => graph.states[n].failed
      BY <3>3
    <3> QED
      BY <3>1, <3>6, <3>7, <3>8 DEF S, path, list
  <2>7. \A m, n \in Ids : m < n => graph.files[m] < graph.files[n]
    BY <2>1, <2>2
  <2> QED
    BY <2>5, <2>6, <2>7 DEF GraphIsWhatWasRead
<1> QED
  BY <1>1, GraphIsTracked, PTL

-----------------------------------------------------------------------------
(* Reads and layers.  The file an import reads from is looked up by its    *)
(* specifier, and the first edge of that may be a dynamic import's, which  *)
(* orders nothing.  A dynamic import is resolved as a value and the import *)
(* that reads may be a type's: the theorem is about those resolvers whose  *)
(* two answers agree wherever the value's is a file that is checked.       *)
LookupsAgree ==
    \A from \in Paths, s \in Specifiers :
        LET value == WithTypes(from, s, Runtime[from][s])
        IN  value \in Scannable \ JavaScript => value = WithTypes(from, s, Declared[from][s])

LEMMA SameLookup ==
    ASSUME LookupsAgree, NEW path \in Paths, NEW q, NEW r,
           q.form = "dynamic", q.specifier \in Specifiers, q.specifier = r.specifier,
           Resolve(path, q) \in Scannable \ JavaScript
    PROVE  Resolve(path, r) = Resolve(path, q)
<1> DEFINE s == q.specifier
           value == WithTypes(path, s, Runtime[path][s])
           dts == WithTypes(path, s, Declared[path][s])
<1>1. value \in Scannable \ JavaScript => value = dts
  BY DEF LookupsAgree
<1>2. Resolve(path, q) = IF value = NoFile THEN dts ELSE value
  BY DEF Resolve, IsType
<1>3. Resolve(path, r) = IF IsType(r) \/ value = NoFile THEN dts ELSE value
  BY DEF Resolve
<1> QED
  BY <1>1, <1>2, <1>3

(* The published edges, each with the statement it comes from.             *)
LEMMA EdgeFacts ==
    ASSUME GraphInv, IsBuilt, NEW n \in Ids
    PROVE  LET asked == Asked(graph.files[n], graph.states[n].hash)
               list == graph.edges[n]
           IN  /\ graph.files[n] \in Paths
               /\ DOMAIN list = 1 .. Len(asked) /\ Len(asked) \in Nat
               /\ \A i \in 1 .. Len(asked) :
                     LET found == Resolve(graph.files[n], asked[i])
                     IN  /\ asked[i].form \in Forms /\ asked[i].specifier \in Specifiers
                         /\ list[i].specifier = asked[i].specifier
                         /\ list[i].kind = Kind(asked[i])
                         /\ IF found = NoFile THEN list[i].target = NoFile
                            ELSE list[i].target \in Ids /\ graph.files[list[i].target] = found
<1> DEFINE path == graph.files[n]
           content == graph.states[n].hash
           S == Statements(path, content)
           asked == Asked(path, content)
           list == graph.edges[n]
<1>1. /\ graph.files \in Seq(Paths) /\ IsSeq(graph.files)
      /\ \A m \in 1 .. Len(graph.files) : IsPublished(m)
  BY PublishedFacts
<1>2. Ids = 1 .. Len(graph.files)
  BY <1>1, LenProperties DEF Ids
<1>3. path \in Paths /\ IsPublished(n)
  BY <1>1, <1>2, ElementOfSeq
<1>4. IsContent(content) /\ AreEdges(graph.files, path, content, list)
  BY <1>3 DEF IsPublished, Remembers
<1> HIDE DEF path, content, list
<1>5. asked \in Seq(S) /\ \A r \in S : r.specifier \in Specifiers /\ r.form \in Forms
  BY <1>3, <1>4, AskedFacts, StatementFacts
<1>6. /\ list = [i \in 1 .. Len(asked) |->
                   [specifier |-> asked[i].specifier, kind |-> Kind(asked[i]),
                    target |-> list[i].target]]
      /\ \A i \in 1 .. Len(asked) :
            IF Resolve(path, asked[i]) = NoFile THEN list[i].target = NoFile
            ELSE /\ list[i].target \in 1 .. Len(graph.files)
                 /\ graph.files[list[i].target] = Resolve(path, asked[i])
  BY <1>4 DEF AreEdges
<1> HIDE DEF asked, S
<1>7. Len(asked) \in Nat /\ \A i \in 1 .. Len(asked) : asked[i] \in S
  BY <1>5, LenProperties, ElementOfSeq
<1>8. \A i \in 1 .. Len(asked) :
         list[i].specifier = asked[i].specifier /\ list[i].kind = Kind(asked[i])
  <2> SUFFICES ASSUME NEW i \in 1 .. Len(asked)
               PROVE  list[i].specifier = asked[i].specifier /\ list[i].kind = Kind(asked[i])
    OBVIOUS
  <2>1. PICK t : list[i] = [specifier |-> asked[i].specifier, kind |-> Kind(asked[i]),
                            target |-> t]
    BY <1>6
  <2> QED
    BY <2>1
<1>9. DOMAIN list = 1 .. Len(asked)
  BY <1>6
<1>10. \A i \in 1 .. Len(asked) :
          LET found == Resolve(path, asked[i])
          IN  /\ asked[i].form \in Forms /\ asked[i].specifier \in Specifiers
              /\ list[i].specifier = asked[i].specifier
              /\ list[i].kind = Kind(asked[i])
              /\ IF found = NoFile THEN list[i].target = NoFile
                 ELSE list[i].target \in Ids /\ graph.files[list[i].target] = found
  <2> SUFFICES ASSUME NEW i \in 1 .. Len(asked)
               PROVE  /\ asked[i].form \in Forms /\ asked[i].specifier \in Specifiers
                      /\ IF Resolve(path, asked[i]) = NoFile THEN list[i].target = NoFile
                         ELSE /\ list[i].target \in Ids
                              /\ graph.files[list[i].target] = Resolve(path, asked[i])
    BY <1>8
  <2>1. asked[i].form \in Forms /\ asked[i].specifier \in Specifiers
    BY <1>5, <1>7
  <2> QED
    BY <1>2, <1>6, <2>1
<1> QED
  BY <1>3, <1>7, <1>9, <1>10 DEF asked, path, content, list

LEMMA DependenciesAreGraph ==
    ASSUME GraphInv, IsBuilt
    PROVE  IsGraph(Dependencies) /\ Nodes(Dependencies) = Ids
<1>1. Ids = 1 .. Len(graph.files) /\ Len(graph.files) \in Nat
  BY PublishedFacts, LenProperties DEF Ids
<1>2. IsFiniteSet(Ids)
  BY <1>1, FS_Interval
<1>3. ASSUME NEW n \in Ids, NEW e \in Elements(graph.edges[n]), e.target # NoFile
      PROVE  e.target \in Ids
  <2>1. PICK i \in DOMAIN graph.edges[n] : e = graph.edges[n][i]
    BY DEF Elements
  <2> QED
    BY <1>3, <2>1, EdgeFacts
<1>4. Dependencies \in [Ids -> SUBSET Ids] /\ Nodes(Dependencies) = Ids
  BY <1>3 DEF Dependencies, Nodes
<1> QED
  BY <1>2, <1>4 DEF IsGraph

(* Whichever edge answers the lookup, the file is a dependency.            *)
LEMMA TargetIsDependency ==
    ASSUME LookupsAgree, GraphInv, IsBuilt, NEW n \in Ids, NEW e \in StaticEdges(n),
           Target(n, e.specifier) # NoFile,
           graph.files[Target(n, e.specifier)] \in Scannable \ JavaScript
    PROVE  Target(n, e.specifier) \in Dependencies[n]
<1> DEFINE list == graph.edges[n]
           path == graph.files[n]
           asked == Asked(path, graph.states[n].hash)
           mentions == {i \in DOMAIN list : list[i].specifier = e.specifier}
           t == Target(n, e.specifier)
<1>1. PICK k \in DOMAIN list : e = list[k] /\ e.kind # "DynamicImport"
  BY DEF StaticEdges, Elements
<1>2. /\ path \in Paths /\ DOMAIN list = 1 .. Len(asked) /\ Len(asked) \in Nat
      /\ \A i \in 1 .. Len(asked) :
            LET found == Resolve(path, asked[i])
            IN  /\ asked[i].form \in Forms /\ asked[i].specifier \in Specifiers
                /\ list[i].specifier = asked[i].specifier
                /\ list[i].kind = Kind(asked[i])
                /\ IF found = NoFile THEN list[i].target = NoFile
                   ELSE list[i].target \in Ids /\ graph.files[list[i].target] = found
  BY EdgeFacts
<1>2a. path \in Paths
  BY <1>2
<1> DEFINE first == CHOOSE i \in mentions : \A j \in mentions : i <= j
<1>3. mentions \subseteq Nat /\ mentions # {}
  BY <1>1, <1>2
<1>4. first \in mentions
  <2> HIDE DEF mentions
  <2>1. \E i \in mentions : \A j \in mentions : i <= j
    BY <1>3, LeastNumber
  <2> QED
    BY <2>1
<1>5. t = list[first].target
  <2>1. t = IF mentions = {} THEN NoFile ELSE list[first].target
    BY Zenon DEF Target
  <2> HIDE DEF mentions, first, t, list
  <2> QED
    BY <1>3, <2>1
<1> HIDE DEF first
<1>6. first \in DOMAIN list /\ list[first].specifier = e.specifier
  BY <1>4
<1>7. \A d \in DOMAIN list :
         list[d].kind # "DynamicImport" /\ list[d].target # NoFile
             => list[d].target \in Dependencies[n]
  BY DEF Dependencies, Elements
<1>8. CASE list[first].kind # "DynamicImport"
  BY <1>5, <1>6, <1>7, <1>8
<1>9. CASE list[first].kind = "DynamicImport"
  <2> DEFINE q == asked[first]  r == asked[k]
  <2>1. /\ q.form \in Forms /\ Kind(q) = "DynamicImport" /\ q.specifier \in Specifiers
        /\ q.specifier = r.specifier
    BY <1>1, <1>2, <1>6, <1>9
  <2>2. q.form = "dynamic"
    <3> HIDE DEF q
    <3> QED
      BY <2>1 DEF Kind, Forms
  <2>3. Resolve(path, q) # NoFile /\ t \in Ids /\ graph.files[t] = Resolve(path, q)
    BY <1>2, <1>5, <1>6
  <2>4. Resolve(path, q) \in Scannable \ JavaScript
    BY <2>3
  <2>5. Resolve(path, r) = Resolve(path, q)
    <3> HIDE DEF q, r, path
    <3> QED
      BY <2>1, <2>2, <2>4, <1>2a, SameLookup
  <2>6. list[k].target \in Ids /\ graph.files[list[k].target] = graph.files[t]
    BY <1>1, <1>2, <2>3, <2>5
  <2>7. list[k].target = t
    <3>1. Distinct(graph.files) /\ Ids = 1 .. Len(graph.files)
      BY PublishedFacts, LenProperties DEF Ids
    <3> HIDE DEF t
    <3> QED
      BY <2>3, <2>6, <3>1 DEF Distinct
  <2> QED
    BY <1>1, <1>7, <2>7
<1> QED
  BY <1>8, <1>9

(* What a file reads from was checked before it, or is checked with it:    *)
(* the layers of scc.rs over the edges of graph.rs.                        *)
THEOREM ReadsInLayerOrder ==
    ASSUME LookupsAgree
    PROVE  Spec => []ReadsComeFirst
<1>1. GraphInv => ReadsComeFirst
  <2> SUFFICES ASSUME GraphInv, IsBuilt PROVE ReadsComeFirst
    BY DEF ReadsComeFirst
  <2> DEFINE layers == LayersOf(Dependencies)
             component == ComponentOf(Dependencies)
             depth == Depth(Dependencies)
             LayerOf(n) == CHOOSE i \in DOMAIN layers : n \in layers[i]
  <2>1. IsGraph(Dependencies) /\ Nodes(Dependencies) = Ids
    BY DependenciesAreGraph
  <2>2. /\ layers \in Seq(SUBSET Ids) /\ depth \in [Ids -> Nat]
        /\ \A m \in Ids : depth[m] + 1 \in 1 .. Len(layers)
        /\ \A i \in 1 .. Len(layers) : layers[i] = {m \in Ids : depth[m] + 1 = i}
        /\ \A m \in Ids : \A d \in Dependencies[m] :
              d \in component[m] \/ depth[d] < depth[m]
    <3> HIDE DEF layers, component, depth
    <3>1. /\ layers \in Seq(SUBSET Ids)
          /\ \A m \in Ids : depth[m] + 1 \in 1 .. Len(layers)
          /\ \A i \in 1 .. Len(layers) : layers[i] = {m \in Ids : depth[m] + 1 = i}
          /\ \A m \in Ids : \A d \in Dependencies[m] :
                d \in component[m] \/ depth[d] < depth[m]
      BY <2>1, LayerFacts, ZenonT(40) DEF layers, component, depth
    <3>2. depth \in [Ids -> Nat]
      BY <2>1, DepthFacts DEF depth
    <3> QED
      BY <3>1, <3>2
  <2>3. \A m \in Ids : \A d \in Dependencies[m] : d \in Ids
    BY <2>1 DEF IsGraph
  <2>4. \A m \in Ids : LayerOf(m) = depth[m] + 1
    <3>1. DOMAIN layers = 1 .. Len(layers)
      BY <2>2, LenProperties
    <3> HIDE DEF layers, depth
    <3> QED
      BY <2>2, <3>1
  <2>5. ASSUME NEW n \in Ids, NEW e \in StaticEdges(n),
               Target(n, e.specifier) # NoFile,
               graph.files[Target(n, e.specifier)] \in Scannable \ JavaScript
        PROVE  \/ LayerOf(Target(n, e.specifier)) < LayerOf(n)
               \/ Target(n, e.specifier) \in component[n]
    <3>1. Target(n, e.specifier) \in Dependencies[n]
      BY <2>5, TargetIsDependency
    <3> DEFINE t == Target(n, e.specifier)
    <3> HIDE DEF t, layers, depth, component, LayerOf
    <3>2. t \in Ids /\ (t \in component[n] \/ depth[t] < depth[n])
      BY <2>2, <2>3, <3>1 DEF t
    <3>3. LayerOf(t) = depth[t] + 1 /\ LayerOf(n) = depth[n] + 1
      BY <2>4, <3>2
    <3>4. depth[t] \in Nat /\ depth[n] \in Nat
      BY <2>2, <3>2
    <3>5. LayerOf(t) < LayerOf(n) \/ t \in component[n]
      BY <3>2, <3>3, <3>4
    <3> QED
      BY <3>5 DEF t
  <2> QED
    BY <2>5 DEF ReadsComeFirst
<1> QED
  BY <1>1, GraphIsTracked, PTL
=============================================================================
