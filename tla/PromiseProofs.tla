----------------------------- MODULE PromiseProofs -----------------------------
(***************************************************************************)
(* For every finite set of files, every project and recheck bound: the     *)
(* final report calls nothing missing that could be there, and calls every *)
(* name missing that a settled module certainly lacks.  With any number of *)
(* workers, too: each batch reads one snapshot, so that the parallel check *)
(* implements the sequential one.                                          *)
(***************************************************************************)
EXTENDS ProjectCheck, SettledProofs

(* A file's sources that are files come no later than itself, and those of *)
(* its own layer are on a cycle with it.                                   *)
LEMMA SourcesEarlier ==
    ASSUME NEW p \in Project, NEW f \in Files, NEW s \in RequestedSources(p, f) \cap Files
    PROVE  /\ LayerOf(p, s) \in Nat /\ LayerOf(p, f) \in Nat
           /\ LayerOf(p, s) <= LayerOf(p, f)
           /\ LayerOf(p, s) = LayerOf(p, f) => f \in InCycle(p) /\ s \in InCycle(p)
<1>1. s \in Dependencies(p, f) /\ s \in Files
  BY DEF Dependencies
<1> QED
  BY <1>1, LayersOfFiles

LEMMA StarsRequested ==
    ASSUME NEW p, NEW f
    PROVE  /\ StarSources(p, f) \subseteq RequestedSources(p, f)
           /\ \A r \in Requests(p, f) : r.src \in RequestedSources(p, f)
           /\ \A r \in p.froms[f] : r.src \in RequestedSources(p, f)
<1>1. \A r \in p.froms[f] : [src |-> r.src, name |-> r.name] \in Requests(p, f)
  BY DEF Requests
<1>2. \A r \in Requests(p, f) : r.src \in RequestedSources(p, f)
  BY DEF RequestedSources
<1>3. \A r \in p.froms[f] : [src |-> r.src, name |-> r.name].src \in RequestedSources(p, f)
  BY <1>1, <1>2
<1> QED
  BY <1>2, <1>3 DEF RequestedSources

(* A provider is no module: it reads from nobody.                          *)
LEMMA ProviderReadsNothing ==
    ASSUME NEW p \in Project, NEW f \in Files, IsProvider(p, f)
    PROVE  /\ StarSources(p, f) = {} /\ Requests(p, f) = {} /\ RequestedSources(p, f) = {}
           /\ f \notin InCycle(p)
           /\ \A one, two : Collect(p, one, f) = Collect(p, two, f)
           /\ \A ex : AboutImports(BindDiagnostics(p, ex, f)) = {}
<1>1. /\ p.froms[f] = {} /\ p.stars[f] = << >> /\ p.imports[f] = {} /\ p.augments[f] = {}
  BY DEF IsProvider, IsModule
<1>2. StarSources(p, f) = {} /\ Requests(p, f) = {} /\ RequestedSources(p, f) = {}
  BY <1>1 DEF StarSources, Requests, RequestedSources
<1>3. f \notin InCycle(p)
  <2> DEFINE graph == DependencyGraph(p)
  <2>1. graph[f] = {} /\ Nodes(graph) = Files
    BY <1>1, <1>2 DEF DependencyGraph, Dependencies, Nodes
  <2>2. graph \in [Nodes(graph) -> SUBSET Nodes(graph)]
    BY ProjectGraph DEF IsGraph
  <2> HIDE DEF graph
  <2>3. Reachable(graph)[f] \subseteq {f} /\ f \in Reachable(graph)[f]
    <3>1. Closed(graph, {f}) /\ {f} \in SUBSET Nodes(graph)
      BY <2>1 DEF Closed
    <3> QED
      BY <2>1, <2>2, <3>1, ReachableFacts
  <2>4. ComponentOf(graph)[f] = {f}
    BY <2>1, <2>3 DEF ComponentOf
  <2> QED
    BY <2>1, <2>4 DEF InCycle, OnCycle, graph
<1>4. ASSUME NEW one, NEW two PROVE Collect(p, one, f) = Collect(p, two, f)
  <2>1. \A ex : /\ FromPart(p, ex, f) = {} /\ StarParts(p, ex, f) = << >>
                /\ ListIsWhole(p, ex, f) <=> p.hidden[f] = {}
    BY <1>1, <1>2 DEF FromPart, StarParts, ListIsWhole
  <2>2. CollectedUnit(p, one, f) = CollectedUnit(p, two, f)
    BY <2>1 DEF CollectedUnit
  <2> QED
    BY <2>2 DEF Collect
<1>5. \A ex : AboutImports(BindDiagnostics(p, ex, f)) = {}
  BY <1>2, ImportsReported DEF ImportDiagnostics
<1> QED
  BY <1>2, <1>3, <1>4, <1>5

-----------------------------------------------------------------------------
(* The invariants.  No `export *` goes round in a circle of whole lists: a *)
(* list with a star is whole only if the star's source was whole before.   *)

RoundOfStars(p, ex, circle) ==
    \A f \in circle : ex.complete[f] = "whole" /\ StarSources(p, f) \cap circle # {}

NoRoundIsWhole(p, ex) ==
    \A Z \in SUBSET Files : RoundOfStars(p, ex, Z) => Z = {}

StarsAreWhole(ex, f, r) ==
    r.unit.published /\ r.unit.complete = "whole" =>
        \A s \in StarSources(prj, f) \cap Files : ex.complete[s] = "whole"

StarInv ==
    /\ NoRoundIsWhole(prj, exports)
    /\ stage = "settle" => \A f \in DOMAIN done \ Members : StarsAreWhole(exports, f, done[f])

(* Providers are published once, and say nothing about imports.            *)
ProviderInv ==
    /\ pass = "providers" => DOMAIN report = {}
    /\ pass # "providers" =>
          \A f \in Providers :
              /\ TableCurrent(exports, f)
              /\ f \in DOMAIN report => AboutImports(report[f].missing) = {}

(* A whole list holds every name that its module's statements could        *)
(* justify, once the second pass is done with its layer.                   *)
NamesType == [Files -> SUBSET Names]

Holds(ex, T, s) == Known(prj, Heard(prj), T, s) \subseteq NamesOf(ExportEntries(ex, s))

Revisited(f) == pass = "finished" \/ (pass = "second" /\ LayerOf(prj, f) < level)

NamesInv ==
    \A T \in NamesType : Justified(prj, Heard(prj), T) =>
        \A f \in Files : Revisited(f) /\ exports.complete[f] = "whole" => Holds(exports, T, f)

(* A report says which names a file of an earlier layer lacks; the cycles  *)
(* of a layer are given up together.                                       *)
Lacks(ex, s, n) == ModuleExports(ex, s) = "whole" /\ ExportKeys(ex, s, n) = {}

SaysWhatIsLacking(ex, f, missing) ==
    prj.fault[f] \in {"none", "keyless"} =>
        \A r \in Requests(prj, f) :
            r.src \in Files /\ LayerOf(prj, r.src) < LayerOf(prj, f) /\ Lacks(ex, r.src, r.name)
                => MissingName(r.src, r.name) \in missing

TypoInv ==
    /\ \A f \in unsettled, g \in InCycle(prj) \ Providers :
          LayerOf(prj, g) = LayerOf(prj, f) => g \in unsettled
    /\ pass \in {"second", "finished"} =>
          \A f \in DOMAIN report \ Providers : SaysWhatIsLacking(exports, f, report[f].missing)

PromiseInv == SettledInv /\ StarInv /\ ProviderInv /\ NamesInv /\ TypoInv

-----------------------------------------------------------------------------
(* What a layer's batch comes to.                                          *)

LEMMA FreshStars ==
    ASSUME prj \in Project, NEW ex \in Exports, NEW f \in Files
    PROVE  StarsAreWhole(ex, f, CheckFile(prj, ex, f))
<1>1. CheckFile(prj, ex, f).unit = Collect(prj, ex, f)
  BY DEF CheckFile, UnitResult
<1>2. SUFFICES ASSUME Collect(prj, ex, f).published, Collect(prj, ex, f).complete = "whole",
                      NEW s \in StarSources(prj, f) \cap Files
               PROVE  ex.complete[s] = "whole"
  BY <1>1 DEF StarsAreWhole
<1>3. Collect(prj, ex, f) = CollectedUnit(prj, ex, f)
  BY <1>2 DEF Collect, NoUnit, CrashedUnit
<1>4. ListIsWhole(prj, ex, f)
  BY <1>2, <1>3 DEF CollectedUnit
<1>5. ModuleExports(ex, s) = "whole"
  BY <1>4 DEF ListIsWhole
<1> QED
  BY <1>5 DEF ModuleExports

(* The end of a layer: given is what is published of it.                   *)
Publishes(given) ==
    /\ PublishLayer(given)
    /\ LayerResults(given)
    /\ unsettled' \in {unsettled, unsettled \cup Members}
    /\ \A f \in DOMAIN given : StarsAreWhole(exports, f, given[f])
    /\ pass = "second" =>
          \A f \in DOMAIN given :
              /\ AboutImports(given[f].missing) = AboutImports(BindDiagnostics(prj, exports, f))
              /\ given[f].unit.published /\ given[f].unit.complete = "whole" =>
                    ResultCurrent(AddAll(exports, given), f, given[f])

(* The beginning of a recheck.                                             *)
Rechecks(given) ==
    /\ StartRound(given)
    /\ LayerResults(given)
    /\ \A f \in DOMAIN given : StarsAreWhole(exports, f, given[f])

LEMMA LatestStars ==
    ASSUME SettledInv, StarInv, pass \in {"first", "second"},
           NEW res, res = CheckBatch(prj, exports, Batch),
           NEW latest, latest = IF stage = "settle" THEN Updated(res) ELSE res
    PROVE  /\ LayerResults(latest)
           /\ \A f \in DOMAIN latest : StarsAreWhole(exports, f, latest[f])
<1>1. stage \in {"check", "settle"} /\ prj \in Project /\ exports \in Exports
  BY LayerIs DEF SettledInv, TypeInv, TypeOK
<1>2. /\ \A f \in DOMAIN res : res[f] = CheckFile(prj, exports, f)
      /\ stage = "check" => LayerResults(res)
      /\ stage = "settle" => DOMAIN res = Members \cap DOMAIN done /\ LayerResults(Updated(res))
  BY BatchResults
<1>3. \A f \in DOMAIN res : f \in Files
  BY Unfinished DEF CheckBatch, SettledInv, TypeInv
<1>4. \A f \in DOMAIN res : StarsAreWhole(exports, f, res[f])
  BY <1>1, <1>2, <1>3, FreshStars
<1>5. CASE stage = "check"
  BY <1>2, <1>4, <1>5
<1>6. CASE stage = "settle"
  <2>1. \A f \in DOMAIN latest : IF f \in DOMAIN res THEN latest[f] = res[f]
                                 ELSE f \in DOMAIN done \ Members /\ latest[f] = done[f]
    BY <1>2, <1>6 DEF Updated
  <2>2. \A f \in DOMAIN done \ Members : StarsAreWhole(exports, f, done[f])
    BY <1>6 DEF StarInv
  <2> QED
    BY <1>2, <1>4, <1>6, <2>1, <2>2
<1> QED
  BY <1>1, <1>5, <1>6

LEMMA GiveUpPublishes ==
    ASSUME SettledInv, pass \in {"first", "second"},
           NEW latest, LayerResults(latest), GiveUp(latest),
           \A f \in DOMAIN latest : StarsAreWhole(exports, f, latest[f]),
           pass = "second" => \A f \in DOMAIN latest : ResultCurrent(exports, f, latest[f])
    PROVE  \E given : Publishes(given)
<1> DEFINE given == Partial(latest, Members)
<1>1. /\ LayerFiles = {f \in Files \ Providers : LayerOf(prj, f) = level}
      /\ Members = LayerFiles \cap InCycle(prj)
      /\ prj \in Project
  BY LayerIs DEF SettledInv
<1>2. /\ LayerResults(given) /\ DOMAIN given = DOMAIN latest
      /\ \A f \in DOMAIN latest : given[f].missing = latest[f].missing
  BY PartialResults
<1>3. \A f \in DOMAIN latest : latest[f] \in Results /\ f \in LayerFiles
  BY DEF LayerResults
<1>4. \A f \in DOMAIN latest :
          /\ f \notin Members => given[f] = latest[f]
          /\ f \in Members /\ given[f].unit.published => given[f].unit.complete = "partial"
  BY <1>3, PartialResult
<1>5. PublishLayer(given) /\ unsettled' = unsettled \cup Members
  BY DEF GiveUp
<1> HIDE DEF given
<1>6. \A f \in DOMAIN given : StarsAreWhole(exports, f, given[f])
  BY <1>2, <1>4 DEF StarsAreWhole
<1>7. ASSUME pass = "second", NEW f \in DOMAIN given
      PROVE  /\ AboutImports(given[f].missing) = AboutImports(BindDiagnostics(prj, exports, f))
             /\ given[f].unit.published /\ given[f].unit.complete = "whole" =>
                   ResultCurrent(AddAll(exports, given), f, given[f])
  <2>1. ResultCurrent(exports, f, latest[f])
    BY <1>2, <1>7
  <2>2. AboutImports(given[f].missing) = AboutImports(BindDiagnostics(prj, exports, f))
    BY <1>2, <1>7, <2>1 DEF ResultCurrent, ReportCurrent, FileReport
  <2>3. ASSUME f \notin Members PROVE ResultCurrent(AddAll(exports, given), f, given[f])
    <3>1. f \in Files /\ LayerOf(prj, f) = level /\ f \notin InCycle(prj)
      BY <1>1, <1>2, <1>3, <1>7, <2>3
    <3>2. Agree(prj, exports, AddAll(exports, given), f)
      BY <1>2, <1>7, <3>1, EarlierKept DEF LayerResults
    <3> QED
      BY <1>1, <1>2, <1>4, <1>7, <2>1, <2>3, <3>1, <3>2, StaysCurrent
  <2> QED
    BY <1>2, <1>4, <1>7, <2>2, <2>3
<1> QED
  BY <1>2, <1>5, <1>6, <1>7 DEF Publishes

(* A step of the driver publishes the providers, ends a layer or begins a  *)
(* recheck.                                                                *)
LEMMA StepsOfLayers ==
    ASSUME SettledInv, StarInv, LayeredNext
    PROVE  \/ pass = "providers" /\ PublishProviders(CheckBatch(prj, exports, Batch))
           \/ pass \in {"first", "second"} /\ \E given : Publishes(given) \/ Rechecks(given)
<1> DEFINE res == CheckBatch(prj, exports, Batch)
           latest == IF stage = "settle" THEN Updated(res) ELSE res
<1>1. Conclude(res)
  BY DEF LayeredNext
<1>2. stage = "settle" => pass \in {"first", "second"}
  BY DEF SettledInv, TypeInv, SettlesInPass
<1>3. pass \in {"first", "second"} =>
          /\ LayerResults(latest)
          /\ \A f \in DOMAIN latest : StarsAreWhole(exports, f, latest[f])
  BY LatestStars
<1>4. pass = "second" => \A f \in DOMAIN latest : ResultCurrent(exports, f, latest[f])
  BY LatestIsCurrent
<1>5. pass = "second" => \A f \in DOMAIN latest :
          AboutImports(latest[f].missing) = AboutImports(BindDiagnostics(prj, exports, f))
  BY <1>4 DEF ResultCurrent, ReportCurrent, FileReport
<1>6. CASE PublishProviders(res)
  BY <1>6 DEF PublishProviders
<1>7. CASE FinishAcyclicLayer(res)
  <2>1. /\ stage = "check" /\ pass \in {"first", "second"} /\ Members = {}
        /\ PublishLayer(res) /\ unsettled' = unsettled
    BY <1>7 DEF FinishAcyclicLayer
  <2>2. /\ LayerFiles = {f \in Files \ Providers : LayerOf(prj, f) = level}
        /\ Members = LayerFiles \cap InCycle(prj)
        /\ prj \in Project
    BY LayerIs DEF SettledInv
  <2>3. latest = res
    BY <2>1
  <2> HIDE DEF res, latest
  <2>4. ASSUME pass = "second", NEW f \in DOMAIN res
        PROVE  ResultCurrent(AddAll(exports, res), f, res[f])
    <3>1. f \in Files /\ LayerOf(prj, f) = level /\ f \notin InCycle(prj)
      BY <1>3, <2>1, <2>2, <2>3, <2>4 DEF LayerResults
    <3>2. Agree(prj, exports, AddAll(exports, res), f)
      BY <1>3, <2>1, <2>3, <2>4, <3>1, EarlierKept DEF LayerResults
    <3> QED
      BY <1>4, <2>2, <2>3, <2>4, <3>1, <3>2, StaysCurrent
  <2>5. Publishes(res)
    BY <1>3, <1>5, <2>1, <2>3, <2>4 DEF Publishes
  <2> QED
    BY <2>1, <2>5
<1>8. CASE EnterSettle(res)
  <2>1. stage = "check" /\ pass \in {"first", "second"} /\ StartRound(res)
    BY <1>8 DEF EnterSettle
  <2>2. latest = res
    BY <2>1
  <2> HIDE DEF res, latest
  <2>3. Rechecks(res)
    BY <1>3, <2>1, <2>2 DEF Rechecks
  <2> QED
    BY <2>1, <2>3
<1>9. CASE GiveUpAtOnce(res)
  <2>1. stage = "check" /\ pass \in {"first", "second"} /\ GiveUp(res)
    BY <1>9 DEF GiveUpAtOnce
  <2>2. latest = res
    BY <2>1
  <2> HIDE DEF res, latest
  <2> QED
    BY <1>3, <1>4, <2>1, <2>2, GiveUpPublishes
<1>10. CASE CycleSettles(res)
  <2>1. /\ stage = "settle" /\ Settled(res) /\ PublishLayer(Updated(res))
        /\ unsettled' = unsettled
    BY <1>10 DEF CycleSettles
  <2>2. latest = Updated(res)
    BY <2>1
  <2>3. pass = "second" => \A f \in DOMAIN latest :
            ResultCurrent(AddAll(exports, latest), f, latest[f])
    BY <2>1, <2>2, SettledIsCurrent
  <2>4. PublishLayer(latest)
    BY <2>1, <2>2
  <2> HIDE DEF res, latest
  <2>5. Publishes(latest)
    BY <1>2, <1>3, <1>5, <2>1, <2>3, <2>4 DEF Publishes
  <2> QED
    BY <1>2, <2>1, <2>5
<1>11. CASE CycleGoesOn(res)
  <2>1. stage = "settle" /\ StartRound(latest)
    BY <1>11 DEF CycleGoesOn
  <2> HIDE DEF res, latest
  <2>2. Rechecks(latest)
    BY <1>2, <1>3, <2>1 DEF Rechecks
  <2> QED
    BY <1>2, <2>1, <2>2
<1>12. CASE CycleRunsOut(res)
  <2>1. stage = "settle" /\ GiveUp(latest)
    BY <1>12 DEF CycleRunsOut
  <2> HIDE DEF res, latest
  <2> QED
    BY <1>2, <1>3, <1>4, <2>1, GiveUpPublishes
<1> QED
  BY <1>1, <1>6, <1>7, <1>8, <1>9, <1>10, <1>11, <1>12 DEF Conclude

-----------------------------------------------------------------------------
(* Stars.                                                                  *)

LEMMA PublishingStars ==
    ASSUME SettledInv, pass \in {"first", "second"}, NoRoundIsWhole(prj, exports),
           NEW res, DOMAIN res \subseteq {f \in LayerFiles : IsChecked(prj, f)},
           \A f \in DOMAIN res : /\ res[f] \in Results /\ OwnResult(prj, f, res[f])
                                 /\ StarsAreWhole(exports, f, res[f]),
           \A f \in Members : IsChecked(prj, f) => f \in DOMAIN res
    PROVE  NoRoundIsWhole(prj, AddAll(exports, res))
<1> DEFINE after == AddAll(exports, res)
<1>1. /\ prj \in Project /\ exports \in Exports
      /\ LayerFiles = {f \in Files \ Providers : LayerOf(prj, f) = level}
      /\ Members = LayerFiles \cap InCycle(prj)
  BY LayerIs DEF SettledInv
<1>2. DOMAIN res \subseteq Files
  BY <1>1
<1>3. /\ PublishedIn(after) = PublishedIn(exports) \cup Published(res)
      /\ Published(res) = {f \in DOMAIN res : prj.fault[f] # "unreadable"}
  BY <1>1, <1>2, AddIsOwn DEF SettledInv, OwnInv
<1>4. \A f \in Files :
          after.complete[f] = IF f \in Published(res) THEN res[f].unit.complete ELSE exports.complete[f]
  BY DEF AddAll
<1>5. PublishedIn(after) \subseteq Readable(prj)
  BY <1>1, <1>3 DEF SettledInv, HeardInv, Readable
<1> HIDE DEF after
<1>6. ASSUME NEW f \in Files, NEW s \in StarSources(prj, f) \cap Files
      PROVE  /\ LayerOf(prj, s) \in Nat /\ LayerOf(prj, f) \in Nat
             /\ LayerOf(prj, s) <= LayerOf(prj, f)
             /\ LayerOf(prj, s) = LayerOf(prj, f) => f \in InCycle(prj)
             /\ f \notin Providers
  BY <1>1, <1>6, SourcesEarlier, StarsRequested, ProviderReadsNothing DEF Providers
<1>7. SUFFICES ASSUME NEW Z \in SUBSET Files, RoundOfStars(prj, after, Z), Z # {} PROVE FALSE
  BY DEF NoRoundIsWhole, after
<1>8. \A f \in Z : LayerOf(prj, f) \in Nat
  BY <1>6, <1>7 DEF RoundOfStars
<1>9. PICK least \in {LayerOf(prj, f) : f \in Z} : \A k \in {LayerOf(prj, f) : f \in Z} : least <= k
  <2> DEFINE L == {LayerOf(prj, f) : f \in Z}
  <2>1. L \subseteq Nat /\ L # {}
    BY <1>7, <1>8
  <2> HIDE DEF L
  <2>2. \E m \in L : \A k \in L : m <= k
    BY <2>1, LeastNumber
  <2> QED
    BY <2>2 DEF L
<1> DEFINE lowest == {f \in Z : LayerOf(prj, f) = least}
<1>10. /\ lowest # {} /\ lowest \subseteq Files
       /\ \A f \in lowest : after.complete[f] = "whole" /\ f \in InCycle(prj) /\ f \notin Providers
       /\ \A f \in lowest : \E s \in lowest : s \in StarSources(prj, f) \cap Files
  <2>1. ASSUME NEW f \in lowest
        PROVE  \E s \in lowest : s \in StarSources(prj, f) \cap Files
    <3>1. PICK s \in StarSources(prj, f) \cap Z : TRUE
      BY <1>7 DEF RoundOfStars
    <3>2. LayerOf(prj, s) <= least /\ least <= LayerOf(prj, s) /\ LayerOf(prj, s) \in Nat
      BY <1>6, <1>8, <1>9, <3>1
    <3>3. LayerOf(prj, s) = least
      BY <1>8, <1>9, <3>2
    <3> QED
      BY <3>1, <3>3
  <2>2. \A f \in lowest : f \in InCycle(prj) /\ f \notin Providers
    BY <1>6, <2>1
  <2>3. lowest # {}
    BY <1>9
  <2> QED
    BY <1>7, <2>1, <2>2, <2>3 DEF RoundOfStars
<1> HIDE DEF lowest
<1>11. CASE least # level
  <2>1. \A f \in lowest : f \notin Published(res)
    BY <1>1, <1>11 DEF lowest, Published
  <2>2. RoundOfStars(prj, exports, lowest)
    BY <1>4, <1>10, <2>1 DEF RoundOfStars
  <2> QED
    BY <1>10, <2>2 DEF NoRoundIsWhole
<1>12. CASE least = level
  <2>1. ASSUME NEW f \in lowest PROVE f \in Published(res)
    <3>1. f \in Members
      BY <1>1, <1>10, <1>12 DEF lowest
    <3>2. f \in PublishedIn(after)
      BY <1>10 DEF PublishedIn
    <3> QED
      BY <1>3, <1>5, <3>1, <3>2 DEF Readable
  <2> DEFINE before == {f \in lowest : exports.complete[f] = "whole"}
  <2>2. \A f \in lowest : StarSources(prj, f) \cap before # {}
    <3>1. ASSUME NEW f \in lowest PROVE StarSources(prj, f) \cap before # {}
      <4>1. PICK s \in lowest : s \in StarSources(prj, f) \cap Files
        BY <1>10
      <4>2. f \in Published(res) /\ res[f].unit.complete = "whole" /\ res[f].unit.published
        BY <1>4, <1>10, <2>1 DEF Published
      <4>3. f \in DOMAIN res
        BY <2>1 DEF Published
      <4>4. exports.complete[s] = "whole"
        BY <4>1, <4>2, <4>3 DEF StarsAreWhole
      <4> QED
        BY <4>1, <4>4
    <3> QED
      BY <3>1
  <2>3. RoundOfStars(prj, exports, before)
    BY <2>2 DEF RoundOfStars
  <2>4. before # {}
    BY <1>10, <2>2
  <2>5. before \in SUBSET Files
    BY <1>10
  <2> QED
    BY <2>3, <2>4, <2>5 DEF NoRoundIsWhole
<1> QED
  BY <1>11, <1>12

LEMMA StepStars ==
    ASSUME SettledInv, StarInv, LayeredNext
    PROVE  StarInv'
<1>1. CASE pass = "providers" /\ PublishProviders(CheckBatch(prj, exports, Batch))
  <2> DEFINE res == CheckBatch(prj, exports, Batch)
  <2>1. /\ prj' = prj /\ stage' = stage /\ stage # "settle"
        /\ exports'.complete = AddAll(exports, res).complete
    BY <1>1 DEF PublishProviders, SettledInv, TypeInv, SettlesInPass, AddAll
  <2>2. \A f \in Published(res) : f \in Files /\ IsProvider(prj, f)
    BY <1>1 DEF Published, CheckBatch, Batch, Providers
  <2>3. prj \in Project
    BY LayerIs DEF SettledInv
  <2>4. \A f \in Files : f \notin Published(res) => exports'.complete[f] = exports.complete[f]
    BY <2>1 DEF AddAll
  <2>5. ASSUME NEW Z \in SUBSET Files, RoundOfStars(prj, exports', Z) PROVE Z = {}
    <3>1. \A f \in Z : f \notin Published(res)
      BY <2>2, <2>3, <2>5, ProviderReadsNothing DEF RoundOfStars
    <3>2. RoundOfStars(prj, exports, Z)
      BY <2>4, <2>5, <3>1 DEF RoundOfStars
    <3> QED
      BY <3>2 DEF StarInv, NoRoundIsWhole
  <2> QED
    BY <2>1, <2>5 DEF StarInv, NoRoundIsWhole
<1>2. ASSUME pass \in {"first", "second"}, NEW given, Publishes(given) PROVE StarInv'
  <2>1. prj' = prj /\ stage' = "check" /\ exports' = AddAll(exports, given)
    BY <1>2 DEF Publishes, PublishLayer, NextLayer
  <2>2. NoRoundIsWhole(prj, AddAll(exports, given))
    BY <1>2, PublishingStars DEF Publishes, LayerResults, StarInv, Members
  <2> QED
    BY <2>1, <2>2 DEF StarInv
<1>3. ASSUME pass \in {"first", "second"}, NEW given, Rechecks(given) PROVE StarInv'
  <2> DEFINE mine == OnlyMembers(given)
  <2>1. /\ prj' = prj /\ exports' = AddAll(exports, mine) /\ done' = given
        /\ Members' = Members
    BY <1>3 DEF Rechecks, StartRound, Members, LayerFiles, Providers
  <2>2. /\ LayerFiles = {f \in Files \ Providers : LayerOf(prj, f) = level}
        /\ Members = LayerFiles \cap InCycle(prj)
        /\ prj \in Project
    BY LayerIs DEF SettledInv
  <2>3. /\ DOMAIN given = {f \in LayerFiles : IsChecked(prj, f)}
        /\ \A f \in DOMAIN given : given[f] \in Results /\ OwnResult(prj, f, given[f])
        /\ \A f \in DOMAIN given : StarsAreWhole(exports, f, given[f])
    BY <1>3 DEF Rechecks, LayerResults
  <2>4. DOMAIN mine = DOMAIN given \cap Members /\ \A f \in DOMAIN mine : mine[f] = given[f]
    BY DEF OnlyMembers
  <2> HIDE DEF mine
  <2>5. NoRoundIsWhole(prj, AddAll(exports, mine))
    <3>1. \A f \in DOMAIN mine : /\ mine[f] \in Results /\ OwnResult(prj, f, mine[f])
                                 /\ StarsAreWhole(exports, f, mine[f])
      BY <2>3, <2>4
    <3>2. DOMAIN mine \subseteq {f \in LayerFiles : IsChecked(prj, f)}
      BY <2>3, <2>4
    <3>3. \A f \in Members : IsChecked(prj, f) => f \in DOMAIN mine
      BY <2>2, <2>3, <2>4
    <3> QED
      BY <1>3, <3>1, <3>2, <3>3, PublishingStars DEF StarInv
  <2>6. ASSUME NEW f \in DOMAIN given \ Members PROVE StarsAreWhole(exports', f, given[f])
    <3>1. f \in Files /\ LayerOf(prj, f) = level /\ f \notin InCycle(prj)
      BY <2>2, <2>3, <2>6
    <3>2. ASSUME NEW s \in StarSources(prj, f) \cap Files
          PROVE  exports'.complete[s] = exports.complete[s]
      <4>1. LayerOf(prj, s) # level
        BY <2>2, <3>1, <3>2, SourcesEarlier, StarsRequested
      <4>2. s \notin Published(mine)
        BY <2>2, <2>4, <4>1 DEF Published
      <4> QED
        BY <2>1, <4>2 DEF AddAll
    <3> QED
      BY <2>3, <2>6, <3>2 DEF StarsAreWhole
  <2>7. \A f \in DOMAIN given \ Members : StarsAreWhole(exports, f, given[f])'
    BY <2>1, <2>6 DEF StarsAreWhole
  <2> QED
    BY <2>1, <2>5, <2>7 DEF StarInv
<1> QED
  BY <1>1, <1>2, <1>3, StepsOfLayers

-----------------------------------------------------------------------------
(* Providers.                                                              *)

LEMMA StepProviders ==
    ASSUME SettledInv, ProviderInv, StarInv, LayeredNext
    PROVE  ProviderInv'
<1>1. prj \in Project /\ exports \in Exports
  BY LayerIs DEF SettledInv
<1>2. ASSUME NEW f \in Providers, prj' = prj
      PROVE  /\ f \in Files /\ f \in Providers' /\ IsChecked(prj, f)
             /\ Collect(prj, exports', f) = Collect(prj, exports, f)
             /\ AboutImports(BindDiagnostics(prj, exports, f)) = {}
  <2>1. f \in Files /\ IsProvider(prj, f)
    BY DEF Providers
  <2> QED
    BY <1>1, <1>2, <2>1, ProviderReadsNothing DEF Providers, IsProvider
<1>3. CASE pass = "providers" /\ PublishProviders(CheckBatch(prj, exports, Batch))
  <2> DEFINE res == CheckBatch(prj, exports, Batch)
  <2>1. /\ prj' = prj /\ pass' = "first" /\ report' = WithReports(report, res)
        /\ exports'.names = AddAll(exports, res).names
        /\ exports'.complete = AddAll(exports, res).complete
        /\ DOMAIN report = {}
    BY <1>3 DEF PublishProviders, ProviderInv, AddAll
  <2>2. Providers' = Providers
    BY <2>1 DEF Providers
  <2>3. ASSUME NEW f \in Providers
        PROVE  f \in DOMAIN res /\ res[f] = CheckFile(prj, exports, f)
    BY <1>2, <1>3, <2>1, <2>3 DEF CheckBatch, Batch
  <2>4. \A f \in Providers : /\ res[f].unit = Collect(prj, exports, f)
                             /\ res[f].missing = BindDiagnostics(prj, exports, f)
    <3>1. \A f : /\ CheckFile(prj, exports, f).unit = Collect(prj, exports, f)
                 /\ CheckFile(prj, exports, f).missing = BindDiagnostics(prj, exports, f)
      BY DEF CheckFile, UnitResult
    <3> HIDE DEF res
    <3> QED
      BY <2>3, <3>1
  <2> HIDE DEF res
  <2>5. ASSUME NEW f \in Providers PROVE TableCurrent(exports, f)'
    <3>1. f \in Files /\ Collect(prj, exports', f) = res[f].unit
      BY <1>2, <2>1, <2>4, <2>5
    <3>2. res[f].unit.published => f \in Published(res)
      BY <2>3, <2>5 DEF Published
    <3>3. res[f].unit.published => /\ exports'.names[f] = UnitEntries(res[f].unit)
                                   /\ exports'.complete[f] = res[f].unit.complete
      BY <2>1, <3>1, <3>2 DEF AddAll
    <3> QED
      BY <2>1, <3>1, <3>3 DEF TableCurrent
  <2>6. ASSUME NEW f \in Providers, f \in DOMAIN report'
        PROVE  AboutImports(report'[f].missing) = {}
    <3>1. f \in Reported(res) /\ report'[f] = FileReport(res[f])
      BY <2>1, <2>6 DEF WithReports
    <3> QED
      BY <1>2, <2>1, <2>4, <3>1 DEF FileReport
  <2> QED
    BY <2>1, <2>2, <2>5, <2>6 DEF ProviderInv
<1>4. ASSUME pass \in {"first", "second"}, prj' = prj, NEW res,
             DOMAIN res \subseteq LayerFiles, exports' = AddAll(exports, res),
             NEW f \in Providers
      PROVE  TableCurrent(exports, f)'
  <2>1. f \notin Published(res) /\ f \in Files
    BY <1>4 DEF Published, LayerFiles, Providers
  <2>2. exports'.names[f] = exports.names[f] /\ exports'.complete[f] = exports.complete[f]
    BY <1>4, <2>1 DEF AddAll
  <2>3. TableCurrent(exports, f)
    BY <1>4 DEF ProviderInv
  <2> QED
    BY <1>2, <1>4, <2>2, <2>3 DEF TableCurrent
<1>5. ASSUME pass \in {"first", "second"}, NEW given, Publishes(given) PROVE ProviderInv'
  <2>1. /\ prj' = prj /\ pass' # "providers" /\ exports' = AddAll(exports, given)
        /\ \A f \in DOMAIN report' \cap Providers :
              f \in DOMAIN WithReports(report, given) /\ report'[f] = WithReports(report, given)[f]
        /\ DOMAIN given \subseteq LayerFiles
    BY <1>5 DEF Publishes, PublishLayer, NextLayer, LayerResults
  <2>2. Providers' = Providers
    BY <2>1 DEF Providers
  <2>3. ASSUME NEW f \in Providers, f \in DOMAIN report'
        PROVE  AboutImports(report'[f].missing) = {}
    <3>1. f \notin Reported(given)
      BY <2>1 DEF Reported, LayerFiles
    <3>2. f \in DOMAIN report /\ report'[f] = report[f]
      BY <2>1, <2>3, <3>1 DEF WithReports
    <3> QED
      BY <1>5, <3>2 DEF ProviderInv
  <2> QED
    BY <1>4, <1>5, <2>1, <2>2, <2>3 DEF ProviderInv
<1>6. ASSUME pass \in {"first", "second"}, NEW given, Rechecks(given) PROVE ProviderInv'
  <2>1. /\ prj' = prj /\ pass' = pass /\ exports' = AddAll(exports, OnlyMembers(given))
        /\ report' = report /\ DOMAIN OnlyMembers(given) \subseteq LayerFiles
    BY <1>6 DEF Rechecks, StartRound, OnlyMembers, Members
  <2>2. Providers' = Providers
    BY <2>1 DEF Providers
  <2> QED
    BY <1>4, <1>6, <2>1, <2>2 DEF ProviderInv
<1> QED
  BY <1>3, <1>5, <1>6, StepsOfLayers

-----------------------------------------------------------------------------
(* Names.                                                                  *)

(* Every block of a file that was heard is in the tables.                  *)
LEMMA BlocksHeard ==
    ASSUME NEW p \in Project, NEW ex \in Exports, OwnTables(p, ex),
           PublishedIn(ex) = Readable(p),
           NEW f \in Heard(p), NEW b \in p.ambient[f] \cup p.augments[f], b.spec \in Sources
    PROVE  /\ ex.extra[b.spec].state # "unknown"
           /\ b.names \subseteq NamesOf(ex.extra[b.spec].entries)
<1>1. f \in PublishedIn(ex) /\ b \in BlocksOf(p, f)
  BY DEF Heard, Readable, BlocksOf
<1> DEFINE blocks == OwnBlocks(p, PublishedIn(ex), b.spec)
<1>2. [owner |-> f, block |-> b] \in blocks
  BY <1>1 DEF OwnBlocks
<1>3. /\ ex.extra[b.spec].entries = BlockEntries(blocks, b.spec)
      /\ ex.extra[b.spec].state # "unknown"
  <2>1. ex.extra[b.spec] = Contributed(p, PublishedIn(ex), b.spec)
    BY DEF OwnTables
  <2>2. blocks # {}
    BY <1>2
  <2> QED
    BY <2>1, <2>2 DEF Contributed
<1> HIDE DEF blocks
<1>4. ASSUME NEW n \in b.names PROVE n \in NamesOf(BlockEntries(blocks, b.spec))
  <2>1. [name |-> n, key |-> <<f, b.spec, n>>] \in BlockEntries(blocks, b.spec)
    BY <1>2 DEF BlockEntries
  <2> QED
    BY <2>1 DEF NamesOf
<1> QED
  BY <1>3, <1>4

LEMMA BlockNamesHeard ==
    ASSUME NEW p \in Project, NEW ex \in Exports, OwnTables(p, ex),
           PublishedIn(ex) = Readable(p), NEW s \in Sources
    PROVE  /\ BlockNames(Ambient(p, Heard(p)), s) \subseteq NamesOf(ex.extra[s].entries)
           /\ BlockNames(Augmentations(p, Heard(p)), s) \subseteq NamesOf(ex.extra[s].entries)
           /\ \A b \in Ambient(p, Heard(p)) : b.spec = s => ex.extra[s].state # "unknown"
<1>1. \A f \in Heard(p) : \A b \in p.ambient[f] \cup p.augments[f] :
          b.spec = s => /\ ex.extra[s].state # "unknown"
                        /\ b.names \subseteq NamesOf(ex.extra[s].entries)
  BY BlocksHeard
<1>2. \A b \in Ambient(p, Heard(p)) : \E f \in Heard(p) : b \in p.ambient[f] \cup p.augments[f]
  BY DEF Ambient
<1>3. \A b \in Augmentations(p, Heard(p)) :
          \E f \in Heard(p) : b \in p.ambient[f] \cup p.augments[f]
  BY DEF Augmentations
<1>4. \A b \in Ambient(p, Heard(p)) \cup Augmentations(p, Heard(p)) :
          b.spec = s => /\ ex.extra[s].state # "unknown"
                        /\ b.names \subseteq NamesOf(ex.extra[s].entries)
  BY <1>1, <1>2, <1>3
<1> QED
  BY <1>4 DEF BlockNames

(* What a whole list that is current was collected from.                   *)
LEMMA WholeIsCollected ==
    ASSUME prj \in Project, NEW ex \in Exports, PublishedIn(ex) \subseteq Readable(prj),
           NEW f \in Files, TableCurrent(ex, f), ex.complete[f] = "whole"
    PROVE  /\ ListIsWhole(prj, ex, f) /\ prj.fault[f] = "none"
           /\ ex.names[f] = UnitEntries(CollectedUnit(prj, ex, f))
<1>1. f \in Readable(prj)
  BY DEF PublishedIn
<1>2. prj.fault[f] # "unreadable" /\ prj.fault[f] \in {"none", "unreadable", "crash", "keyless"}
  BY <1>1 DEF Readable, Project
<1>3. Collect(prj, ex, f).published
  BY <1>2 DEF Collect, CrashedUnit, CollectedUnit
<1>4. Collect(prj, ex, f).complete = "whole" /\ ex.names[f] = UnitEntries(Collect(prj, ex, f))
  BY <1>3 DEF TableCurrent
<1>5. prj.fault[f] = "none"
  BY <1>2, <1>4 DEF Collect, CrashedUnit
<1>6. Collect(prj, ex, f) = CollectedUnit(prj, ex, f)
  BY <1>5 DEF Collect
<1> QED
  BY <1>4, <1>5, <1>6 DEF CollectedUnit

(* A whole list over star sources that hold every justified name holds     *)
(* every name its module can justify.                                      *)
LEMMA WholeListHolds ==
    ASSUME prj \in Project, NEW ex \in Exports, OwnTables(prj, ex),
           PublishedIn(ex) = Readable(prj),
           NEW T \in NamesType, Justified(prj, Heard(prj), T),
           NEW f \in Files, TableCurrent(ex, f), ex.complete[f] = "whole",
           \A s \in StarSources(prj, f) \cap Files : Holds(ex, T, s)
    PROVE  Holds(ex, T, f)
<1> DEFINE heard == Heard(prj)
           unit == CollectedUnit(prj, ex, f)
           held == NamesOf(ExportEntries(ex, f))
<1>1. ListIsWhole(prj, ex, f) /\ ex.names[f] = UnitEntries(unit)
  BY WholeIsCollected
<1>2. f \in Sources /\ NamesOf(ex.extra[f].entries) \subseteq held /\ NamesOf(UnitEntries(unit)) \subseteq held
  BY <1>1 DEF Sources, ExportEntries, NamesOf
<1>3. unit.local = LocalPart(prj, f) /\ unit.from = FromPart(prj, ex, f)
  BY DEF CollectedUnit
<1>4. NamesOf(unit.local) \cup NamesOf(unit.from) \subseteq held
  BY <1>2 DEF UnitEntries, NamesOf
<1> HIDE DEF unit, held, heard
<1>5. prj.decls[f] \subseteq held
  <2>1. ASSUME NEW n \in prj.decls[f] PROVE n \in NamesOf(unit.local)
    <3>1. [name |-> n, key |-> <<f, f, n>>] \in LocalPart(prj, f)
      BY DEF LocalPart
    <3>2. n \in NamesOf(LocalPart(prj, f))
      BY <3>1 DEF NamesOf
    <3> QED
      BY <1>3, <3>2
  <2> QED
    BY <1>4, <2>1
<1>6. prj.hidden[f] = {}
  BY <1>1 DEF ListIsWhole
<1>7. BlockNames(Augmentations(prj, heard), f) \subseteq held
  BY <1>2, BlockNamesHeard DEF heard
<1>8. ASSUME NEW r \in prj.froms[f] PROVE r.as \in held
  <2>1. PICK k \in ExportKeys(ex, r.src, r.name) : TRUE
    BY <1>1 DEF ListIsWhole
  <2> DEFINE entry == [name |-> r.as, key |-> k]
  <2>2. entry \in FromPart(prj, ex, f)
    <3>1. entry \in {[name |-> r.as, key |-> x] : x \in ExportKeys(ex, r.src, r.name)}
      BY <2>1
    <3> HIDE DEF entry
    <3> QED
      BY <3>1, Zenon DEF FromPart
  <2>3. entry.name = r.as
    OBVIOUS
  <2> HIDE DEF entry
  <2>4. r.as \in NamesOf(FromPart(prj, ex, f))
    BY <2>2, <2>3 DEF NamesOf
  <2>5. r.as \in NamesOf(unit.from)
    BY <1>3, <2>4
  <2> QED
    BY <1>4, <2>5
<1>9. ASSUME NEW s \in StarSources(prj, f), NEW n \in Known(prj, heard, T, s), n # Default
      PROVE  n \in held
  <2>1. PICK i \in DOMAIN prj.stars[f] : s = prj.stars[f][i]
    BY DEF StarSources
  <2>2. s \in Sources
    BY RequestsType
  <2>3. n \in NamesOf(ExportEntries(ex, s))
    <3>1. CASE s \in Files
      BY <1>9, <3>1 DEF Holds, heard
    <3>2. CASE s \notin Files
      <4>1. n \in NamesOf(ex.extra[s].entries)
        BY <1>9, <2>2, <3>2, BlockNamesHeard DEF Known, heard
      <4> QED
        BY <4>1 DEF ExportEntries, NamesOf
    <3> QED
      BY <3>1, <3>2
  <2>4. PICK e \in ExportAll(ex, s) : e.name = n
    BY <1>9, <2>3 DEF ExportAll, NamesOf
  <2>5. n \in NamesOf(UnitEntries(unit))
    BY <2>1, <2>4, StarNamesKept DEF unit
  <2> QED
    BY <1>2, <2>5
<1>10. ExportStep(prj, heard, T, f) \subseteq held
  <2>1. \A n \in {r.as : r \in {q \in prj.froms[f] : q.name \in Known(prj, heard, T, q.src)}} : n \in held
    BY <1>8
  <2>2. \A n \in (UNION {Known(prj, heard, T, s) : s \in StarSources(prj, f)}) \ {Default} : n \in held
    BY <1>9
  <2> QED
    BY <1>5, <1>6, <1>7, <2>1, <2>2 DEF ExportStep
<1>11. T[f] \subseteq ExportStep(prj, heard, T, f)
  BY DEF Justified, heard
<1> QED
  BY <1>10, <1>11 DEF Holds, Known, held

(* What publishing results of a layer leaves alone in the layers before.   *)
Undisturbed(one, two, s) ==
    /\ two.complete[s] = one.complete[s]
    /\ ExportEntries(two, s) = ExportEntries(one, s)
    /\ ModuleExports(two, s) = ModuleExports(one, s)

LEMMA EarlierUndisturbed ==
    ASSUME SettledInv, pass = "second",
           NEW res, DOMAIN res \subseteq {f \in LayerFiles : IsChecked(prj, f)},
           \A f \in DOMAIN res : res[f] \in Results /\ OwnResult(prj, f, res[f]),
           NEW s \in Files, LayerOf(prj, s) < level
    PROVE  Undisturbed(exports, AddAll(exports, res), s)
<1>1. \A x \in Sources : AddAll(exports, res).extra[x] = exports.extra[x]
  BY EarlierKept DEF Agree
<1>2. s \notin LayerFiles /\ s \in Sources
  <2>1. /\ LayerFiles = {f \in Files \ Providers : LayerOf(prj, f) = level}
        /\ prj \in Project /\ level \in Nat
    BY LayerIs DEF SettledInv
  <2> QED
    BY <2>1 DEF Sources
<1>3. s \notin Published(res)
  BY <1>2 DEF Published
<1>4. /\ AddAll(exports, res).complete[s] = exports.complete[s]
      /\ AddAll(exports, res).names[s] = exports.names[s]
  BY <1>3 DEF AddAll
<1> QED
  BY <1>1, <1>2, <1>4 DEF Undisturbed, ExportEntries, ModuleExports

(* The results that are published in one step, and the files of which it   *)
(* is the last word.                                                       *)
LEMMA StepPublishes ==
    ASSUME SettledInv, StarInv, LayeredNext, pass = "second"
    PROVE  \E res : /\ DOMAIN res \subseteq {f \in LayerFiles : IsChecked(prj, f)}
                    /\ \A f \in DOMAIN res : res[f] \in Results /\ OwnResult(prj, f, res[f])
                    /\ exports' = AddAll(exports, res)
                    /\ prj' = prj
                    /\ Publishes(res) \/ (pass' = "second" /\ level' = level /\ report' = report
                                          /\ unsettled' = unsettled)
<1>1. PICK given : Publishes(given) \/ Rechecks(given)
  BY StepsOfLayers
<1>2. CASE Publishes(given)
  BY <1>2 DEF Publishes, LayerResults, PublishLayer, NextLayer
<1>3. CASE Rechecks(given)
  <2> DEFINE mine == OnlyMembers(given)
  <2>1. /\ prj' = prj /\ exports' = AddAll(exports, mine) /\ pass' = pass /\ level' = level
        /\ report' = report /\ unsettled' = unsettled
    BY <1>3 DEF Rechecks, StartRound
  <2>2. /\ DOMAIN given = {f \in LayerFiles : IsChecked(prj, f)}
        /\ \A f \in DOMAIN given : given[f] \in Results /\ OwnResult(prj, f, given[f])
    BY <1>3 DEF Rechecks, LayerResults
  <2>3. DOMAIN mine = DOMAIN given \cap Members /\ \A f \in DOMAIN mine : mine[f] = given[f]
    BY DEF OnlyMembers
  <2> HIDE DEF mine
  <2> QED
    BY <2>1, <2>2, <2>3
<1> QED
  BY <1>1, <1>2, <1>3

(* A step of the first pass leaves every list unpublished or makes the     *)
(* second pass start over.                                                 *)
LEMMA FirstPassSteps ==
    ASSUME SettledInv, StarInv, LayeredNext, pass # "second"
    PROVE  \/ pass' = "first"
           \/ pass' = "second" /\ level' = 1 /\ DOMAIN report' \subseteq Providers /\ prj' = prj
           \/ pass' = "finished" /\ \A f \in Files : exports'.complete[f] = "unknown"
<1>1. CASE pass = "providers" /\ PublishProviders(CheckBatch(prj, exports, Batch))
  BY <1>1 DEF PublishProviders
<1>2. ASSUME pass \in {"first", "second"}, NEW given, Publishes(given)
      PROVE  \/ pass' = "first"
             \/ pass' = "second" /\ level' = 1 /\ DOMAIN report' \subseteq Providers /\ prj' = prj
             \/ pass' = "finished" /\ \A f \in Files : exports'.complete[f] = "unknown"
  BY <1>2 DEF Publishes, PublishLayer, SecondPassNeeded, NextLayer
<1>3. ASSUME pass \in {"first", "second"}, NEW given, Rechecks(given) PROVE pass' = "first"
  BY <1>3 DEF Rechecks, StartRound
<1> QED
  BY <1>1, <1>2, <1>3, StepsOfLayers

LEMMA StepNames ==
    ASSUME SettledInv, SettledInv', StarInv, StarInv', ProviderInv', NamesInv, LayeredNext
    PROVE  NamesInv'
<1>1. CASE pass # "second"
  <2>1. prj' \in Project
    BY ProjectsAssumption DEF SettledInv, TypeInv, TypeOK
  <2>2. \A f \in Files : Revisited(f)' => exports'.complete[f] = "unknown"
    <3>1. ASSUME NEW f \in Files, pass' = "second", level' = 1, LayerOf(prj', f) < level'
          PROVE  FALSE
      BY <2>1, <3>1, LayersOfFiles
    <3> QED
      BY <1>1, <3>1, FirstPassSteps DEF Revisited
  <2>3. \A T \in NamesType, f \in Files :
            Revisited(f)' /\ exports'.complete[f] = "whole" => Holds(exports, T, f)'
    BY <2>2
  <2> QED
    BY <2>3 DEF NamesInv
<1>2. CASE pass = "second"
  <2>1. PICK res : /\ DOMAIN res \subseteq {f \in LayerFiles : IsChecked(prj, f)}
                   /\ \A f \in DOMAIN res : res[f] \in Results /\ OwnResult(prj, f, res[f])
                   /\ exports' = AddAll(exports, res)
                   /\ prj' = prj
                   /\ Publishes(res) \/ (pass' = "second" /\ level' = level /\ report' = report
                                         /\ unsettled' = unsettled)
    BY <1>2, StepPublishes
  <2>2. /\ prj \in Project /\ exports \in Exports /\ level \in Nat
        /\ LayerFiles = {f \in Files \ Providers : LayerOf(prj, f) = level}
    BY LayerIs DEF SettledInv
  <2>3. exports' \in Exports /\ OwnTables(prj, exports') /\ PublishedIn(exports') \subseteq Readable(prj)
    BY <2>1 DEF SettledInv, TypeInv, TypeOK, OwnInv, HeardInv
  <2>4. \A f \in Files : Revisited(f)' =>
            \/ LayerOf(prj, f) < level
            \/ LayerOf(prj, f) = level /\ Publishes(res) /\ pass' \in {"second", "finished"}
    <3>1. /\ layers = GraphLayers(prj) /\ \A f \in Files : LayerOf(prj, f) \in 1 .. Len(layers)
          /\ Len(layers) \in Nat
      BY <2>2, LayersOfFiles DEF SettledInv, ShapeInv
    <3>2. CASE Publishes(res)
      <4>1. \/ pass' = "finished" /\ level = Len(layers)
            \/ pass' = "second" /\ level' = level + 1
        BY <1>2, <3>2 DEF Publishes, PublishLayer
      <4> QED
        BY <2>1, <2>2, <3>1, <3>2, <4>1 DEF Revisited
    <3>3. CASE pass' = "second" /\ level' = level
      BY <2>1, <3>3 DEF Revisited
    <3> QED
      BY <2>1, <3>2, <3>3
  <2>5. SUFFICES ASSUME NEW T \in NamesType, Justified(prj, Heard(prj), T)
                 PROVE  \A f \in Files : Revisited(f)' /\ exports'.complete[f] = "whole"
                                            => Holds(exports', T, f)
    <3>1. \A T, f : Holds(exports, T, f)' <=> Holds(exports', T, f)
      BY <2>1 DEF Holds
    <3> QED
      BY <2>1, <2>5, <3>1 DEF NamesInv
  <2>6. ASSUME NEW f \in Files, LayerOf(prj, f) < level, exports'.complete[f] = "whole"
        PROVE  Holds(exports', T, f)
    <3>1. Undisturbed(exports, exports', f)
      BY <1>2, <2>1, <2>6, EarlierUndisturbed
    <3>2. Holds(exports, T, f)
      BY <1>2, <2>5, <2>6, <3>1 DEF NamesInv, Revisited, Undisturbed
    <3> QED
      BY <3>1, <3>2 DEF Holds, Undisturbed
  <2>7. ASSUME Publishes(res), pass' \in {"second", "finished"},
               NEW f \in Files, LayerOf(prj, f) = level, exports'.complete[f] = "whole"
        PROVE  TableCurrent(exports', f)
    <3>1. CASE f \in Providers
      BY <2>1, <2>7, <3>1 DEF ProviderInv, TableCurrent, Providers
    <3>2. CASE f \notin Providers
      <4>1. f \in Readable(prj)
        BY <2>3, <2>7 DEF PublishedIn
      <4>2. f \in DOMAIN res /\ f \in LayerFiles
        BY <2>2, <2>7, <3>2, <4>1 DEF Publishes, LayerResults, Readable
      <4>3. f \in Published(res)
        BY <2>1, <4>1, <4>2 DEF Published, OwnResult, Readable
      <4>4. /\ res[f].unit.published
            /\ exports'.complete[f] = res[f].unit.complete
            /\ exports'.names[f] = UnitEntries(res[f].unit)
        BY <2>1, <4>3 DEF AddAll, Published
      <4>5. ResultCurrent(exports', f, res[f])
        BY <1>2, <2>1, <2>7, <4>2, <4>4 DEF Publishes
      <4> QED
        BY <4>4, <4>5 DEF ResultCurrent, TableCurrent
    <3> QED
      BY <3>1, <3>2
  <2>8. ASSUME Publishes(res), pass' \in {"second", "finished"}
        PROVE  \A f \in Files : LayerOf(prj, f) = level /\ exports'.complete[f] = "whole"
                                    => Holds(exports', T, f)
    <3> DEFINE lacking == {f \in Files : /\ LayerOf(prj, f) = level
                                         /\ exports'.complete[f] = "whole"
                                         /\ ~ Holds(exports', T, f)}
    <3>1. PublishedIn(exports') = Readable(prj)
      BY <2>1, <2>3, <2>8 DEF SettledInv, HeardInv, HasPassed
    <3>2. ASSUME NEW f \in lacking PROVE StarSources(prj, f) \cap lacking # {}
      <4>1. TableCurrent(exports', f) /\ f \in Files /\ exports'.complete[f] = "whole"
        BY <2>7, <2>8
      <4>2. PICK s \in StarSources(prj, f) \cap Files : ~ Holds(exports', T, s)
        BY <2>2, <2>3, <2>5, <3>1, <4>1, WholeListHolds
      <4>3. ModuleExports(exports', s) = "whole"
        BY <2>2, <3>1, <4>1, WholeIsCollected, <2>3 DEF ListIsWhole
      <4>4. exports'.complete[s] = "whole"
        BY <4>3 DEF ModuleExports
      <4>5. /\ LayerOf(prj, s) <= level /\ LayerOf(prj, s) \in Nat
        BY <2>2, <4>1, SourcesEarlier, StarsRequested
      <4>6. LayerOf(prj, s) = level
        BY <2>2, <2>6, <4>2, <4>4, <4>5
      <4> QED
        BY <4>2, <4>4, <4>6
    <3>3. RoundOfStars(prj, exports', lacking)
      BY <3>2 DEF RoundOfStars
    <3>4. NoRoundIsWhole(prj, exports')
      BY <2>1 DEF StarInv
    <3>5. lacking \in SUBSET Files
      OBVIOUS
    <3> HIDE DEF lacking
    <3>6. lacking = {}
      BY <3>3, <3>4, <3>5 DEF NoRoundIsWhole
    <3> QED
      BY <3>6 DEF lacking
  <2> QED
    BY <2>4, <2>6, <2>8
<1> QED
  BY <1>1, <1>2

-----------------------------------------------------------------------------
(* Reports.                                                                *)

LEMMA LackedBefore ==
    ASSUME NEW one, NEW two, NEW s, Undisturbed(one, two, s), NEW n
    PROVE  Lacks(two, s, n) <=> Lacks(one, s, n)
  BY DEF Undisturbed, Lacks, ExportKeys

LEMMA StepTypos ==
    ASSUME SettledInv, StarInv, TypoInv, LayeredNext
    PROVE  TypoInv'
<1>1. /\ prj \in Project /\ level \in Nat
      /\ LayerFiles = {f \in Files \ Providers : LayerOf(prj, f) = level}
      /\ Members = LayerFiles \cap InCycle(prj)
      /\ unsettled \subseteq Files
  <2>1. cyclic \subseteq Files /\ unsettled \subseteq cyclic
    BY DEF SettledInv, TypeInv, TypeOK
  <2> QED
    BY <2>1, LayerIs DEF SettledInv
<1>2. /\ prj' = prj /\ unsettled' \in {unsettled, unsettled \cup Members}
  <2>1. ASSUME NEW given, Publishes(given) \/ Rechecks(given)
        PROVE  prj' = prj /\ unsettled' \in {unsettled, unsettled \cup Members}
    BY <2>1 DEF Publishes, Rechecks, PublishLayer, NextLayer, StartRound
  <2>2. PublishProviders(CheckBatch(prj, exports, Batch)) => prj' = prj /\ unsettled' = unsettled
    BY DEF PublishProviders
  <2> QED
    BY <2>1, <2>2, StepsOfLayers
<1>3. Providers' = Providers
  BY <1>2 DEF Providers
<1>4. (\A f \in unsettled, g \in InCycle(prj) \ Providers :
          LayerOf(prj, g) = LayerOf(prj, f) => g \in unsettled)'
  <2>1. InCycle(prj) \subseteq Files
    BY DEF InCycle, OnCycle, DependencyGraph, Nodes
  <2>2. ASSUME NEW f \in unsettled', NEW g \in InCycle(prj) \ Providers,
               LayerOf(prj, g) = LayerOf(prj, f)
        PROVE  g \in unsettled'
    <3>1. CASE f \in unsettled
      BY <1>2, <2>2, <3>1 DEF TypoInv
    <3>2. CASE f \notin unsettled
      BY <1>1, <1>2, <2>1, <2>2, <3>2
    <3> QED
      BY <3>1, <3>2
  <2> QED
    BY <1>2, <1>3, <2>2
<1>5. SUFFICES ASSUME pass' \in {"second", "finished"}, NEW f \in DOMAIN report' \ Providers
               PROVE  SaysWhatIsLacking(exports', f, report'[f].missing)
  <2>1. \A f, missing : SaysWhatIsLacking(exports, f, missing)'
                            <=> SaysWhatIsLacking(exports', f, missing')
    BY <1>2 DEF SaysWhatIsLacking
  <2> QED
    BY <1>3, <1>4, <1>5, <2>1 DEF TypoInv
<1>6. CASE pass # "second"
  <2>1. pass' = "finished" /\ \A s \in Files : exports'.complete[s] = "unknown"
    BY <1>5, <1>6, FirstPassSteps
  <2>2. \A s \in Files : \A n : ~ Lacks(exports', s, n)
    BY <2>1 DEF Lacks, ModuleExports
  <2> QED
    BY <2>2 DEF SaysWhatIsLacking
<1>7. CASE pass = "second"
  <2>1. PICK res : /\ DOMAIN res \subseteq {g \in LayerFiles : IsChecked(prj, g)}
                   /\ \A g \in DOMAIN res : res[g] \in Results /\ OwnResult(prj, g, res[g])
                   /\ exports' = AddAll(exports, res)
                   /\ prj' = prj
                   /\ Publishes(res) \/ (pass' = "second" /\ level' = level /\ report' = report
                                         /\ unsettled' = unsettled)
    BY <1>7, StepPublishes
  <2>2. ASSUME NEW s \in Files, LayerOf(prj, s) < level, NEW n
        PROVE  Lacks(exports', s, n) <=> Lacks(exports, s, n)
    BY <1>7, <2>1, <2>2, EarlierUndisturbed, LackedBefore
  <2>3. CASE f \in DOMAIN report /\ report'[f] = report[f]
    <3>1. f \in Files /\ LayerOf(prj, f) < level
      BY <1>5, <1>7, <2>3 DEF SettledInv, TypeInv, TypeOK, CurrentInv
    <3>2. SaysWhatIsLacking(exports, f, report[f].missing)
      BY <1>5, <1>7, <2>3 DEF TypoInv
    <3>3. \A r \in Requests(prj, f) : r.src \in Files /\ LayerOf(prj, r.src) < LayerOf(prj, f)
              => LayerOf(prj, r.src) < level
      BY <1>1, <3>1, SourcesEarlier, StarsRequested
    <3> QED
      BY <2>2, <2>3, <3>2, <3>3 DEF SaysWhatIsLacking
  <2>4. CASE Publishes(res) /\ f \in DOMAIN res /\ report'[f].missing = res[f].missing
    <3>1. f \in Files /\ LayerOf(prj, f) = level
      BY <1>1, <2>1, <2>4
    <3>2. AboutImports(res[f].missing) = AboutImports(BindDiagnostics(prj, exports, f))
      BY <1>7, <2>4 DEF Publishes
    <3>3. ASSUME prj.fault[f] \in {"none", "keyless"}, NEW r \in Requests(prj, f),
                 r.src \in Files, LayerOf(prj, r.src) < LayerOf(prj, f),
                 Lacks(exports', r.src, r.name)
          PROVE  MissingName(r.src, r.name) \in res[f].missing
      <4>1. Lacks(exports, r.src, r.name)
        BY <2>2, <3>1, <3>3
      <4>2. MissingName(r.src, r.name) \in ImportDiagnostics(prj, exports, f)
        BY <3>3, <4>1 DEF ImportDiagnostics, Lacks
      <4>3. MissingName(r.src, r.name) \in AboutImports(BindDiagnostics(prj, exports, f))
        BY <1>1, <3>1, <3>3, <4>2, ImportsReported
      <4> QED
        BY <3>2, <4>3 DEF AboutImports
    <3> QED
      BY <2>4, <3>3 DEF SaysWhatIsLacking
  <2>5. \/ f \in DOMAIN report /\ report'[f] = report[f]
        \/ Publishes(res) /\ f \in DOMAIN res /\ report'[f].missing = res[f].missing
    <3>1. CASE Publishes(res)
      <4>1. report' = WithReports(report, res)
        BY <1>7, <3>1 DEF Publishes, PublishLayer
      <4> QED
        BY <1>5, <3>1, <4>1 DEF WithReports, Reported, FileReport
    <3>2. CASE report' = report
      BY <1>5, <3>2
    <3> QED
      BY <2>1, <3>1, <3>2
  <2> QED
    BY <2>3, <2>4, <2>5
<1> QED
  BY <1>6, <1>7

-----------------------------------------------------------------------------
LEMMA InitPromise == Init => PromiseInv
<1> SUFFICES ASSUME Init PROVE PromiseInv
  OBVIOUS
<1>1. SettledInv /\ prj \in Project
  BY InitSettled, ProjectsAssumption DEF Init
<1>2. \A f \in Files : exports.complete[f] = "unknown"
  BY DEF Init, NoExports
<1>3. StarInv
  BY <1>2 DEF StarInv, NoRoundIsWhole, RoundOfStars, Init
<1>4. ProviderInv
  BY DEF ProviderInv, Init
<1>5. NamesInv
  BY <1>2, Zenon DEF NamesInv
<1>6. TypoInv
  BY DEF TypoInv, Init
<1> QED
  BY <1>1, <1>3, <1>4, <1>5, <1>6 DEF PromiseInv

LEMMA StepPromise == PromiseInv /\ [LayeredNext \/ Finished]_driver => PromiseInv'
<1> SUFFICES ASSUME PromiseInv, [LayeredNext \/ Finished]_driver PROVE PromiseInv'
  OBVIOUS
<1>1. SettledInv'
  BY StepSettled DEF PromiseInv
<1>2. CASE LayeredNext
  <2>1. StarInv'
    BY <1>2, StepStars DEF PromiseInv
  <2>2. ProviderInv'
    BY <1>2, StepProviders DEF PromiseInv
  <2>3. NamesInv'
    BY <1>1, <1>2, <2>1, <2>2, StepNames DEF PromiseInv
  <2>4. TypoInv'
    BY <1>2, StepTypos DEF PromiseInv
  <2> QED
    BY <1>1, <2>1, <2>2, <2>3, <2>4 DEF PromiseInv
<1>3. CASE UNCHANGED driver
  <2>1. /\ prj' = prj /\ stage' = stage /\ pass' = pass /\ level' = level /\ layers' = layers
        /\ cyclic' = cyclic /\ exports' = exports /\ done' = done /\ report' = report
        /\ unsettled' = unsettled
    BY <1>3 DEF driver
  <2>2. Providers' = Providers /\ Members' = Members
    BY <2>1 DEF Providers, Members, LayerFiles
  <2>3. StarInv'
    BY <2>1, <2>2 DEF PromiseInv, StarInv, StarsAreWhole
  <2>4. ProviderInv'
    BY <2>1, <2>2 DEF PromiseInv, ProviderInv, TableCurrent
  <2>5. NamesInv'
    <3>1. /\ \A T, f : Holds(exports, T, f)' <=> Holds(exports, T, f)
          /\ \A f : Revisited(f)' <=> Revisited(f)
      BY <2>1 DEF Holds, Revisited
    <3> QED
      BY <2>1, <3>1 DEF PromiseInv, NamesInv
  <2>6. TypoInv'
    BY <2>1, <2>2 DEF PromiseInv, TypoInv, SaysWhatIsLacking
  <2> QED
    BY <1>1, <2>3, <2>4, <2>5, <2>6 DEF PromiseInv
<1> QED
  BY <1>2, <1>3 DEF Finished

THEOREM PromisesKept == LayeredSpec => []PromiseInv
  BY InitPromise, StepPromise, PTL DEF LayeredSpec

(* What a settled file was told about its imports is what the final tables *)
(* say.                                                                    *)
LEMMA SettledReports ==
    ASSUME PromiseInv, pass = "finished", NEW f \in DOMAIN report \ unsettled
    PROVE  \/ AboutImports(report[f].missing) = {}
           \/ AboutImports(report[f].missing) = ImportDiagnostics(prj, exports, f)
<1>1. f \in Files /\ IsChecked(prj, f) /\ prj \in Project
  BY LayerIs DEF PromiseInv, SettledInv, ShapeInv, TypeInv, TypeOK
<1>2. CASE f \in Providers
  BY <1>2 DEF PromiseInv, ProviderInv
<1>3. CASE f \notin Providers
  <2>1. ReportCurrent(exports, f, report[f])
    BY <1>1, <1>3 DEF PromiseInv, SettledInv, CurrentInv, Final
  <2> QED
    BY <1>1, <2>1, ImportsReported DEF ReportCurrent
<1> QED
  BY <1>2, <1>3

LEMMA PromiseImplies == PromiseInv => NeverInvents
<1> SUFFICES ASSUME PromiseInv, pass = "finished", NEW d \in ReportedMissing
             PROVE  /\ d.kind = "name" =>
                          \A T \in NamesType : Justified(prj, Heard(prj), T)
                              => d.name \notin Known(prj, Heard(prj), T, d.src)
                    /\ d.kind = "module" => \A b \in Ambient(prj, Heard(prj)) : b.spec # d.src
  BY DEF NeverInvents, NamesType
<1>1. prj \in Project /\ exports \in Exports /\ OwnTables(prj, exports)
  BY LayerIs DEF PromiseInv, SettledInv, OwnInv
<1>2. PublishedIn(exports) = Readable(prj)
  BY DEF PromiseInv, SettledInv, HeardInv, HasPassed
<1>3. PICK f \in DOMAIN report \ unsettled : d \in report[f].missing
  BY DEF ReportedMissing
<1>4. f \in Files
  BY DEF PromiseInv, SettledInv, TypeInv, TypeOK
<1>5. d.kind \in {"module", "name"} => d \in ImportDiagnostics(prj, exports, f)
  BY <1>3, SettledReports DEF AboutImports
<1>6. ASSUME d.kind = "module", NEW b \in Ambient(prj, Heard(prj)), b.spec = d.src PROVE FALSE
  <2>1. PICK s \in RequestedSources(prj, f) :
            d = MissingModule(s) /\ ModuleExports(exports, s) = "unresolved"
    BY <1>5, <1>6 DEF ImportDiagnostics, MissingName
  <2>2. s \in Sources /\ d.src = s
    BY <1>1, <1>4, <2>1, RequestsType DEF MissingModule
  <2>3. exports.extra[s].state # "unknown"
    BY <1>1, <1>2, <1>6, <2>2, BlockNamesHeard
  <2>4. s \notin Files
    BY <1>1, <2>1 DEF ModuleExports, Exports, Completeness
  <2>5. ModuleExports(exports, s) \in Completeness
    BY <1>1, <2>2, <2>3, <2>4 DEF ModuleExports, Exports
  <2> QED
    BY <2>1, <2>5 DEF Completeness
<1>7. ASSUME d.kind = "name", NEW T \in NamesType, Justified(prj, Heard(prj), T),
             d.name \in Known(prj, Heard(prj), T, d.src)
      PROVE  FALSE
  <2>1. PICK r \in Requests(prj, f) :
            d = MissingName(r.src, r.name) /\ Lacks(exports, r.src, r.name)
    BY <1>5, <1>7 DEF ImportDiagnostics, MissingModule, Lacks
  <2>2. r.src \in Sources /\ d.src = r.src /\ d.name = r.name
    BY <1>1, <1>4, <2>1, RequestsType DEF MissingName
  <2>3. r.name \notin NamesOf(ExportEntries(exports, r.src))
    BY <2>1 DEF Lacks, ExportKeys, NamesOf
  <2>4. CASE r.src \in Files
    <3>1. exports.complete[r.src] = "whole"
      BY <2>1, <2>4 DEF Lacks, ModuleExports
    <3>2. Holds(exports, T, r.src)
      BY <1>7, <2>4, <3>1 DEF PromiseInv, NamesInv, Revisited
    <3> QED
      BY <1>7, <2>2, <2>3, <3>2 DEF Holds
  <2>5. CASE r.src \notin Files
    <3>1. r.name \in NamesOf(exports.extra[r.src].entries)
      BY <1>1, <1>2, <1>7, <2>2, <2>5, BlockNamesHeard DEF Known
    <3> QED
      BY <2>3, <3>1 DEF ExportEntries, NamesOf
  <2> QED
    BY <2>4, <2>5
<1> QED
  BY <1>6, <1>7

(* imports.rs: "a false error is worse than a missed one".  For every      *)
(* finite set of files, every project and every bound, whatever the        *)
(* cycles, augmentations and blocks of the project are: no name and no     *)
(* module that could be there is called missing.                           *)
THEOREM ImportsAreTrue == LayeredSpec => []NeverInvents
  BY PromisesKept, PromiseImplies, PTL

-----------------------------------------------------------------------------
(* What the modules of a project really export.                            *)

LEMMA EnoughSteps == ExportSteps \in Nat /\ Cardinality(Files) \in Nat /\ Cardinality(Files) <= ExportSteps
<1>1. Cardinality(Files) \in Nat /\ Cardinality(Names) \in Nat
  BY FilesAssumption, NamesAssumption, FS_CardinalityType
<1>2. Cardinality(Names) # 0
  BY ConstantsAssumption, NamesAssumption, FS_EmptySet
<1>3. \A m, n \in Nat : n # 0 => m * n \in Nat /\ m <= m * n
  <2>1. SUFFICES ASSUME NEW m \in Nat, NEW n \in Nat, n # 0 PROVE m * n \in Nat /\ m <= m * n
    OBVIOUS
  <2>2. m * n = m + m * (n - 1) /\ n - 1 \in Nat
    BY <2>1
  <2>3. m * (n - 1) \in Nat
    BY <2>2
  <2> QED
    BY <2>2, <2>3
<1> QED
  BY <1>1, <1>2, <1>3 DEF ExportSteps

LEMMA KnownType ==
    ASSUME NEW p \in Project, NEW heard \in SUBSET Files, NEW T \in NamesType
    PROVE  /\ \A s \in Sources : Known(p, heard, T, s) \subseteq Names
           /\ \A f \in Files : ExportStep(p, heard, T, f) \subseteq Names
<1>1. ASSUME NEW s \in Sources PROVE Known(p, heard, T, s) \subseteq Names
  <2>1. \A b \in Ambient(p, heard) : b.names \subseteq Names
    BY StatementsType DEF Ambient
  <2> QED
    BY <2>1 DEF Known, NamesType, BlockNames
<1>2. \A b \in Augmentations(p, heard) : b.names \subseteq Names
  BY StatementsType DEF Augmentations
<1>3. ASSUME NEW f \in Files PROVE ExportStep(p, heard, T, f) \subseteq Names
  <2>1. p.decls[f] \cup p.hidden[f] \subseteq Names
    BY DEF Project
  <2>2. BlockNames(Augmentations(p, heard), f) \subseteq Names
    BY <1>2 DEF BlockNames
  <2>3. \A r \in p.froms[f] : r.as \in Names
    BY StatementsType
  <2>4. UNION {Known(p, heard, T, s) : s \in StarSources(p, f)} \subseteq Names
    BY <1>1, RequestsType
  <2> QED
    BY <2>1, <2>2, <2>3, <2>4 DEF ExportStep
<1> QED
  BY <1>1, <1>3

LEMMA TrueRow ==
    ASSUME NEW p \in Project, NEW heard \in SUBSET Files
    PROVE  \E T : /\ \A n \in 0 .. ExportSteps : T[n] \in NamesType
                  /\ \A n \in 1 .. ExportSteps : \A f \in Files :
                        T[n][f] = ExportStep(p, heard, T[n - 1], f)
                  /\ TrueNames(p, heard) = [s \in Sources |-> Known(p, heard, T[ExportSteps], s)]
<1> DEFINE N == ExportSteps
           Zero == [f \in Files |-> {}]
           Next(lower) == [f \in Files |-> ExportStep(p, heard, lower, f)]
           T == CHOOSE t : t = [n \in 0 .. N |-> IF n = 0 THEN Zero ELSE Next(t[n - 1])]
           S == [n \in 0 .. N |-> NamesType]
           G == [n \in 1 .. N |-> [lower \in NamesType |-> Next(lower)]]
<1>1. N \in Nat
  BY EnoughSteps
<1>2. TrueNames(p, heard) = [s \in Sources |-> Known(p, heard, T[N], s)]
  BY DEF TrueNames
<1> HIDE DEF N
<1>3. \A n \in 1 .. N : n - 1 \in 0 .. N /\ n \in 0 .. N
  BY <1>1
<1>4. Zero \in NamesType /\ \A lower \in NamesType : Next(lower) \in NamesType
  BY KnownType DEF NamesType
<1>5. \A n \in 1 .. N, lower \in NamesType : G[n][lower] = Next(lower)
  OBVIOUS
<1>6. PICK t : /\ t = [n \in 0 .. N |-> t[n]]
               /\ t[0] = Zero
               /\ \A n \in 1 .. N : t[n] = G[n][t[n - 1]]
               /\ \A n \in 0 .. N : t[n] \in S[n]
  <2>1. Zero \in S[0]
    BY <1>1, <1>4
  <2>2. \A n \in 0 .. N : S[n] = NamesType
    OBVIOUS
  <2> HIDE DEF Zero, S, G, Next, T
  <2>3. Advances(N, S, G)
    BY <1>3, <1>4, <1>5, <2>2 DEF Advances
  <2> QED
    BY <1>1, <2>1, <2>3, Iterated
<1>7. t = [n \in 0 .. N |-> IF n = 0 THEN Zero ELSE Next(t[n - 1])]
  <2>1. \A n \in 0 .. N : t[n] \in NamesType
    BY <1>6
  <2> HIDE DEF Next, S, G, Zero, T
  <2>2. \A n \in 1 .. N : t[n] = Next(t[n - 1])
    BY <1>3, <1>5, <1>6, <2>1
  <2>3. \A n \in 0 .. N : n # 0 => n \in 1 .. N
    BY <1>1
  <2>4. \A n \in 0 .. N : t[n] = IF n = 0 THEN Zero ELSE Next(t[n - 1])
    BY <1>6, <2>2, <2>3
  <2> QED
    BY <1>6, <2>4
<1> HIDE DEF Next, S, G, Zero
<1>8. T = [n \in 0 .. N |-> IF n = 0 THEN Zero ELSE Next(T[n - 1])]
  BY <1>7
<1> HIDE DEF T
<1>9. T[0] = Zero /\ \A n \in 1 .. N : T[n] = Next(T[n - 1])
  BY <1>1, <1>3, <1>8
<1>10. \A n \in 0 .. N : T[n] \in NamesType
  <2> DEFINE Bad == {n \in 0 .. N : T[n] \notin NamesType}
  <2>1. SUFFICES ASSUME Bad # {} PROVE FALSE
    OBVIOUS
  <2>2. PICK n \in Bad : \A k \in Bad : n <= k
    <3>1. Bad \subseteq Nat
      OBVIOUS
    <3> HIDE DEF Bad
    <3> QED
      BY <2>1, <3>1, LeastNumber
  <2>3. n # 0
    BY <1>4, <1>9
  <2>4. n \in 1 .. N /\ n - 1 \notin Bad /\ n - 1 \in 0 .. N
    BY <1>1, <2>2, <2>3
  <2> QED
    BY <1>4, <1>9, <2>4
<1>11. \A n \in 1 .. N : \A f \in Files : T[n][f] = ExportStep(p, heard, T[n - 1], f)
  BY <1>9 DEF Next
<1> QED
  BY <1>2, <1>10, <1>11 DEF N

(* The modules nothing can make partial, one step of re-exports further.   *)
CarriedOver(p, settled, lower) ==
    {f \in settled \cap Heard(p) :
        /\ p.hidden[f] = {}
        /\ \A g \in Files : \A u \in p.augments[g] : u.spec = f => u.whole /\ g \in Heard(p)
        /\ StarSources(p, f) \subseteq lower
        /\ \A r \in p.froms[f] : r.src \in lower /\ r.name \in TrueNames(p, Files)[r.src]}

LEMMA CarriedRow ==
    ASSUME NEW p \in Project, NEW settled \in SUBSET Files
    PROVE  LET K == Cardinality(Files)
           IN  \E C : /\ C[0] = {}
                      /\ \A n \in 1 .. K : C[n] = CarriedOver(p, settled, C[n - 1])
                      /\ \A n \in 0 .. K : C[n] \subseteq Files
                      /\ Carried(p, settled) = C[K]
<1> DEFINE K == Cardinality(Files)
           C == CHOOSE c : c = [n \in 0 .. K |-> IF n = 0 THEN {} ELSE CarriedOver(p, settled, c[n - 1])]
           S == [n \in 0 .. K |-> SUBSET Files]
           G == [n \in 1 .. K |-> [lower \in SUBSET Files |-> CarriedOver(p, settled, lower)]]
<1>1. K \in Nat
  BY EnoughSteps
<1>2. Carried(p, settled) = C[K]
  BY DEF Carried, CarriedOver
<1> HIDE DEF K
<1>3. \A n \in 1 .. K : n - 1 \in 0 .. K /\ n \in 0 .. K
  BY <1>1
<1>4. \A lower : CarriedOver(p, settled, lower) \in SUBSET Files
  BY DEF CarriedOver
<1>5. \A n \in 1 .. K, lower \in SUBSET Files : G[n][lower] = CarriedOver(p, settled, lower)
  OBVIOUS
<1>6. PICK c : /\ c = [n \in 0 .. K |-> c[n]]
               /\ c[0] = {}
               /\ \A n \in 1 .. K : c[n] = G[n][c[n - 1]]
               /\ \A n \in 0 .. K : c[n] \in S[n]
  <2>1. {} \in S[0]
    BY <1>1
  <2>2. \A n \in 0 .. K : S[n] = SUBSET Files
    OBVIOUS
  <2> HIDE DEF S, G, C
  <2>3. Advances(K, S, G)
    BY <1>3, <1>4, <1>5, <2>2 DEF Advances
  <2> QED
    BY <1>1, <2>1, <2>3, Iterated
<1>7. c = [n \in 0 .. K |-> IF n = 0 THEN {} ELSE CarriedOver(p, settled, c[n - 1])]
  <2>1. \A n \in 0 .. K : c[n] \in SUBSET Files
    BY <1>6
  <2> HIDE DEF S, G, C
  <2>2. \A n \in 1 .. K : c[n] = CarriedOver(p, settled, c[n - 1])
    BY <1>3, <1>5, <1>6, <2>1
  <2>3. \A n \in 0 .. K : n # 0 => n \in 1 .. K
    BY <1>1
  <2>4. \A n \in 0 .. K : c[n] = IF n = 0 THEN {} ELSE CarriedOver(p, settled, c[n - 1])
    BY <1>6, <2>2, <2>3
  <2> QED
    BY <1>6, <2>4
<1> HIDE DEF S, G
<1>8. C = [n \in 0 .. K |-> IF n = 0 THEN {} ELSE CarriedOver(p, settled, C[n - 1])]
  BY <1>7
<1> HIDE DEF C
<1>9. C[0] = {} /\ \A n \in 1 .. K : C[n] = CarriedOver(p, settled, C[n - 1])
  <2>1. 0 \in 0 .. K /\ \A n \in 1 .. K : n \in 0 .. K /\ n # 0
    BY <1>1
  <2>2. \A n \in 0 .. K : C[n] = IF n = 0 THEN {} ELSE CarriedOver(p, settled, C[n - 1])
    BY <1>8
  <2> QED
    BY <2>1, <2>2
<1>10. \A n \in 0 .. K : C[n] \subseteq Files
  <2>1. \A n \in 0 .. K : n = 0 \/ n \in 1 .. K
    BY <1>1
  <2> QED
    BY <1>4, <1>9, <2>1
<1> QED
  BY <1>2, <1>9, <1>10 DEF K

(* What a module exports depends on the modules it passes on.              *)
LEMMA SameSources ==
    ASSUME NEW p, NEW heard, NEW one, NEW two, NEW f,
           \A s \in StarSources(p, f) : s \in Files /\ one[s] = two[s],
           \A r \in p.froms[f] : r.src \in Files /\ one[r.src] = two[r.src]
    PROVE  ExportStep(p, heard, one, f) = ExportStep(p, heard, two, f)
<1>1. \A s \in StarSources(p, f) : Known(p, heard, one, s) = Known(p, heard, two, s)
  BY DEF Known
<1>2. \A r \in p.froms[f] : Known(p, heard, one, r.src) = Known(p, heard, two, r.src)
  BY DEF Known
<1>3. {q \in p.froms[f] : q.name \in Known(p, heard, one, q.src)}
          = {q \in p.froms[f] : q.name \in Known(p, heard, two, q.src)}
  BY <1>2
<1>4. {Known(p, heard, one, s) : s \in StarSources(p, f)}
          = {Known(p, heard, two, s) : s \in StarSources(p, f)}
  BY <1>1
<1> QED
  BY <1>3, <1>4 DEF ExportStep

(* The true names of a carried module are those its statements make of the *)
(* true names of the modules it passes on, and these were carried before.  *)
LEMMA CarriedTruth ==
    ASSUME NEW p \in Project, NEW settled \in SUBSET Files
    PROVE  LET K == Cardinality(Files)
           IN  \E C, T :
                  /\ C[0] = {} /\ \A n \in 1 .. K : C[n] = CarriedOver(p, settled, C[n - 1])
                  /\ \A n \in 0 .. K : C[n] \subseteq Files
                  /\ Carried(p, settled) = C[K]
                  /\ \A f \in Files : TrueNames(p, Files)[f] = T[f]
                  /\ \A n \in 1 .. K : \A f \in C[n] : T[f] = ExportStep(p, Files, T, f)
<1> DEFINE K == Cardinality(Files)
           N == ExportSteps
<1>1. K \in Nat /\ N \in Nat /\ K <= N
  BY EnoughSteps
<1>2. PICK C : /\ C[0] = {}
               /\ \A n \in 1 .. K : C[n] = CarriedOver(p, settled, C[n - 1])
               /\ \A n \in 0 .. K : C[n] \subseteq Files
               /\ Carried(p, settled) = C[K]
  BY CarriedRow
<1>3. PICK T : /\ \A n \in 1 .. N : \A f \in Files : T[n][f] = ExportStep(p, Files, T[n - 1], f)
               /\ TrueNames(p, Files) = [s \in Sources |-> Known(p, Files, T[N], s)]
  BY TrueRow
<1> HIDE DEF K, N
<1>4. \A f \in Files : TrueNames(p, Files)[f] = T[N][f]
  BY <1>3 DEF Sources, Known
<1>5. ASSUME NEW n \in 1 .. K, NEW f \in C[n]
      PROVE  /\ f \in Files /\ n - 1 \in 0 .. K /\ C[n - 1] \subseteq Files
             /\ \A s \in StarSources(p, f) : s \in C[n - 1]
             /\ \A r \in p.froms[f] : r.src \in C[n - 1]
  <2>1. n - 1 \in 0 .. K /\ n \in 0 .. K
    BY <1>1
  <2>2. f \in CarriedOver(p, settled, C[n - 1])
    BY <1>2
  <2> QED
    BY <1>2, <2>1, <2>2 DEF CarriedOver
<1> DEFINE Moves(n) == \E f \in C[n], m \in n .. N : T[m][f] # T[N][f]
           Bad == {n \in 0 .. K : Moves(n)}
<1>6. Bad = {}
  <2>1. SUFFICES ASSUME Bad # {} PROVE FALSE
    OBVIOUS
  <2>2. PICK n \in Bad : \A k \in Bad : n <= k
    <3>1. Bad \subseteq Nat
      OBVIOUS
    <3> HIDE DEF Bad
    <3> QED
      BY <2>1, <3>1, LeastNumber
  <2>3. PICK f \in C[n], m \in n .. N : T[m][f] # T[N][f]
    OBVIOUS
  <2>4. n \in 1 .. K /\ n - 1 \in 0 .. K /\ n - 1 \notin Bad
    <3>1. n # 0
      BY <1>2, <2>3
    <3>2. n \in 0 .. K
      OBVIOUS
    <3> HIDE DEF Bad
    <3> QED
      BY <1>1, <2>2, <3>1, <3>2
  <2>5. ~ Moves(n - 1)
    BY <2>4
  <2> HIDE DEF Bad
  <2>6. /\ m \in 1 .. N /\ N \in 1 .. N
        /\ m - 1 \in n - 1 .. N /\ N - 1 \in n - 1 .. N
    BY <1>1, <2>3, <2>4
  <2>7. \A s \in C[n - 1] : T[m - 1][s] = T[N - 1][s]
    BY <2>5, <2>6
  <2>8. ExportStep(p, Files, T[m - 1], f) = ExportStep(p, Files, T[N - 1], f)
    BY <1>5, <2>3, <2>4, <2>7, SameSources
  <2>9. f \in Files
    BY <1>5, <2>3, <2>4
  <2> QED
    BY <1>3, <2>3, <2>6, <2>8, <2>9
<1>7. ASSUME NEW n \in 1 .. K, NEW f \in C[n] PROVE T[N][f] = ExportStep(p, Files, T[N], f)
  <2>1. n - 1 \in 0 .. K /\ n - 1 \notin Bad
    BY <1>1, <1>6
  <2>2. ~ Moves(n - 1)
    BY <2>1
  <2> HIDE DEF Bad
  <2>3. N \in 1 .. N /\ N - 1 \in n - 1 .. N
    BY <1>1
  <2>4. \A s \in C[n - 1] : T[N - 1][s] = T[N][s]
    BY <2>2, <2>3
  <2>5. ExportStep(p, Files, T[N - 1], f) = ExportStep(p, Files, T[N], f)
    BY <1>5, <2>4, SameSources
  <2>6. f \in Files
    BY <1>5
  <2> QED
    BY <1>3, <2>3, <2>5, <2>6
<1> HIDE DEF Moves, Bad
<1> QED
  BY <1>2, <1>4, <1>7 DEF K

(* The final list of a carried module is whole and holds its true names.   *)
ListsTheTruth(T, f) ==
    /\ ModuleExports(exports, f) = "whole"
    /\ NamesOf(ExportEntries(exports, f)) = T[f]

(* What augments a carried module is in the tables, and whole.             *)
LEMMA CarriedBlocks ==
    ASSUME PromiseInv, pass = "finished", NEW settled \in SUBSET Files, NEW lower,
           NEW f \in CarriedOver(prj, settled, lower)
    PROVE  /\ exports.extra[f].state # "partial"
           /\ NamesOf(exports.extra[f].entries) = BlockNames(Augmentations(prj, Files), f)
<1>1. prj \in Project /\ exports \in Exports /\ OwnTables(prj, exports) /\ f \in Files
  BY LayerIs DEF PromiseInv, SettledInv, OwnInv, CarriedOver
<1>2. PublishedIn(exports) = Readable(prj)
  BY DEF PromiseInv, SettledInv, HeardInv, HasPassed
<1> DEFINE blocks == OwnBlocks(prj, PublishedIn(exports), f)
<1>3. exports.extra[f] = Contributed(prj, PublishedIn(exports), f)
  BY <1>1 DEF OwnTables, Sources
<1>4. ASSUME NEW x \in blocks
      PROVE  x.block.spec = f /\ x.block.whole /\ x.block \in Augmentations(prj, Files)
  <2>1. PICK g \in PublishedIn(exports) : \E b \in BlocksOf(prj, g) :
            b.spec = f /\ x = [owner |-> g, block |-> b]
    BY DEF OwnBlocks
  <2>2. PICK b \in BlocksOf(prj, g) : b.spec = f /\ x = [owner |-> g, block |-> b]
    BY <2>1
  <2>3. g \in Files /\ b \in prj.ambient[g] \cup prj.augments[g]
    BY <2>2 DEF PublishedIn, BlocksOf
  <2>4. b \notin prj.ambient[g]
    BY <1>1, <2>2, <2>3, StatementsType, ConstantsAssumption
  <2>5. b.whole
    BY <2>2, <2>3, <2>4 DEF CarriedOver
  <2> QED
    BY <2>2, <2>3, <2>4, <2>5 DEF Augmentations
<1>5. exports.extra[f].state # "partial" /\ exports.extra[f].entries = BlockEntries(blocks, f)
  <2>1. \A x \in blocks : x.block.whole
    BY <1>4
  <2> QED
    BY <1>3, <2>1 DEF Contributed
<1> HIDE DEF blocks
<1>6. ASSUME NEW n \in NamesOf(BlockEntries(blocks, f))
      PROVE  n \in BlockNames(Augmentations(prj, Files), f)
  <2>1. PICK e \in BlockEntries(blocks, f) : e.name = n
    BY DEF NamesOf
  <2>2. PICK x \in blocks : e \in {[name |-> k, key |-> <<x.owner, f, k>>] : k \in x.block.names}
    BY DEF BlockEntries
  <2>3. n \in x.block.names
    BY <2>1, <2>2
  <2> QED
    BY <1>4, <2>2, <2>3 DEF BlockNames
<1>7. ASSUME NEW n \in BlockNames(Augmentations(prj, Files), f)
      PROVE  n \in NamesOf(BlockEntries(blocks, f))
  <2>1. PICK b \in Augmentations(prj, Files) : b.spec = f /\ n \in b.names
    BY DEF BlockNames
  <2>2. PICK g \in Files : b \in prj.augments[g]
    BY DEF Augmentations
  <2>3. g \in Heard(prj)
    BY <2>1, <2>2 DEF CarriedOver
  <2>4. n \in NamesOf(exports.extra[f].entries)
    BY <1>1, <1>2, <2>1, <2>2, <2>3, BlocksHeard DEF Sources
  <2> QED
    BY <1>5, <2>4
<1> QED
  BY <1>5, <1>6, <1>7

LEMMA CarriedList ==
    ASSUME PromiseInv, pass = "finished", NEW lower \in SUBSET Files,
           NEW f \in CarriedOver(prj, Files \ unsettled, lower), NEW T,
           T[f] = ExportStep(prj, Files, T, f),
           \A s \in lower : TrueNames(prj, Files)[s] = T[s] /\ ListsTheTruth(T, s)
    PROVE  ListsTheTruth(T, f)
<1>1. /\ prj \in Project /\ exports \in Exports
      /\ f \in Files \ unsettled /\ IsChecked(prj, f) /\ prj.fault[f] = "none"
  BY LayerIs DEF PromiseInv, SettledInv, CarriedOver, Heard
<1>2. prj.hidden[f] = {} /\ StarSources(prj, f) \subseteq lower
  BY DEF CarriedOver
<1>3. \A r \in prj.froms[f] : r.src \in lower /\ r.name \in NamesOf(ExportEntries(exports, r.src))
  BY DEF CarriedOver, ListsTheTruth
<1>4. /\ exports.extra[f].state # "partial"
      /\ NamesOf(exports.extra[f].entries) = BlockNames(Augmentations(prj, Files), f)
  BY CarriedBlocks
<1> DEFINE unit == CollectedUnit(prj, exports, f)
           names == NamesOf(UnitEntries(unit))
<1>5. ListIsWhole(prj, exports, f)
  <2>1. \A r \in prj.froms[f] : ExportKeys(exports, r.src, r.name) # {}
    BY <1>3 DEF NamesOf, ExportKeys
  <2> QED
    BY <1>2, <2>1 DEF ListIsWhole, ListsTheTruth
<1>6. exports.names[f] = UnitEntries(unit) /\ exports.complete[f] = "whole"
  <2>1. TableCurrent(exports, f)
    <3>1. CASE f \in Providers
      BY <3>1 DEF PromiseInv, ProviderInv
    <3>2. CASE f \notin Providers
      BY <1>1, <3>2 DEF PromiseInv, SettledInv, CurrentInv, Final
    <3> QED
      BY <3>1, <3>2
  <2>2. Collect(prj, exports, f) = unit
    BY <1>1 DEF Collect
  <2>3. unit.published /\ unit.complete = "whole"
    BY <1>5 DEF CollectedUnit
  <2> QED
    BY <2>1, <2>2, <2>3 DEF TableCurrent
<1>7. ModuleExports(exports, f) = "whole"
  BY <1>1, <1>4, <1>6 DEF ModuleExports
<1>8. /\ unit.local = LocalPart(prj, f) /\ unit.from = FromPart(prj, exports, f)
      /\ unit.stars = StarParts(prj, exports, f)
  BY DEF CollectedUnit
<1> DEFINE starred == {n \in UNION {T[s] : s \in StarSources(prj, f)} : n # Default}
<1>9. NamesOf(LocalPart(prj, f)) = prj.decls[f]
  <2>1. ASSUME NEW n \in prj.decls[f] PROVE n \in NamesOf(LocalPart(prj, f))
    <3>1. [name |-> n, key |-> <<f, f, n>>] \in LocalPart(prj, f)
      BY DEF LocalPart
    <3> QED
      BY <3>1 DEF NamesOf
  <2>2. \A e \in LocalPart(prj, f) : e.name \in prj.decls[f]
    BY DEF LocalPart
  <2> QED
    BY <2>1, <2>2 DEF NamesOf
<1>10. NamesOf(FromPart(prj, exports, f)) = {r.as : r \in prj.froms[f]}
  <2>1. ASSUME NEW r \in prj.froms[f] PROVE r.as \in NamesOf(FromPart(prj, exports, f))
    <3>1. PICK k \in ExportKeys(exports, r.src, r.name) : TRUE
      BY <1>3 DEF NamesOf, ExportKeys
    <3> DEFINE entry == [name |-> r.as, key |-> k]
    <3>2. entry \in {[name |-> r.as, key |-> x] : x \in ExportKeys(exports, r.src, r.name)}
      BY <3>1
    <3>3. entry.name = r.as
      OBVIOUS
    <3> HIDE DEF entry
    <3>4. entry \in FromPart(prj, exports, f)
      BY <3>2, ZenonT(40) DEF FromPart
    <3> QED
      BY <3>3, <3>4 DEF NamesOf
  <2>2. ASSUME NEW e \in FromPart(prj, exports, f) PROVE \E r \in prj.froms[f] : e.name = r.as
    BY DEF FromPart
  <2> QED
    BY <2>1, <2>2 DEF NamesOf
<1>11. ASSUME NEW i \in DOMAIN prj.stars[f]
       PROVE  NamesOf(ExportAll(exports, prj.stars[f][i])) = T[prj.stars[f][i]] \ {Default}
  <2>1. prj.stars[f][i] \in lower
    BY <1>2 DEF StarSources
  <2>2. NamesOf(ExportEntries(exports, prj.stars[f][i])) = T[prj.stars[f][i]]
    BY <2>1 DEF ListsTheTruth
  <2> QED
    BY <2>2 DEF ExportAll, NamesOf
<1>12. ASSUME NEW n \in starred PROVE n \in names
  <2>1. PICK s \in StarSources(prj, f) : n \in T[s] \ {Default}
    OBVIOUS
  <2>2. PICK i \in DOMAIN prj.stars[f] : s = prj.stars[f][i]
    BY DEF StarSources
  <2>3. PICK e \in ExportAll(exports, prj.stars[f][i]) : e.name = n
    BY <1>11, <2>1, <2>2 DEF NamesOf
  <2> QED
    BY <1>1, <2>3, StarNamesKept
<1>13. ASSUME NEW i \in DOMAIN unit.stars, NEW e \in unit.stars[i] PROVE e.name \in starred
  <2>1. i \in DOMAIN prj.stars[f] /\ e \in ExportAll(exports, prj.stars[f][i])
    BY <1>8 DEF StarParts, StarPart
  <2>2. e.name \in T[prj.stars[f][i]] \ {Default}
    BY <1>11, <2>1 DEF NamesOf
  <2> QED
    BY <2>1, <2>2 DEF StarSources
<1> HIDE DEF unit
<1>14. names = prj.decls[f] \cup {r.as : r \in prj.froms[f]} \cup starred
  <2>1. names = NamesOf(unit.local) \cup NamesOf(unit.from)
                \cup {e.name : e \in UNION {unit.stars[i] : i \in DOMAIN unit.stars}}
    BY DEF UnitEntries, NamesOf
  <2>2. \A n \in {e.name : e \in UNION {unit.stars[i] : i \in DOMAIN unit.stars}} : n \in starred
    BY <1>13
  <2> QED
    BY <1>8, <1>9, <1>10, <1>12, <2>1, <2>2
<1>15. NamesOf(ExportEntries(exports, f)) = names \cup BlockNames(Augmentations(prj, Files), f)
  BY <1>1, <1>4, <1>6 DEF ExportEntries, NamesOf
<1>16. ExportStep(prj, Files, T, f)
          = prj.decls[f] \cup BlockNames(Augmentations(prj, Files), f)
            \cup {r.as : r \in prj.froms[f]} \cup starred
  <2>1. lower \subseteq Files /\ StarSources(prj, f) \subseteq lower
    BY <1>2
  <2>2. \A s \in StarSources(prj, f) : Known(prj, Files, T, s) = T[s]
    BY <2>1 DEF Known
  <2>3. \A r \in prj.froms[f] : r.name \in Known(prj, Files, T, r.src)
    BY <1>3 DEF Known, ListsTheTruth
  <2>4. {r \in prj.froms[f] : r.name \in Known(prj, Files, T, r.src)} = prj.froms[f]
    BY <2>3
  <2>5. (UNION {Known(prj, Files, T, s) : s \in StarSources(prj, f)}) \ {Default} = starred
    BY <2>2
  <2> HIDE DEF starred
  <2> QED
    BY <1>2, <2>4, <2>5 DEF ExportStep
<1> HIDE DEF names, starred
<1> QED
  BY <1>7, <1>14, <1>15, <1>16 DEF ListsTheTruth

LEMMA CarriedLists ==
    ASSUME PromiseInv, pass = "finished"
    PROVE  \A f \in Carried(prj, Files \ unsettled) :
              f \in Files \ unsettled /\ ListsTheTruth(TrueNames(prj, Files), f)
<1> DEFINE K == Cardinality(Files)
           settled == Files \ unsettled
<1>1. prj \in Project /\ K \in Nat
  BY LayerIs, EnoughSteps DEF PromiseInv, SettledInv
<1>2. PICK C, T :
          /\ C[0] = {} /\ \A n \in 1 .. K : C[n] = CarriedOver(prj, settled, C[n - 1])
          /\ \A n \in 0 .. K : C[n] \subseteq Files
          /\ Carried(prj, settled) = C[K]
          /\ \A f \in Files : TrueNames(prj, Files)[f] = T[f]
          /\ \A n \in 1 .. K : \A f \in C[n] : T[f] = ExportStep(prj, Files, T, f)
  <2>1. settled \in SUBSET Files
    OBVIOUS
  <2> HIDE DEF settled
  <2> QED
    BY <1>1, <2>1, CarriedTruth, Zenon
<1> HIDE DEF K
<1> DEFINE Lists(n) == \A f \in C[n] : ListsTheTruth(T, f)
           Bad == {n \in 0 .. K : ~ Lists(n)}
<1>3. Bad = {}
  <2>1. SUFFICES ASSUME Bad # {} PROVE FALSE
    OBVIOUS
  <2>2. PICK n \in Bad : \A k \in Bad : n <= k
    <3>1. Bad \subseteq Nat
      OBVIOUS
    <3> HIDE DEF Bad
    <3> QED
      BY <2>1, <3>1, LeastNumber
  <2>3. PICK f \in C[n] : ~ ListsTheTruth(T, f)
    OBVIOUS
  <2>4. n \in 1 .. K /\ n - 1 \in 0 .. K /\ n - 1 \notin Bad
    <3>1. n # 0
      BY <1>2, <2>3
    <3>2. n \in 0 .. K
      OBVIOUS
    <3> HIDE DEF Bad
    <3> QED
      BY <1>1, <2>2, <3>1, <3>2
  <2>5. Lists(n - 1)
    BY <2>4
  <2> HIDE DEF Bad
  <2>6. C[n - 1] \subseteq Files /\ f \in CarriedOver(prj, settled, C[n - 1])
    BY <1>2, <2>3, <2>4
  <2>7. \A s \in C[n - 1] : TrueNames(prj, Files)[s] = T[s] /\ ListsTheTruth(T, s)
    BY <1>2, <2>5, <2>6
  <2>8. T[f] = ExportStep(prj, Files, T, f)
    BY <1>2, <2>3, <2>4
  <2> HIDE DEF Lists
  <2> QED
    BY <2>3, <2>6, <2>7, <2>8, CarriedList
<1>4. K \in 0 .. K /\ K \notin Bad
  BY <1>1, <1>3
<1>5. Lists(K)
  BY <1>4
<1> HIDE DEF Bad
<1>6. ASSUME NEW f \in C[K] PROVE f \in settled /\ ListsTheTruth(TrueNames(prj, Files), f)
  <2>1. K # 0
    BY <1>2, <1>6
  <2>2. K \in 1 .. K /\ f \in Files
    BY <1>1, <1>2, <1>4, <2>1
  <2>3. f \in settled
    BY <1>2, <2>2 DEF CarriedOver
  <2> QED
    BY <1>2, <1>5, <2>2, <2>3 DEF ListsTheTruth
<1> QED
  BY <1>2, <1>6

LEMMA PromiseReports == PromiseInv => ReportsTypos
<1> SUFFICES ASSUME PromiseInv, pass = "finished",
                    NEW f \in DOMAIN report, prj.fault[f] \in {"none", "keyless"},
                    NEW r \in Requests(prj, f), r.src \in Carried(prj, Files \ unsettled),
                    r.name \notin TrueNames(prj, Files)[r.src]
             PROVE  MissingName(r.src, r.name) \in report[f].missing
  BY DEF ReportsTypos
<1>1. /\ prj \in Project /\ f \in Files /\ IsChecked(prj, f)
      /\ unsettled \subseteq InCycle(prj)
  BY LayerIs DEF PromiseInv, SettledInv, TypeInv, TypeOK, ShapeInv
<1>2. r.src \in Files \ unsettled /\ Lacks(exports, r.src, r.name)
  <2>1. /\ r.src \in Files \ unsettled
        /\ ModuleExports(exports, r.src) = "whole"
        /\ r.name \notin NamesOf(ExportEntries(exports, r.src))
    BY CarriedLists DEF ListsTheTruth
  <2> QED
    BY <2>1 DEF Lacks, ExportKeys, NamesOf
<1>3. f \notin Providers
  BY <1>1, ProviderReadsNothing DEF Providers
<1>4. CASE f \notin unsettled
  <2>1. MissingName(r.src, r.name) \in ImportDiagnostics(prj, exports, f)
    BY <1>2 DEF ImportDiagnostics, Lacks
  <2>2. ReportCurrent(exports, f, report[f])
    BY <1>1, <1>3, <1>4 DEF PromiseInv, SettledInv, CurrentInv, Final
  <2>3. AboutImports(report[f].missing) = ImportDiagnostics(prj, exports, f)
    BY <1>1, <2>2, ImportsReported DEF ReportCurrent
  <2> QED
    BY <2>1, <2>3 DEF AboutImports
<1>5. CASE f \in unsettled
  <2>1. /\ LayerOf(prj, r.src) \in Nat /\ LayerOf(prj, f) \in Nat
        /\ LayerOf(prj, r.src) <= LayerOf(prj, f)
        /\ LayerOf(prj, r.src) = LayerOf(prj, f) => r.src \in InCycle(prj)
    BY <1>1, <1>2, SourcesEarlier, StarsRequested
  <2>2. LayerOf(prj, r.src) # LayerOf(prj, f)
    <3>1. r.src \in InCycle(prj) => r.src \notin Providers
      BY <1>1, ProviderReadsNothing DEF Providers
    <3> QED
      BY <1>2, <1>5, <2>1, <3>1 DEF PromiseInv, TypoInv
  <2>3. SaysWhatIsLacking(exports, f, report[f].missing)
    BY <1>3 DEF PromiseInv, TypoInv
  <2> QED
    BY <1>2, <2>1, <2>2, <2>3 DEF SaysWhatIsLacking
<1> QED
  BY <1>4, <1>5

(* imports.rs: a typo in an import must not look clean.  Whatever files    *)
(* the project has besides: a name that a settled module certainly lacks   *)
(* is reported by every file that imports it, by those of a cycle that was *)
(* given up too.                                                           *)
THEOREM TyposReported == LayeredSpec => []ReportsTypos
  BY PromisesKept, PromiseReports, PTL

-----------------------------------------------------------------------------
(* The parallel check reads one snapshot per batch, and implements the     *)
(* sequential one.                                                         *)


(* A unit in progress and a batch of results, whatever they hold.          *)
InUnit(w) == working[w] = Unit(working[w].file, working[w].missing)

UnitsOK ==
    /\ working = [w \in Workers |-> working[w]]
    /\ \A w \in Workers : working[w] = Idle \/ InUnit(w)
    /\ fresh = [f \in DOMAIN fresh |-> fresh[f]]

CheckInv == UnitsOK /\ OneSnapshot /\ TakenOnce

(* Nothing a batch depends on changes while the driver's variables do not. *)
LEMMA SameBatch ==
    ASSUME UNCHANGED driver
    PROVE  /\ Batch' = Batch
           /\ prj' = prj
           /\ exports' = exports
  BY DEF driver, Batch, Members, LayerFiles, Providers

LEMMA UnitFields ==
    /\ Idle.busy = FALSE
    /\ \A f, m : Unit(f, m).busy = TRUE /\ Unit(f, m).file = f /\ Unit(f, m).missing = m
  BY DEF Idle, Unit

LEMMA InitInv == CheckInit => CheckInv
  BY UnitFields DEF CheckInit, CheckInv, UnitsOK, OneSnapshot, TakenOnce, InProgress

(* A worker that takes a file.                                             *)
LEMMA BindImportsInv ==
    ASSUME CheckInv, NEW w \in Workers, NEW f \in Files, BindImports(w, f)
    PROVE  CheckInv'
  <1> DEFINE taken == Unit(f, BindDiagnostics(prj, exports, f))
  <1>1. /\ working' = [working EXCEPT ![w] = taken]
        /\ fresh' = fresh
        /\ f \in Batch
        /\ f \notin DOMAIN fresh
        /\ f \notin InProgress
        /\ ~ working[w].busy
    BY DEF BindImports
  <1>2. Batch' = Batch /\ prj' = prj /\ exports' = exports
    BY SameBatch DEF BindImports
  <1>3. /\ working'[w] = taken
        /\ \A v \in Workers : v # w => working'[v] = working[v]
        /\ working' = [v \in Workers |-> working'[v]]
    BY <1>1 DEF CheckInv, UnitsOK
  <1>4. taken.busy /\ taken.file = f /\ taken.missing = BindDiagnostics(prj, exports, f)
    BY UnitFields
  <1>5. UnitsOK'
    BY <1>1, <1>3, <1>4 DEF CheckInv, UnitsOK, InUnit
  <1>6. OneSnapshot'
    BY <1>1, <1>2, <1>3, <1>4 DEF CheckInv, OneSnapshot
  <1>7. InProgress' = InProgress \cup {f}
    BY <1>1, <1>3, <1>4 DEF InProgress
  <1>8. TakenOnce'
    <2>1. (InProgress \cup DOMAIN fresh \subseteq Batch)'
      BY <1>1, <1>2, <1>7 DEF CheckInv, TakenOnce
    <2>2. (InProgress \cap DOMAIN fresh = {})'
      BY <1>1, <1>7 DEF CheckInv, TakenOnce
    <2>3. ASSUME NEW u \in Workers, NEW v \in Workers,
                 working'[u].busy, working'[v].busy, working'[u].file = working'[v].file
          PROVE  u = v
      BY <2>3, <1>1, <1>3, <1>4 DEF CheckInv, TakenOnce, InProgress
    <2> QED BY <2>1, <2>2, <2>3 DEF TakenOnce
  <1> QED BY <1>5, <1>6, <1>8 DEF CheckInv

(* A worker that finishes: its result is that of one check, since what it  *)
(* bound at the start is what the same tables still give.                  *)
LEMMA CollectExportsInv ==
    ASSUME CheckInv, NEW w \in Workers, CollectExports(w)
    PROVE  CheckInv'
  <1> DEFINE f == working[w].file
             result == UnitResult(prj, exports, f, working[w].missing)
  <1>1. /\ fresh' = [g \in DOMAIN fresh \cup {f} |-> IF g = f THEN result ELSE fresh[g]]
        /\ working' = [working EXCEPT ![w] = Idle]
        /\ working[w].busy
    BY DEF CollectExports
  <1>2. Batch' = Batch /\ prj' = prj /\ exports' = exports
    BY SameBatch DEF CollectExports
  <1>3. /\ working'[w] = Idle
        /\ \A v \in Workers : v # w => working'[v] = working[v]
        /\ working' = [v \in Workers |-> working'[v]]
    BY <1>1 DEF CheckInv, UnitsOK
  <1>4. Idle.busy = FALSE
    BY UnitFields
  <1>5. result = CheckFile(prj, exports, f)
    BY <1>1 DEF CheckInv, OneSnapshot, CheckFile
  <1>6. /\ DOMAIN fresh' = DOMAIN fresh \cup {f}
        /\ fresh'[f] = result
        /\ \A g \in DOMAIN fresh \ {f} : fresh'[g] = fresh[g]
    BY <1>1
  <1>7. UnitsOK'
    <2>1. (\A v \in Workers : working[v] = Idle \/ InUnit(v))'
      BY <1>3 DEF CheckInv, UnitsOK, InUnit
    <2>2. (fresh = [g \in DOMAIN fresh |-> fresh[g]])'
      BY <1>1
    <2> QED BY <1>3, <2>1, <2>2 DEF UnitsOK
  <1>8. OneSnapshot'
    BY <1>2, <1>3, <1>4, <1>5, <1>6 DEF CheckInv, OneSnapshot
  <1>9. f \in InProgress /\ InProgress' = InProgress \ {f}
    BY <1>1, <1>3, <1>4 DEF CheckInv, TakenOnce, InProgress
  <1>10. TakenOnce'
    BY <1>2, <1>3, <1>4, <1>6, <1>9 DEF CheckInv, TakenOnce
  <1> QED BY <1>7, <1>8, <1>10 DEF CheckInv

(* The driver goes on with no unit in progress.                            *)
LEMMA BatchIsDone ==
    ASSUME CheckInv, DOMAIN fresh = Batch
    PROVE  \A w \in Workers : ~ working[w].busy
  BY DEF CheckInv, TakenOnce, InProgress

LEMMA ConcludeBatchInv ==
    ASSUME CheckInv, ConcludeBatch
    PROVE  CheckInv'
  <1>1. working' = working /\ fresh' = << >>
    BY DEF ConcludeBatch
  <1>2. \A w \in Workers : ~ working[w].busy
    BY BatchIsDone DEF ConcludeBatch
  <1>3. InProgress' = {}
    BY <1>1, <1>2 DEF InProgress
  <1>4. UnitsOK'
    BY <1>1 DEF CheckInv, UnitsOK, InUnit
  <1>5. OneSnapshot' /\ TakenOnce'
    BY <1>1, <1>2, <1>3 DEF OneSnapshot, TakenOnce
  <1> QED BY <1>4, <1>5 DEF CheckInv

LEMMA NextInv == CheckInv /\ [CheckNext]_vars => CheckInv'
  <1> SUFFICES ASSUME CheckInv, [CheckNext]_vars PROVE CheckInv'
    OBVIOUS
  <1>1. CASE \E w \in Workers, f \in Files : BindImports(w, f)
    BY <1>1, BindImportsInv
  <1>2. CASE \E w \in Workers : CollectExports(w)
    BY <1>2, CollectExportsInv
  <1>3. CASE ConcludeBatch
    BY <1>3, ConcludeBatchInv
  <1>4. CASE UNCHANGED vars
    <2>1. Batch' = Batch /\ prj' = prj /\ exports' = exports /\ working' = working /\ fresh' = fresh
      BY <1>4, SameBatch DEF vars
    <2>2. InProgress' = InProgress
      BY <2>1 DEF InProgress
    <2>3. UnitsOK' /\ OneSnapshot' /\ TakenOnce'
      BY <2>1, <2>2 DEF CheckInv, UnitsOK, InUnit, OneSnapshot, TakenOnce
    <2> QED BY <2>3 DEF CheckInv
  <1> QED BY <1>1, <1>2, <1>3, <1>4 DEF CheckNext

THEOREM InvariantHolds == Spec => []CheckInv
  BY InitInv, NextInv, PTL DEF Spec

(* Whatever order the workers run in, every unit of a batch reads the      *)
(* export tables as the driver left them (check_files).                    *)
THEOREM SnapshotTheorem == Spec => []OneSnapshot
  BY InvariantHolds, PTL DEF CheckInv

(* No file is checked twice in a batch, by however many workers.           *)
THEOREM TakenOnceTheorem == Spec => []TakenOnce
  BY InvariantHolds, PTL DEF CheckInv

(* The export tables change only between batches.                          *)
THEOREM PublishedTogetherTheorem == Spec => PublishedTogether
  <1>1. CheckInv /\ [CheckNext]_vars
            => [exports' # exports => InProgress = {} /\ DOMAIN fresh = Batch]_vars
    <2> SUFFICES ASSUME CheckInv, [CheckNext]_vars, exports' # exports
                 PROVE  InProgress = {} /\ DOMAIN fresh = Batch
      OBVIOUS
    <2>1. ConcludeBatch
      BY SameBatch DEF CheckNext, BindImports, CollectExports, vars
    <2>2. DOMAIN fresh = Batch
      BY <2>1 DEF ConcludeBatch
    <2> QED BY <2>2, BatchIsDone DEF InProgress
  <1> QED BY <1>1, InvariantHolds, PTL DEF Spec, PublishedTogether

(* A batch that is done holds the results the sequential check computes.   *)
LEMMA FreshIsBatch ==
    ASSUME CheckInv, DOMAIN fresh = Batch
    PROVE  fresh = CheckBatch(prj, exports, Batch)
  BY DEF CheckInv, UnitsOK, OneSnapshot, CheckBatch

LEMMA StepImplements == CheckInv /\ [CheckNext]_vars => [LayeredNext \/ Finished]_driver
  <1> SUFFICES ASSUME CheckInv, [CheckNext]_vars PROVE [LayeredNext \/ Finished]_driver
    OBVIOUS
  <1>1. CASE \E w \in Workers, f \in Files : BindImports(w, f)
    BY <1>1 DEF BindImports
  <1>2. CASE \E w \in Workers : CollectExports(w)
    BY <1>2 DEF CollectExports
  <1>3. CASE ConcludeBatch
    BY <1>3, FreshIsBatch DEF ConcludeBatch, LayeredNext
  <1>4. CASE UNCHANGED vars
    BY <1>4 DEF vars
  <1> QED BY <1>1, <1>2, <1>3, <1>4 DEF CheckNext

(* The report does not depend on the threads: every behaviour of the       *)
(* parallel check is one of the deterministic check that has no workers.   *)
THEOREM Deterministic == Spec => LayeredSpec
  <1>1. CheckInit => Init
    BY DEF CheckInit
  <1> QED BY <1>1, StepImplements, InvariantHolds, PTL DEF Spec, LayeredSpec

(* It invents no error about an import when threads check the files.       *)
THEOREM ParallelImportsAreTrue == Spec => []NeverInvents
  BY Deterministic, ImportsAreTrue, PTL

(* Nor does it lose one about a module that settled.                       *)
THEOREM ParallelTyposReported == Spec => []ReportsTypos
  BY Deterministic, TyposReported, PTL

(* Nor do the tables and the report settle for anything else.              *)
THEOREM ParallelTablesSettle == Spec => []TablesAreFixpoint
  BY Deterministic, TablesSettle, PTL

THEOREM ParallelReportsAreCurrent == Spec => []ReportIsCurrent
  BY Deterministic, ReportsAreCurrent, PTL
=============================================================================
