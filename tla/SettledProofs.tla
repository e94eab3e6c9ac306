----------------------------- MODULE SettledProofs -----------------------------
(***************************************************************************)
(* For every finite set of files, every project and recheck bound: the     *)
(* driver's state keeps its type, and when the driver has finished, its    *)
(* export tables are a fixed point of the project's export statements, and *)
(* its report is the one those tables give.                                *)
(***************************************************************************)
EXTENDS ProjectProperties, GraphProofs

-----------------------------------------------------------------------------
(* What a file reads from tables of their type has its type.               *)
LEMMA EntriesType ==
    ASSUME NEW ex \in Exports, NEW s \in Sources
    PROVE  /\ ExportEntries(ex, s) \subseteq Entry
           /\ ExportAll(ex, s) \subseteq Entry
           /\ \A n : ExportKeys(ex, s, n) \subseteq Key
  <1>1. ex.extra[s].entries \subseteq Entry
    BY DEF Exports
  <1>2. s \in Files => ex.names[s] \subseteq Entry
    BY DEF Exports
  <1>3. ExportEntries(ex, s) \subseteq Entry
    BY <1>1, <1>2 DEF ExportEntries
  <1>4. ExportAll(ex, s) \subseteq Entry
    BY <1>3 DEF ExportAll
  <1>5. \A n : ExportKeys(ex, s, n) \subseteq Key
    BY <1>3 DEF ExportKeys, Entry
  <1> QED BY <1>3, <1>4, <1>5

LEMMA StatementsType ==
    ASSUME NEW p \in Project, NEW f \in Files
    PROVE  /\ p.decls[f] \subseteq Names
           /\ p.froms[f] \subseteq [src : Sources, name : Names, as : Names]
           /\ p.stars[f] \in Seq(Sources)
           /\ \A i \in DOMAIN p.stars[f] : p.stars[f][i] \in Sources
           /\ p.imports[f] \subseteq [src : Sources, name : Names]
           /\ p.ambient[f] \subseteq [spec : Specifiers, names : SUBSET Names, whole : BOOLEAN]
           /\ p.augments[f] \subseteq [spec : Files, names : SUBSET Names, whole : BOOLEAN]
           /\ p.umd[f] \subseteq Globals
           /\ p.uses[f] \subseteq [ns : Globals, name : Names]
  BY DEF Project

LEMMA LocalPartType ==
    ASSUME NEW p \in Project, NEW f \in Files
    PROVE  LocalPart(p, f) \subseteq Entry
  BY StatementsType DEF LocalPart, Entry, Key, Sources

LEMMA FromPartType ==
    ASSUME NEW p \in Project, NEW ex \in Exports, NEW f \in Files
    PROVE  FromPart(p, ex, f) \subseteq Entry
  <1>1. ASSUME NEW r \in p.froms[f], NEW k \in ExportKeys(ex, r.src, r.name)
        PROVE  [name |-> r.as, key |-> k] \in Entry
    <2>1. r \in [src : Sources, name : Names, as : Names]
      BY StatementsType
    <2>2. k \in Key
      BY <2>1, EntriesType
    <2> QED BY <2>1, <2>2 DEF Entry
  <1> QED BY <1>1 DEF FromPart

LEMMA StarPartsType ==
    ASSUME NEW p \in Project, NEW ex \in Exports, NEW f \in Files
    PROVE  /\ StarParts(p, ex, f) \in Seq(SUBSET Entry)
           /\ DOMAIN StarParts(p, ex, f) = DOMAIN p.stars[f]
  <1>1. ASSUME NEW i \in DOMAIN p.stars[f]
        PROVE  StarPart(p, ex, f, i) \in SUBSET Entry
    BY StatementsType, EntriesType DEF StarPart
  <1>2. PICK n \in Nat : DOMAIN p.stars[f] = 1 .. n
    BY StatementsType
  <1>3. StarParts(p, ex, f) \in [1 .. n -> SUBSET Entry]
    BY <1>1, <1>2 DEF StarParts
  <1> QED BY <1>2, <1>3 DEF StarParts

LEMMA CollectType ==
    ASSUME NEW p \in Project, NEW ex \in Exports, NEW f \in Files
    PROVE  Collect(p, ex, f) \in Units
  <1>1. NoUnit \in Units
    BY DEF NoUnit, Units
  <1>2. CrashedUnit \in Units
    BY DEF CrashedUnit, Units
  <1>3. CollectedUnit(p, ex, f) \in Units
    BY LocalPartType, FromPartType, StarPartsType, StatementsType DEF CollectedUnit, Units
  <1> QED BY <1>1, <1>2, <1>3 DEF Collect

LEMMA RequestsType ==
    ASSUME NEW p \in Project, NEW f \in Files
    PROVE  /\ Requests(p, f) \subseteq [src : Sources, name : Names]
           /\ StarSources(p, f) \subseteq Sources
           /\ RequestedSources(p, f) \subseteq Sources
  <1>1. Requests(p, f) \subseteq [src : Sources, name : Names]
    BY StatementsType DEF Requests
  <1>2. StarSources(p, f) \subseteq Sources
    BY StatementsType DEF StarSources
  <1> QED BY <1>1, <1>2 DEF RequestedSources

LEMMA DiagnosticsType ==
    ASSUME NEW p \in Project, NEW ex \in Exports, NEW f \in Files
    PROVE  BindDiagnostics(p, ex, f) \subseteq Diagnostics
  <1>1. ImportDiagnostics(p, ex, f) \subseteq Diagnostics
    BY RequestsType, ConstantsAssumption
       DEF ImportDiagnostics, Diagnostics, MissingModule, MissingName
  <1>2. GlobalDiagnostics(p, ex, f) \subseteq Diagnostics
    BY StatementsType, ConstantsAssumption
       DEF GlobalDiagnostics, Diagnostics, MissingGlobal, MissingMember
  <1> QED BY <1>1, <1>2 DEF BindDiagnostics

LEMMA CheckFileType ==
    ASSUME NEW p \in Project, NEW ex \in Exports, NEW f \in Files
    PROVE  CheckFile(p, ex, f) \in Results
  <1>1. GivesReasons(p, ex, f) \in BOOLEAN
    BY DEF GivesReasons
  <1> QED BY <1>1, CollectType, DiagnosticsType DEF CheckFile, UnitResult, Results

-----------------------------------------------------------------------------
(* Publishing results of their type keeps the tables' type.                *)
LEMMA UnitEntriesType ==
    ASSUME NEW u \in Units, u.published
    PROVE  UnitEntries(u) \subseteq Entry
  <1>1. u.local \subseteq Entry /\ u.from \subseteq Entry /\ u.stars \in Seq(SUBSET Entry)
    BY DEF Units
  <1>2. \A i \in DOMAIN u.stars : u.stars[i] \subseteq Entry
    BY <1>1
  <1> QED BY <1>1, <1>2 DEF UnitEntries

LEMMA AddBlocksType ==
    ASSUME NEW ex \in Exports, NEW s \in Sources, NEW res, DOMAIN res \subseteq Files,
           \A f \in DOMAIN res : res[f] \in Results
    PROVE  AddBlocks(ex, res, s) \in [entries : SUBSET Entry, state : Completeness]
  <1>1. ex.extra[s] \in [entries : SUBSET Entry, state : Completeness]
    BY DEF Exports
  <1>2. ASSUME NEW b \in Blocks(res, s), NEW n \in b.block.names
        PROVE  [name |-> n, key |-> <<b.owner, s, n>>] \in Entry
    <2>1. PICK f \in Published(res) :
            b \in {[owner |-> f, block |-> x] :
                     x \in {y \in res[f].unit.ambient \cup res[f].unit.augments : y.spec = s}}
      BY DEF Blocks
    <2>2. f \in Files /\ res[f].unit \in Units /\ res[f].unit.published
      BY DEF Published, Results
    <2>3. b.owner = f /\ b.block \in res[f].unit.ambient \cup res[f].unit.augments
      BY <2>1
    <2>4. b.block.names \subseteq Names
      BY <2>2, <2>3 DEF Units
    <2> QED BY <2>2, <2>3, <2>4 DEF Entry, Key
  <1>3. UNION {{[name |-> n, key |-> <<b.owner, s, n>>] : n \in b.block.names} :
               b \in Blocks(res, s)} \subseteq Entry
    BY <1>2
  <1> QED BY <1>1, <1>3 DEF AddBlocks, Completeness

LEMMA AddAllType ==
    ASSUME NEW ex \in Exports, NEW res, DOMAIN res \subseteq Files,
           \A f \in DOMAIN res : res[f] \in Results
    PROVE  AddAll(ex, res) \in Exports
  <1> DEFINE new == Published(res)
  <1>1. \A f \in new : res[f].unit \in Units /\ res[f].unit.published
    BY DEF Published, Results
  <1>2. \A f \in Files : (IF f \in new THEN UnitEntries(res[f].unit) ELSE ex.names[f])
                            \in SUBSET Entry
    BY <1>1, UnitEntriesType DEF Exports
  <1>3. \A f \in Files : (IF f \in new THEN res[f].unit.complete ELSE ex.complete[f])
                            \in Completeness
    BY <1>1 DEF Exports, Units, Completeness
  <1>4. \A f \in Files : (IF f \in new THEN res[f].unit.umd ELSE ex.umd[f]) \in SUBSET Globals
    BY <1>1 DEF Exports, Units
  <1>5. ex.bareReportable \in BOOLEAN
    BY DEF Exports
  <1> HIDE DEF new
  <1>6. AddAll(ex, res) =
          [names    |-> [f \in Files |-> IF f \in new THEN UnitEntries(res[f].unit) ELSE ex.names[f]],
           complete |-> [f \in Files |-> IF f \in new THEN res[f].unit.complete ELSE ex.complete[f]],
           extra    |-> [s \in Sources |-> AddBlocks(ex, res, s)],
           umd      |-> [f \in Files |-> IF f \in new THEN res[f].unit.umd ELSE ex.umd[f]],
           bareReportable |-> ex.bareReportable]
    BY DEF AddAll, new
  <1>7. \A s \in Sources : AddBlocks(ex, res, s) \in [entries : SUBSET Entry, state : Completeness]
    BY AddBlocksType
  <1> HIDE DEF new
  <1> QED BY <1>2, <1>3, <1>4, <1>5, <1>6, <1>7 DEF Exports

-----------------------------------------------------------------------------
(* Every name a star brings in is in the file's list, under some key: of   *)
(* the stars that bring it in the first one does, unless the file has the  *)
(* name itself.                                                            *)
LEMMA StarNamesKept ==
    ASSUME NEW p \in Project, NEW ex \in Exports, NEW f \in Files,
           NEW i \in DOMAIN p.stars[f], NEW e \in ExportAll(ex, p.stars[f][i])
    PROVE  e.name \in NamesOf(UnitEntries(CollectedUnit(p, ex, f)))
  <1> DEFINE own == LocalPart(p, f) \cup FromPart(p, ex, f)
             star(j) == ExportAll(ex, p.stars[f][j])
             bringing == {j \in DOMAIN p.stars[f] : e.name \in NamesOf(star(j))}
             u == CollectedUnit(p, ex, f)
  <1>1. u.local = LocalPart(p, f) /\ u.from = FromPart(p, ex, f) /\ u.stars = StarParts(p, ex, f)
    BY DEF CollectedUnit
  <1>2. CASE e.name \in NamesOf(own)
    BY <1>1, <1>2 DEF UnitEntries, NamesOf
  <1>3. CASE e.name \notin NamesOf(own)
    <2>1. PICK n \in Nat : DOMAIN p.stars[f] = 1 .. n
      BY StatementsType
    <2>2. bringing \subseteq Nat /\ i \in bringing
      BY <2>1 DEF NamesOf
    <2>3. PICK m \in bringing : \A k \in bringing : m <= k
      BY <2>2, LeastNumber
    <2>4. PICK first \in star(m) : first.name = e.name
      BY <2>3 DEF NamesOf
    <2>5. \A j \in 1 .. (m - 1) : e.name \notin NamesOf(star(j))
      BY <2>1, <2>2, <2>3
    <2>6. first \in StarPart(p, ex, f, m)
      BY <1>3, <2>4, <2>5 DEF StarPart, NamesOf
    <2>7. first \in UNION {u.stars[j] : j \in DOMAIN u.stars}
      BY <1>1, <2>3, <2>6 DEF StarParts
    <2> QED BY <2>4, <2>7 DEF UnitEntries, NamesOf
  <1> QED BY <1>2, <1>3

-----------------------------------------------------------------------------
(* The driver's variables keep their types.                                *)

ResultsOf(res, files) ==
    /\ DOMAIN res \subseteq files
    /\ \A f \in DOMAIN res : res[f] \in Results

LEMMA WithReportsType ==
    ASSUME NEW old, DOMAIN old \subseteq Files, \A f \in DOMAIN old : old[f] \in Reports,
           NEW res, ResultsOf(res, Files)
    PROVE  LET new == WithReports(old, res)
           IN  DOMAIN new \subseteq Files /\ \A f \in DOMAIN new : new[f] \in Reports
  <1>1. \A r \in Results : FileReport(r) \in Reports
    BY DEF Results, Reports, FileReport
  <1>2. Reported(res) \subseteq DOMAIN res
    BY DEF Reported
  <1> QED BY <1>1, <1>2 DEF WithReports, ResultsOf

LEMMA PartialType ==
    ASSUME NEW res, NEW members, NEW files, ResultsOf(res, files)
    PROVE  /\ ResultsOf(Partial(res, members), files)
           /\ DOMAIN Partial(res, members) = DOMAIN res
           /\ \A f \in DOMAIN res :
                 LET q == Partial(res, members)[f]
                 IN  \/ q = res[f]
                     \/ /\ q.missing = res[f].missing
                        /\ q.unit.complete = "partial"
  <1>1. ASSUME NEW f \in DOMAIN res, f \in members, res[f].unit.published
        PROVE  /\ [res[f] EXCEPT !.unit.complete = "partial"] \in Results
               /\ [res[f] EXCEPT !.unit.complete = "partial"].missing = res[f].missing
               /\ [res[f] EXCEPT !.unit.complete = "partial"].unit.complete = "partial"
    <2>1. res[f] \in Results /\ res[f].unit \in Units
      BY DEF ResultsOf, Results
    <2>2. [res[f].unit EXCEPT !.complete = "partial"] \in Units
      BY <2>1, <1>1 DEF Units
    <2>3. [res[f].unit EXCEPT !.complete = "partial"].complete = "partial"
      BY <2>1, <1>1 DEF Units
    <2>4. [res[f] EXCEPT !.unit.complete = "partial"] =
            [res[f] EXCEPT !.unit = [res[f].unit EXCEPT !.complete = "partial"]]
      BY <2>1 DEF Results
    <2> QED BY <2>1, <2>2, <2>3, <2>4 DEF Results
  <1> QED BY <1>1 DEF Partial, ResultsOf

LEMMA UpdatedType ==
    ASSUME NEW res, NEW files, ResultsOf(res, files), ResultsOf(done, files)
    PROVE  ResultsOf(Updated(res), files)
  BY DEF Updated, ResultsOf

LEMMA Unfinished ==
    ASSUME TypeOK
    PROVE  /\ prj \in Project
           /\ Batch \subseteq Files
           /\ Members \subseteq Files /\ Members \subseteq LayerFiles /\ Members \subseteq cyclic
           /\ LayerFiles \subseteq Files
  BY ProjectsAssumption DEF TypeOK, Batch, Members, LayerFiles, Providers

LEMMA PublishLayerType ==
    ASSUME TypeOK, pass \in {"first", "second"}, NEW res, ResultsOf(res, Files),
           PublishLayer(res), unsettled' \subseteq cyclic
    PROVE  TypeOK'
  <1> DEFINE reports == WithReports(report, res)
  <1>1. DOMAIN reports \subseteq Files /\ \A f \in DOMAIN reports : reports[f] \in Reports
    BY WithReportsType DEF TypeOK
  <1> HIDE DEF reports
  <1>2. (DOMAIN report \subseteq Files /\ \A f \in DOMAIN report : report[f] \in Reports)'
    BY <1>1 DEF PublishLayer, reports
  <1>3. exports' \in Exports
    BY AddAllType DEF PublishLayer, TypeOK, ResultsOf
  <1>4. /\ stage' = "check" /\ round' = 0 /\ done' = << >>
        /\ prj' = prj /\ bound' = bound /\ cyclic' = cyclic
    BY DEF PublishLayer, NextLayer
  <1>5. level' \in Nat \ {0} /\ pass' \in {"first", "second", "finished"}
    BY DEF PublishLayer, TypeOK
  <1>6. DOMAIN done' = {}
    BY <1>4
  <1> QED BY <1>2, <1>3, <1>4, <1>5, <1>6 DEF TypeOK

LEMMA StartRoundType ==
    ASSUME TypeOK, NEW res, ResultsOf(res, LayerFiles), StartRound(res), round' \in Nat
    PROVE  TypeOK'
  <1>1. ResultsOf(OnlyMembers(res), Files)
    BY Unfinished DEF OnlyMembers, ResultsOf
  <1>2. exports' \in Exports
    BY <1>1, AddAllType DEF StartRound, TypeOK, ResultsOf
  <1>3. LayerFiles' = LayerFiles
    BY DEF StartRound, LayerFiles, Providers
  <1> QED BY <1>2, <1>3 DEF TypeOK, StartRound, ResultsOf

(* A recheck belongs to a layer.                                           *)
SettlesInPass == stage = "settle" => pass \in {"first", "second"}

TypeInv == TypeOK /\ SettlesInPass

LEMMA LayerBatch ==
    ASSUME pass \in {"first", "second"}
    PROVE  Batch \subseteq LayerFiles
  <1>1. Batch \subseteq LayerFiles \cup Members
    BY DEF Batch
  <1> QED BY <1>1 DEF Members

LEMMA ConcludeType ==
    ASSUME TypeInv, NEW res, ResultsOf(res, Batch), Conclude(res)
    PROVE  TypeInv'
  <1> USE DEF TypeInv, SettlesInPass
  <1>1. ResultsOf(res, Files)
    BY Unfinished DEF ResultsOf
  <1>2. pass \in {"first", "second"} => ResultsOf(res, LayerFiles)
    BY LayerBatch DEF ResultsOf
  <1>3. CASE PublishProviders(res)
    <2>1. AddAll(exports, res) \in Exports
      BY <1>1, AddAllType DEF ResultsOf, TypeOK
    <2>2. BareReportable(prj, AddAll(exports, res)) \in BOOLEAN
      BY Unfinished DEF BareReportable, Project
    <2>3. exports' \in Exports
      BY <1>3, <2>1, <2>2 DEF PublishProviders, Exports
    <2>4. (DOMAIN report \subseteq Files /\ \A f \in DOMAIN report : report[f] \in Reports)'
      BY <1>1, <1>3, WithReportsType DEF PublishProviders, TypeOK
    <2>5. LayerFiles' = LayerFiles
      BY <1>3 DEF PublishProviders, LayerFiles, Providers
    <2> QED BY <1>3, <2>3, <2>4, <2>5 DEF PublishProviders, TypeOK
  <1>4. ASSUME NEW latest, ResultsOf(latest, LayerFiles), PublishLayer(latest),
               pass \in {"first", "second"}, unsettled' \subseteq cyclic
        PROVE  TypeInv'
    <2>1. ResultsOf(latest, Files)
      BY <1>4, Unfinished DEF ResultsOf
    <2>2. TypeOK'
      BY <1>4, <2>1, PublishLayerType
    <2> QED BY <1>4, <2>2 DEF PublishLayer, NextLayer
  <1>5. ASSUME NEW latest, ResultsOf(latest, LayerFiles), StartRound(latest),
               pass \in {"first", "second"}, round' \in Nat
        PROVE  TypeInv'
    BY <1>5, StartRoundType DEF StartRound
  <1>6. ASSUME NEW latest, ResultsOf(latest, LayerFiles), GiveUp(latest),
               pass \in {"first", "second"}
        PROVE  TypeInv'
    <2>1. ResultsOf(Partial(latest, Members), LayerFiles)
      BY <1>6, PartialType
    <2>2. unsettled' \subseteq cyclic
      BY <1>6, Unfinished DEF GiveUp, TypeOK
    <2> QED BY <1>4, <1>6, <2>1, <2>2 DEF GiveUp
  <1>7. stage = "settle" => ResultsOf(Updated(res), LayerFiles)
    BY <1>2, UpdatedType DEF TypeOK, ResultsOf
  <1>8. CASE FinishAcyclicLayer(res)
    BY <1>2, <1>4, <1>8 DEF FinishAcyclicLayer, TypeOK
  <1>9. CASE EnterSettle(res)
    BY <1>2, <1>5, <1>9 DEF EnterSettle
  <1>10. CASE GiveUpAtOnce(res)
    BY <1>2, <1>6, <1>10 DEF GiveUpAtOnce
  <1>11. CASE CycleSettles(res)
    BY <1>4, <1>7, <1>11 DEF CycleSettles, TypeOK
  <1>12. CASE CycleGoesOn(res)
    BY <1>5, <1>7, <1>12 DEF CycleGoesOn, TypeOK
  <1>13. CASE CycleRunsOut(res)
    BY <1>6, <1>7, <1>13 DEF CycleRunsOut
  <1> QED BY <1>3, <1>8, <1>9, <1>10, <1>11, <1>12, <1>13 DEF Conclude

LEMMA BatchType ==
    ASSUME TypeOK
    PROVE  ResultsOf(CheckBatch(prj, exports, Batch), Batch)
  <1>1. prj \in Project /\ exports \in Exports /\ Batch \subseteq Files
    BY Unfinished DEF TypeOK
  <1>2. \A f \in Batch : CheckFile(prj, exports, f) \in Results
    BY <1>1, CheckFileType
  <1> QED BY <1>2 DEF CheckBatch, ResultsOf

LEMMA InitType == Init => TypeInv
  <1> SUFFICES ASSUME Init PROVE TypeInv
    OBVIOUS
  <1>1. NoExports \in Exports
    BY DEF NoExports, Exports, Completeness
  <1>2. InCycle(prj) \subseteq Files
    BY DEF InCycle, OnCycle, DependencyGraph, Nodes
  <1>3. DOMAIN done = {} /\ DOMAIN report = {}
    BY DEF Init
  <1> QED BY <1>1, <1>2, <1>3 DEF Init, TypeInv, TypeOK, SettlesInPass

LEMMA StepType == TypeInv /\ [LayeredNext \/ Finished]_driver => TypeInv'
  <1> SUFFICES ASSUME TypeInv, [LayeredNext \/ Finished]_driver PROVE TypeInv'
    OBVIOUS
  <1>1. CASE LayeredNext
    BY <1>1, BatchType, ConcludeType DEF LayeredNext, TypeInv
  <1>2. CASE UNCHANGED driver
    BY <1>2 DEF driver, TypeInv, TypeOK, SettlesInPass, LayerFiles, Providers
  <1> QED BY <1>1, <1>2 DEF Finished

(* The driver's variables always have their types: whatever a batch comes  *)
(* to, the tables, the results of the layer and the reports stay well      *)
(* formed, and the results that are kept are those of the layer's files.   *)
THEOREM TypeCorrect == LayeredSpec => []TypeOK
  <1>1. TypeInv => TypeOK
    BY DEF TypeInv
  <1> QED BY <1>1, InitType, StepType, PTL DEF LayeredSpec

-----------------------------------------------------------------------------
(* What the driver knows of its project.                                   *)

(* The files whose check publishes something, and those that something was *)
(* published for.                                                          *)
Readable(p) == {f \in Files : IsChecked(p, f) /\ p.fault[f] # "unreadable"}

PublishedIn(ex) == {f \in Files : ex.complete[f] # "unknown"}

(* What a file hands to others whatever its imports come to, and what it   *)
(* reports when it could not be read.                                      *)
BlocksOf(p, f) == IF p.fault[f] = "none" THEN p.ambient[f] \cup p.augments[f] ELSE {}

UmdOf(p, f) == IF p.fault[f] = "none" THEN p.umd[f] ELSE {}

Silent == [missing |-> {}, reasons |-> FALSE]

OwnResult(p, f, r) ==
    /\ r.unit.published <=> p.fault[f] # "unreadable"
    /\ r.unit.published => /\ r.unit.ambient \cup r.unit.augments = BlocksOf(p, f)
                           /\ r.unit.umd = UmdOf(p, f)
    /\ p.fault[f] = "unreadable" => FileReport(r) = Silent

(* What the blocks of the files of heard come to for s.                    *)
OwnBlocks(p, heard, s) ==
    UNION {{[owner |-> f, block |-> b] : b \in {x \in BlocksOf(p, f) : x.spec = s}} : f \in heard}

BlockEntries(blocks, s) ==
    UNION {{[name |-> n, key |-> <<b.owner, s, n>>] : n \in b.block.names} : b \in blocks}

Contributed(p, heard, s) ==
    LET blocks == OwnBlocks(p, heard, s)
    IN  [entries |-> BlockEntries(blocks, s),
         state   |-> IF blocks = {} THEN "unknown"
                     ELSE IF \A b \in blocks : b.block.whole THEN "whole" ELSE "partial"]

OwnTables(p, ex) ==
    /\ \A s \in Sources : ex.extra[s] = Contributed(p, PublishedIn(ex), s)
    /\ \A f \in Files : ex.umd[f] = IF f \in PublishedIn(ex) THEN UmdOf(p, f) ELSE {}

-----------------------------------------------------------------------------
(* The results of a check, and what the driver makes of them, say of the   *)
(* file's own blocks and globals what its statements say.                  *)
LEMMA CheckIsOwn ==
    ASSUME NEW p \in Project, NEW ex, NEW f \in Files
    PROVE  OwnResult(p, f, CheckFile(p, ex, f))
<1> DEFINE u == Collect(p, ex, f)
<1>1. p.fault[f] \in {"none", "unreadable", "crash", "keyless"}
  BY DEF Project
<1>2. CheckFile(p, ex, f).unit = u
  BY DEF CheckFile, UnitResult
<1>3. CASE p.fault[f] = "unreadable"
  <2>1. u.published = FALSE
    BY <1>3 DEF Collect, NoUnit
  <2>2. FileReport(CheckFile(p, ex, f)) = Silent
    BY <1>3 DEF CheckFile, UnitResult, FileReport, BindDiagnostics, GivesReasons, Silent
  <2> QED
    BY <1>2, <1>3, <2>1, <2>2 DEF OwnResult
<1>4. CASE p.fault[f] \in {"crash", "keyless"}
  <2>1. u = CrashedUnit
    BY <1>4 DEF Collect
  <2> QED
    BY <1>2, <1>4, <2>1 DEF OwnResult, CrashedUnit, BlocksOf, UmdOf
<1>5. CASE p.fault[f] = "none"
  <2>1. u = CollectedUnit(p, ex, f)
    BY <1>5 DEF Collect
  <2> QED
    BY <1>2, <1>5, <2>1 DEF OwnResult, CollectedUnit, BlocksOf, UmdOf
<1> QED
  BY <1>1, <1>3, <1>4, <1>5

(* Handing a member on as partial changes nothing else of its result.      *)
LEMMA PartialResult ==
    ASSUME NEW res, NEW members, NEW f \in DOMAIN res, res[f] \in Results
    PROVE  LET q == Partial(res, members)[f]
           IN  /\ f \in DOMAIN Partial(res, members)
               /\ q \in Results
               /\ q.missing = res[f].missing /\ q.reasons = res[f].reasons
               /\ q.unit.published = res[f].unit.published
               /\ res[f].unit.published =>
                     /\ q.unit.ambient = res[f].unit.ambient
                     /\ q.unit.augments = res[f].unit.augments
                     /\ q.unit.umd = res[f].unit.umd
                     /\ UnitEntries(q.unit) = UnitEntries(res[f].unit)
               /\ f \notin members => q = res[f]
               /\ f \in members /\ q.unit.published => q.unit.complete = "partial"
<1> DEFINE r == res[f]
           u == r.unit
           q == Partial(res, members)[f]
<1>1. f \in DOMAIN Partial(res, members)
      /\ q = IF f \in members /\ u.published THEN [r EXCEPT !.unit.complete = "partial"] ELSE r
  BY DEF Partial
<1>2. CASE ~ (f \in members /\ u.published)
  BY <1>1, <1>2
<1>3. CASE f \in members /\ u.published
  <2>1. r \in Results /\ u \in Units
    BY DEF Results
  <2>2. /\ [u EXCEPT !.complete = "partial"] \in Units
        /\ [u EXCEPT !.complete = "partial"].published = TRUE
        /\ [u EXCEPT !.complete = "partial"].complete = "partial"
        /\ [u EXCEPT !.complete = "partial"].local = u.local
        /\ [u EXCEPT !.complete = "partial"].from = u.from
        /\ [u EXCEPT !.complete = "partial"].stars = u.stars
        /\ [u EXCEPT !.complete = "partial"].ambient = u.ambient
        /\ [u EXCEPT !.complete = "partial"].augments = u.augments
        /\ [u EXCEPT !.complete = "partial"].umd = u.umd
    BY <1>3, <2>1 DEF Units
  <2> DEFINE v == [u EXCEPT !.complete = "partial"]
  <2>3. q = [r EXCEPT !.unit = v]
    BY <1>1, <1>3, <2>1 DEF Results
  <2> HIDE DEF v, q
  <2>4. q \in Results /\ q.unit = v /\ q.missing = r.missing /\ q.reasons = r.reasons
    BY <2>1, <2>2, <2>3 DEF Results, v
  <2>5. UnitEntries(v) = UnitEntries(u)
    BY <2>2 DEF UnitEntries, v
  <2> QED
    BY <1>1, <1>3, <2>2, <2>4, <2>5 DEF q, v
<1> QED
  BY <1>2, <1>3

(* The tables' blocks and globals are those of the files that something    *)
(* was published for, and publishing more adds those files' own.           *)
LEMMA AddIsOwn ==
    ASSUME NEW p \in Project, NEW ex \in Exports, OwnTables(p, ex),
           NEW res, DOMAIN res \subseteq Files,
           \A f \in DOMAIN res : res[f] \in Results /\ OwnResult(p, f, res[f])
    PROVE  /\ PublishedIn(AddAll(ex, res)) = PublishedIn(ex) \cup Published(res)
           /\ Published(res) = {f \in DOMAIN res : p.fault[f] # "unreadable"}
           /\ OwnTables(p, AddAll(ex, res))
<1> DEFINE new == Published(res)
           old == PublishedIn(ex)
           added == AddAll(ex, res)
<1>1. new \subseteq Files /\ old \subseteq Files
  BY DEF Published, PublishedIn
<1>2. \A f \in new : /\ res[f].unit \in Units /\ res[f].unit.published
                     /\ res[f].unit.complete \in {"partial", "whole"}
                     /\ res[f].unit.ambient \cup res[f].unit.augments = BlocksOf(p, f)
                     /\ res[f].unit.umd = UmdOf(p, f)
  BY DEF Published, Results, Units, OwnResult
<1>3. new = {f \in DOMAIN res : p.fault[f] # "unreadable"}
  BY DEF Published, OwnResult
<1>4. /\ added.complete = [f \in Files |-> IF f \in new THEN res[f].unit.complete ELSE ex.complete[f]]
      /\ added.umd = [f \in Files |-> IF f \in new THEN res[f].unit.umd ELSE ex.umd[f]]
      /\ added.extra = [s \in Sources |-> AddBlocks(ex, res, s)]
  BY DEF AddAll
<1> HIDE DEF new, old, added
<1>5. PublishedIn(added) = old \cup new
  BY <1>1, <1>2, <1>4 DEF PublishedIn, old
<1>6. \A f \in Files : added.umd[f] = IF f \in old \cup new THEN UmdOf(p, f) ELSE {}
  BY <1>2, <1>4 DEF OwnTables, old
<1>7. ASSUME NEW s \in Sources PROVE added.extra[s] = Contributed(p, old \cup new, s)
  <2> DEFINE mine == OwnBlocks(p, old, s)
             fresh == OwnBlocks(p, new, s)
  <2>1. Blocks(res, s) = fresh
    <3>1. \A f \in new :
             {x \in res[f].unit.ambient \cup res[f].unit.augments : x.spec = s}
             = {x \in BlocksOf(p, f) : x.spec = s}
      BY <1>2
    <3> QED
      BY <3>1 DEF Blocks, OwnBlocks, new
  <2>2. OwnBlocks(p, old \cup new, s) = mine \cup fresh
    BY DEF OwnBlocks
  <2>3. ex.extra[s] = Contributed(p, old, s)
    BY DEF OwnTables, old
  <2>4. ex.extra[s].entries = BlockEntries(mine, s)
        /\ ex.extra[s].state = IF mine = {} THEN "unknown"
                               ELSE IF \A b \in mine : b.block.whole THEN "whole" ELSE "partial"
    BY <2>3 DEF Contributed
  <2>5. added.extra[s] =
           IF fresh = {} THEN ex.extra[s]
           ELSE [entries |-> ex.extra[s].entries \cup BlockEntries(fresh, s),
                 state   |-> IF ex.extra[s].state # "partial" /\ \A b \in fresh : b.block.whole
                             THEN "whole" ELSE "partial"]
    BY <1>4, <2>1 DEF AddBlocks, BlockEntries
  <2> HIDE DEF mine, fresh
  <2>6. CASE fresh = {}
    BY <2>2, <2>3, <2>5, <2>6 DEF Contributed, mine
  <2>7. CASE fresh # {}
    <3>1. BlockEntries(mine \cup fresh, s) = BlockEntries(mine, s) \cup BlockEntries(fresh, s)
      BY DEF BlockEntries
    <3>2. mine \cup fresh # {}
      BY <2>7
    <3>3. (ex.extra[s].state # "partial") <=> \A b \in mine : b.block.whole
      BY <2>4
    <3>4. (\A b \in mine \cup fresh : b.block.whole)
          <=> (\A b \in mine : b.block.whole) /\ (\A b \in fresh : b.block.whole)
      OBVIOUS
    <3>5. Contributed(p, old \cup new, s) =
             [entries |-> BlockEntries(mine \cup fresh, s),
              state   |-> IF \A b \in mine \cup fresh : b.block.whole THEN "whole" ELSE "partial"]
      BY <2>2, <3>2 DEF Contributed
    <3> QED
      BY <2>4, <2>5, <2>7, <3>1, <3>3, <3>4, <3>5
  <2> QED
    BY <2>6, <2>7
<1> QED
  BY <1>3, <1>5, <1>6, <1>7 DEF OwnTables, new, old, added

-----------------------------------------------------------------------------
(* The dependency graph.                                                   *)

LEMMA ProjectGraph ==
    ASSUME NEW p \in Project
    PROVE  /\ IsGraph(DependencyGraph(p))
           /\ Nodes(DependencyGraph(p)) = Files
           /\ \A f \in Files : DependencyGraph(p)[f] = Dependencies(p, f)
  BY FilesAssumption DEF IsGraph, Nodes, DependencyGraph, Dependencies

(* A file that is on no cycle has its dependencies in earlier layers; one  *)
(* that depends on a file of its own layer has that file on its cycle.     *)
LEMMA DependenciesEarlier ==
    ASSUME NEW p \in Project, NEW f \in Files, NEW d \in Dependencies(p, f)
    PROVE  LET depth == Depth(DependencyGraph(p))
           IN  /\ d \in Files /\ depth[f] \in Nat /\ depth[d] \in Nat
               /\ depth[d] <= depth[f]
               /\ depth[d] = depth[f] => f \in InCycle(p) /\ d \in InCycle(p)
<1> DEFINE graph == DependencyGraph(p)
           depth == Depth(graph)
           C == ComponentOf(graph)
<1>1. IsGraph(graph) /\ Nodes(graph) = Files /\ graph[f] = Dependencies(p, f)
  BY ProjectGraph
<1>2. d \in Files
  BY DEF Dependencies
<1>3. depth \in [Files -> Nat]
  BY <1>1, DepthFacts
<1>4. d \in C[f] \/ depth[d] < depth[f]
  BY <1>1, LayerFacts
<1>5. d \in C[f] => depth[d] = depth[f]
  BY <1>1, DepthFacts
<1>6. InCycle(p) = {m \in Files : C[m] # {m} \/ m \in graph[m]}
  BY <1>1 DEF InCycle, OnCycle
<1>7. ASSUME d \in C[f] PROVE f \in InCycle(p) /\ d \in InCycle(p)
  <2>1. C[d] = C[f] /\ f \in C[f] /\ d \in C[d]
    BY <1>1, <1>7, ComponentFacts
  <2>2. CASE d = f
    BY <1>1, <1>2, <1>6, <2>2
  <2>3. CASE d # f
    BY <1>2, <1>6, <2>1, <2>3
  <2> QED
    BY <2>2, <2>3
<1> HIDE DEF depth, graph, C
<1>8. depth[f] \in Nat /\ depth[d] \in Nat
  BY <1>2, <1>3
<1>9. depth[d] <= depth[f] /\ (depth[d] = depth[f] => d \in C[f])
  BY <1>4, <1>5, <1>8
<1> QED
  BY <1>2, <1>7, <1>8, <1>9 DEF depth, graph

-----------------------------------------------------------------------------
(* A check reads of the tables the lists of the file's dependencies, the   *)
(* blocks, and whether a package can be called missing.                    *)

Agree(p, one, two, f) ==
    /\ \A s \in Sources : one.extra[s] = two.extra[s]
    /\ one.bareReportable = two.bareReportable
    /\ \A d \in Dependencies(p, f) :
          one.names[d] = two.names[d] /\ one.complete[d] = two.complete[d]

(* What a report says of imports.                                          *)
AboutImports(missing) == {d \in missing : d.kind \in {"module", "name"}}

LEMMA ImportsReported ==
    ASSUME NEW p \in Project, NEW ex, NEW f \in Files
    PROVE  AboutImports(BindDiagnostics(p, ex, f)) =
              IF p.fault[f] \in {"unreadable", "crash"} THEN {} ELSE ImportDiagnostics(p, ex, f)
<1>1. \A d \in ImportDiagnostics(p, ex, f) : d.kind \in {"module", "name"}
  BY DEF ImportDiagnostics, MissingModule, MissingName
<1>2. \A d \in GlobalDiagnostics(p, ex, f) : d.kind \notin {"module", "name"}
  BY DEF GlobalDiagnostics, MissingGlobal, MissingMember
<1> QED
  BY <1>1, <1>2 DEF AboutImports, BindDiagnostics

LEMMA AgreeingTables ==
    ASSUME NEW p \in Project, NEW one, NEW two, NEW f \in Files, Agree(p, one, two, f)
    PROVE  /\ Collect(p, one, f) = Collect(p, two, f)
           /\ AboutImports(BindDiagnostics(p, one, f)) = AboutImports(BindDiagnostics(p, two, f))
           /\ p.uses[f] = {} =>
                 FileReport(CheckFile(p, one, f)) = FileReport(CheckFile(p, two, f))
<1>1. \A s \in RequestedSources(p, f) : s \in Sources /\ (s \in Files => s \in Dependencies(p, f))
  BY RequestsType DEF Dependencies
<1>2. ASSUME NEW s \in RequestedSources(p, f)
      PROVE  /\ ModuleExports(one, s) = ModuleExports(two, s)
             /\ ExportEntries(one, s) = ExportEntries(two, s)
  BY <1>1 DEF Agree, ModuleExports, ExportEntries
<1>3. \A s \in RequestedSources(p, f) :
          /\ ExportAll(one, s) = ExportAll(two, s)
          /\ \A n : ExportKeys(one, s, n) = ExportKeys(two, s, n)
  BY <1>2 DEF ExportAll, ExportKeys
<1>4. /\ \A r \in Requests(p, f) : r.src \in RequestedSources(p, f)
      /\ \A r \in p.froms[f] : r.src \in RequestedSources(p, f)
      /\ \A s \in StarSources(p, f) : s \in RequestedSources(p, f)
      /\ \A i \in DOMAIN p.stars[f] : p.stars[f][i] \in RequestedSources(p, f)
  <2>1. \A r \in p.froms[f] : [src |-> r.src, name |-> r.name] \in Requests(p, f)
    BY DEF Requests
  <2>2. \A r \in Requests(p, f) : r.src \in RequestedSources(p, f)
    BY DEF RequestedSources
  <2>3. \A r \in p.froms[f] : r.src \in RequestedSources(p, f)
    <3>1. \A r \in p.froms[f] : [src |-> r.src, name |-> r.name].src \in RequestedSources(p, f)
      BY <2>1, <2>2
    <3> QED
      BY <3>1
  <2>4. \A s \in StarSources(p, f) : s \in RequestedSources(p, f)
    BY DEF RequestedSources
  <2>5. \A i \in DOMAIN p.stars[f] : p.stars[f][i] \in StarSources(p, f)
    BY DEF StarSources
  <2> QED
    BY <2>2, <2>3, <2>4, <2>5
<1>5. FromPart(p, one, f) = FromPart(p, two, f)
  <2>1. \A r \in p.froms[f] : {[name |-> r.as, key |-> k] : k \in ExportKeys(one, r.src, r.name)}
                              = {[name |-> r.as, key |-> k] : k \in ExportKeys(two, r.src, r.name)}
    BY <1>3, <1>4
  <2> QED
    BY <2>1 DEF FromPart
<1>6. StarParts(p, one, f) = StarParts(p, two, f)
  <2>1. ASSUME NEW i \in DOMAIN p.stars[f] PROVE StarPart(p, one, f, i) = StarPart(p, two, f, i)
    <3>1. PICK n \in Nat : DOMAIN p.stars[f] = 1 .. n
      BY StatementsType
    <3>2. \A j \in 1 .. (i - 1) : j \in DOMAIN p.stars[f]
      BY <3>1
    <3>3. \A j \in 1 .. (i - 1) : NamesOf(ExportAll(one, p.stars[f][j]))
                                  = NamesOf(ExportAll(two, p.stars[f][j]))
      BY <1>3, <1>4, <3>2
    <3>4. UNION {NamesOf(ExportAll(one, p.stars[f][j])) : j \in 1 .. (i - 1)}
          = UNION {NamesOf(ExportAll(two, p.stars[f][j])) : j \in 1 .. (i - 1)}
      BY <3>3
    <3>5. ExportAll(one, p.stars[f][i]) = ExportAll(two, p.stars[f][i])
      BY <1>3, <1>4
    <3> QED
      BY <1>5, <3>4, <3>5 DEF StarPart
  <2> QED
    BY <2>1 DEF StarParts
<1>7. ListIsWhole(p, one, f) <=> ListIsWhole(p, two, f)
  BY <1>2, <1>3, <1>4 DEF ListIsWhole
<1>8. Collect(p, one, f) = Collect(p, two, f)
  BY <1>5, <1>6, <1>7 DEF Collect, CollectedUnit
<1>9. GivesReasons(p, one, f) = GivesReasons(p, two, f)
  BY <1>7 DEF GivesReasons
<1>10. ImportDiagnostics(p, one, f) = ImportDiagnostics(p, two, f)
  <2>1. {x \in RequestedSources(p, f) : ModuleExports(one, x) = "unresolved"}
        = {x \in RequestedSources(p, f) : ModuleExports(two, x) = "unresolved"}
    BY <1>2
  <2>2. {x \in Requests(p, f) : ModuleExports(one, x.src) = "whole" /\ ExportKeys(one, x.src, x.name) = {}}
        = {x \in Requests(p, f) : ModuleExports(two, x.src) = "whole" /\ ExportKeys(two, x.src, x.name) = {}}
    BY <1>2, <1>3, <1>4
  <2> QED
    BY <2>1, <2>2 DEF ImportDiagnostics
<1>11. ASSUME p.uses[f] = {} PROVE GlobalDiagnostics(p, one, f) = GlobalDiagnostics(p, two, f)
  BY <1>11 DEF GlobalDiagnostics
<1>12. p.uses[f] = {} => BindDiagnostics(p, one, f) = BindDiagnostics(p, two, f)
  BY <1>10, <1>11 DEF BindDiagnostics
<1>13. AboutImports(BindDiagnostics(p, one, f)) = AboutImports(BindDiagnostics(p, two, f))
  BY <1>10, ImportsReported
<1> QED
  BY <1>8, <1>9, <1>12, <1>13 DEF CheckFile, UnitResult, FileReport

(* Publishing results replaces lists and nothing else once something was   *)
(* published for every file that can be read; a file none of whose         *)
(* dependencies' lists changes is checked as before.                       *)
LEMMA PublishingKeeps ==
    ASSUME NEW p \in Project, NEW ex \in Exports, OwnTables(p, ex),
           PublishedIn(ex) = Readable(p),
           NEW res, DOMAIN res \subseteq Files,
           \A f \in DOMAIN res : res[f] \in Results /\ OwnResult(p, f, res[f]) /\ IsChecked(p, f),
           NEW f \in Files,
           \A d \in Dependencies(p, f) \cap Published(res) :
               ex.names[d] = UnitEntries(res[d].unit) /\ ex.complete[d] = res[d].unit.complete
    PROVE  Agree(p, ex, AddAll(ex, res), f)
<1> DEFINE added == AddAll(ex, res)
<1>1. Published(res) \subseteq Readable(p)
  BY AddIsOwn DEF Readable
<1>2. PublishedIn(added) = PublishedIn(ex)
  BY <1>1, AddIsOwn
<1>3. \A s \in Sources : added.extra[s] = ex.extra[s]
  BY <1>2, AddIsOwn DEF OwnTables
<1>4. added.bareReportable = ex.bareReportable
  BY DEF AddAll
<1>5. \A d \in Dependencies(p, f) : d \in Files
  BY DEF Dependencies
<1>6. \A d \in Dependencies(p, f) :
          added.names[d] = ex.names[d] /\ added.complete[d] = ex.complete[d]
  BY <1>5 DEF AddAll
<1> QED
  BY <1>3, <1>4, <1>6 DEF Agree

-----------------------------------------------------------------------------
(* The layers.                                                             *)

LayerOf(p, f) == Depth(DependencyGraph(p))[f] + 1

LEMMA LayersOfFiles ==
    ASSUME NEW p \in Project
    PROVE  /\ \A f \in Files : LayerOf(p, f) \in 1 .. Len(GraphLayers(p))
           /\ Len(GraphLayers(p)) \in Nat
           /\ \A n \in 1 .. Len(GraphLayers(p)) :
                 GraphLayers(p)[n] = {f \in Files : LayerOf(p, f) = n}
           /\ \A f \in Files : \A d \in Dependencies(p, f) :
                 /\ d \in Files
                 /\ LayerOf(p, d) <= LayerOf(p, f)
                 /\ LayerOf(p, d) = LayerOf(p, f) => f \in InCycle(p) /\ d \in InCycle(p)
<1> DEFINE graph == DependencyGraph(p)
<1>1. IsGraph(graph) /\ Nodes(graph) = Files
  BY ProjectGraph
<1>2. /\ LayersOf(graph) \in Seq(SUBSET Files)
      /\ \A f \in Files : Depth(graph)[f] + 1 \in 1 .. Len(LayersOf(graph))
      /\ \A i \in 1 .. Len(LayersOf(graph)) :
            LayersOf(graph)[i] = {f \in Files : Depth(graph)[f] + 1 = i}
  BY <1>1, LayerFacts, ZenonT(40)
<1>3. Len(LayersOf(graph)) \in Nat
  BY <1>2
<1> HIDE DEF graph
<1>4. ASSUME NEW f \in Files, NEW d \in Dependencies(p, f)
      PROVE  /\ d \in Files
             /\ Depth(graph)[d] + 1 <= Depth(graph)[f] + 1
             /\ Depth(graph)[d] + 1 = Depth(graph)[f] + 1 => f \in InCycle(p) /\ d \in InCycle(p)
  BY DependenciesEarlier DEF graph
<1> QED
  BY <1>2, <1>3, <1>4 DEF LayerOf, GraphLayers, graph

-----------------------------------------------------------------------------
(* The invariant.  The driver follows the graph of its project.            *)
ShapeInv ==
    /\ layers = GraphLayers(prj)
    /\ cyclic = InCycle(prj)
    /\ Files # {} => level <= Len(layers)
    /\ pass = "providers" => level = 1
    /\ \A f \in DOMAIN report : IsChecked(prj, f)
    /\ stage = "settle" => DOMAIN done = {f \in LayerFiles : IsChecked(prj, f)}

OwnInv ==
    /\ OwnTables(prj, exports)
    /\ stage = "settle" => \A f \in DOMAIN done : OwnResult(prj, f, done[f])
    /\ \A f \in DOMAIN report : prj.fault[f] = "unreadable" => report[f] = Silent

(* Who has been heard: the providers and the layers passed, and from the   *)
(* second pass on every file.                                              *)
HasPassed(f) ==
    \/ pass \in {"second", "finished"}
    \/ pass = "first" /\ (IsProvider(prj, f) \/ LayerOf(prj, f) < level)

HeardInv ==
    /\ PublishedIn(exports) \subseteq Readable(prj)
    /\ \A f \in Readable(prj) : HasPassed(f) => f \in PublishedIn(exports)

(* The settled files of the layers the second pass is done with.           *)
Final(f) ==
    /\ f \in Files \ (Providers \cup unsettled)
    /\ IsChecked(prj, f)
    /\ pass = "finished" \/ (pass = "second" /\ LayerOf(prj, f) < level)

(* Checking f against the tables ex comes to what they hold for it, and to *)
(* its report r, the globals apart that no edge orders.                    *)
TableCurrent(ex, f) ==
    LET again == Collect(prj, ex, f)
    IN  again.published => /\ ex.names[f] = UnitEntries(again)
                           /\ ex.complete[f] = again.complete

ReportCurrent(ex, f, r) ==
    /\ prj.uses[f] = {} => r = FileReport(CheckFile(prj, ex, f))
    /\ AboutImports(r.missing) = AboutImports(BindDiagnostics(prj, ex, f))

ResultCurrent(ex, f, r) ==
    LET again == Collect(prj, ex, f)
    IN  /\ again.published => /\ UnitEntries(r.unit) = UnitEntries(again)
                              /\ r.unit.complete = again.complete
        /\ ReportCurrent(ex, f, FileReport(r))

CurrentInv ==
    /\ pass = "second" => \A f \in DOMAIN report : f \in Providers \/ LayerOf(prj, f) < level
    /\ \A f \in Files : Final(f) => TableCurrent(exports, f)
    /\ \A f \in DOMAIN report : Final(f) => ReportCurrent(exports, f, report[f])

(* Between two rechecks the tables hold the members' latest lists, and the *)
(* others' results are what they will be.                                  *)
RecheckInv ==
    pass = "second" /\ stage = "settle" =>
        \A f \in DOMAIN done :
            /\ f \in Members /\ done[f].unit.published =>
                  /\ exports.names[f] = UnitEntries(done[f].unit)
                  /\ exports.complete[f] = done[f].unit.complete
            /\ f \notin Members => ResultCurrent(exports, f, done[f])

SettledInv == TypeInv /\ ShapeInv /\ OwnInv /\ HeardInv /\ CurrentInv /\ RecheckInv

LEMMA InitSettled == Init => SettledInv
<1> SUFFICES ASSUME Init PROVE SettledInv
  OBVIOUS
<1>1. TypeInv /\ prj \in Project
  BY InitType, ProjectsAssumption DEF Init
<1>2. /\ layers = GraphLayers(prj) /\ cyclic = InCycle(prj)
      /\ pass = "providers" /\ level = 1 /\ stage = "check" /\ exports = NoExports
      /\ DOMAIN report = {}
  BY DEF Init
<1>3. ShapeInv
  <2>1. Files # {} => 1 <= Len(GraphLayers(prj))
    BY <1>1, LayersOfFiles
  <2> QED
    BY <1>2, <2>1 DEF ShapeInv
<1>4. PublishedIn(exports) = {}
  BY <1>2 DEF PublishedIn, NoExports
<1>5. OwnInv
  <2>1. \A s \in Sources : OwnBlocks(prj, {}, s) = {}
    BY DEF OwnBlocks
  <2>2. \A s : BlockEntries({}, s) = {}
    BY DEF BlockEntries
  <2>3. \A s \in Sources : Contributed(prj, {}, s) = [entries |-> {}, state |-> "unknown"]
    BY <2>1, <2>2 DEF Contributed
  <2>4. OwnTables(prj, exports)
    BY <1>2, <1>4, <2>3 DEF OwnTables, NoExports
  <2> QED
    BY <1>2, <2>4 DEF OwnInv
<1>6. HeardInv
  BY <1>2, <1>4 DEF HeardInv, HasPassed
<1>7. CurrentInv /\ RecheckInv
  BY <1>2 DEF CurrentInv, RecheckInv, Final
<1> QED
  BY <1>1, <1>3, <1>5, <1>6, <1>7 DEF SettledInv

-----------------------------------------------------------------------------
(* What a batch comes to.                                                  *)

(* A result for every file of the layer that is checked.                   *)
LayerResults(res) ==
    /\ DOMAIN res = {f \in LayerFiles : IsChecked(prj, f)}
    /\ \A f \in DOMAIN res : res[f] \in Results /\ OwnResult(prj, f, res[f])

LEMMA LayerIs ==
    ASSUME TypeInv, ShapeInv
    PROVE  /\ prj \in Project /\ exports \in Exports
           /\ LayerFiles = {f \in Files \ Providers : LayerOf(prj, f) = level}
           /\ Members = LayerFiles \cap InCycle(prj)
           /\ level \in Nat \ {0}
<1>1. prj \in Project /\ exports \in Exports /\ level \in Nat \ {0}
  BY Unfinished DEF TypeInv, TypeOK
<1>2. CASE Files = {}
  BY <1>1, <1>2 DEF ShapeInv, LayerFiles, Members
<1>3. CASE Files # {}
  <2>1. level \in 1 .. Len(GraphLayers(prj))
    BY <1>1, <1>3, LayersOfFiles DEF ShapeInv
  <2>2. layers[level] = {f \in Files : LayerOf(prj, f) = level}
    BY <1>1, <2>1, LayersOfFiles DEF ShapeInv
  <2> QED
    BY <1>1, <2>2 DEF LayerFiles, Members, ShapeInv
<1> QED
  BY <1>2, <1>3

LEMMA BatchResults ==
    ASSUME SettledInv, pass \in {"first", "second"}, NEW res, res = CheckBatch(prj, exports, Batch)
    PROVE  /\ \A f \in DOMAIN res : res[f] = CheckFile(prj, exports, f)
           /\ stage = "check" => LayerResults(res)
           /\ stage = "settle" =>
                 /\ DOMAIN res = Members \cap DOMAIN done
                 /\ \A f \in DOMAIN done : res[f] \in Results \/ f \notin Members
                 /\ LayerResults(Updated(res))
<1>1. TypeOK /\ TypeInv /\ ShapeInv /\ prj \in Project /\ exports \in Exports
  BY LayerIs DEF SettledInv, TypeInv
<1>2. DOMAIN res = Batch /\ \A f \in DOMAIN res : res[f] = CheckFile(prj, exports, f)
  BY DEF CheckBatch
<1>3. Batch \subseteq Files /\ \A f \in Batch : res[f] \in Results
  BY <1>1, <1>2, Unfinished, BatchType DEF ResultsOf
<1>4. \A f \in Batch : OwnResult(prj, f, res[f])
  BY <1>1, <1>2, <1>3, CheckIsOwn
<1>5. ASSUME stage = "check" PROVE LayerResults(res)
  <2>1. Batch = {f \in LayerFiles : IsChecked(prj, f)}
    BY <1>5 DEF Batch
  <2> QED
    BY <1>2, <1>3, <1>4, <2>1 DEF LayerResults
<1>6. ASSUME stage = "settle"
      PROVE  /\ DOMAIN res = Members \cap DOMAIN done
             /\ \A f \in DOMAIN done : res[f] \in Results \/ f \notin Members
             /\ LayerResults(Updated(res))
  <2>1. Batch = {f \in Members : IsChecked(prj, f)}
    BY <1>6 DEF Batch
  <2>2. DOMAIN done = {f \in LayerFiles : IsChecked(prj, f)} /\ Members \subseteq LayerFiles
    BY <1>1, <1>6 DEF ShapeInv, Members
  <2>3. Batch = Members \cap DOMAIN done
    BY <2>1, <2>2
  <2>4. \A f \in DOMAIN done : done[f] \in Results /\ OwnResult(prj, f, done[f])
    BY <1>1, <1>6 DEF SettledInv, OwnInv, TypeOK
  <2> QED
    BY <1>2, <1>3, <1>4, <2>2, <2>3, <2>4 DEF LayerResults, Updated
<1> QED
  BY <1>2, <1>5, <1>6

-----------------------------------------------------------------------------
(* Publishing a layer.                                                     *)

LEMMA PublishLayerShape ==
    ASSUME TypeInv, ShapeInv, pass \in {"first", "second"}, NEW res, LayerResults(res),
           PublishLayer(res)
    PROVE  ShapeInv'
<1>1. /\ prj' = prj /\ layers' = layers /\ cyclic' = cyclic /\ stage' = "check"
      /\ pass' \in {"first", "second", "finished"}
  BY DEF PublishLayer, NextLayer
<1>2. prj \in Project /\ level \in Nat
  BY LayerIs
<1>3. Files # {} => level' <= Len(layers)
  <2>1. Files # {} => 1 <= Len(layers) /\ Len(layers) \in Nat
    BY <1>2, LayersOfFiles DEF ShapeInv
  <2>2. level' = 1 \/ (level # Len(layers) /\ level' = level + 1)
    BY DEF PublishLayer
  <2> QED
    BY <1>2, <2>1, <2>2 DEF ShapeInv
<1>4. DOMAIN report' \subseteq DOMAIN WithReports(report, res)
  BY DEF PublishLayer
<1>5. \A f \in DOMAIN WithReports(report, res) : IsChecked(prj, f)
  BY DEF WithReports, Reported, LayerResults, ShapeInv
<1> QED
  BY <1>1, <1>3, <1>4, <1>5 DEF ShapeInv

(* After the last layer every file has been passed.                        *)
LEMMA PassedNext ==
    ASSUME TypeInv, ShapeInv, pass \in {"first", "second"}, NEW res, PublishLayer(res),
           NEW f \in Files, HasPassed(f)'
    PROVE  HasPassed(f) \/ f \in LayerFiles
<1>1. /\ LayerFiles = {g \in Files \ Providers : LayerOf(prj, g) = level}
      /\ prj \in Project /\ level \in Nat \ {0}
  BY LayerIs
<1>2. prj' = prj
  BY DEF PublishLayer, NextLayer
<1>3. LayerOf(prj, f) \in 1 .. Len(layers) /\ Len(layers) \in Nat /\ level <= Len(layers)
  BY <1>1, LayersOfFiles DEF ShapeInv
<1>4. CASE pass = "second"
  BY <1>4 DEF HasPassed
<1>5. CASE pass = "first"
  <2>1. pass' = "first" => level' = level + 1
    BY <1>5 DEF PublishLayer
  <2>2. pass' # "first" => level = Len(layers)
    BY <1>5 DEF PublishLayer
  <2>3. IsProvider(prj, f) \/ LayerOf(prj, f) < level + 1
    BY <1>1, <1>2, <1>3, <2>1, <2>2 DEF HasPassed
  <2> QED
    BY <1>1, <1>3, <1>5, <2>3 DEF HasPassed, Providers
<1> QED
  BY <1>4, <1>5

LEMMA PublishLayerOwn ==
    ASSUME TypeInv, ShapeInv, OwnInv, HeardInv, pass \in {"first", "second"},
           NEW res, LayerResults(res), PublishLayer(res)
    PROVE  OwnInv' /\ HeardInv'
<1>1. prj \in Project /\ exports \in Exports /\ LayerFiles \subseteq Files
  BY LayerIs
<1>2. prj' = prj /\ stage' = "check" /\ exports' = AddAll(exports, res)
  BY DEF PublishLayer, NextLayer
<1>3. DOMAIN res \subseteq Files
  BY <1>1 DEF LayerResults
<1>4. /\ PublishedIn(exports') = PublishedIn(exports) \cup Published(res)
      /\ Published(res) = {f \in DOMAIN res : prj.fault[f] # "unreadable"}
      /\ OwnTables(prj, exports')
  BY <1>1, <1>2, <1>3, AddIsOwn DEF OwnInv, LayerResults
<1>5. \A f \in DOMAIN report' : prj.fault[f] = "unreadable" => report'[f] = Silent
  <2>1. \A f \in DOMAIN report' : /\ f \in DOMAIN WithReports(report, res)
                                  /\ report'[f] = WithReports(report, res)[f]
    BY DEF PublishLayer
  <2> QED
    BY <2>1 DEF WithReports, Reported, LayerResults, OwnResult, OwnInv
<1>6. ASSUME NEW f \in Readable(prj), HasPassed(f)' PROVE f \in PublishedIn(exports')
  <2>1. f \in Files /\ IsChecked(prj, f) /\ prj.fault[f] # "unreadable"
    BY DEF Readable
  <2>2. HasPassed(f) \/ f \in LayerFiles
    BY <1>6, <2>1, PassedNext
  <2> QED
    BY <1>4, <2>1, <2>2 DEF HeardInv, LayerResults
<1>7. PublishedIn(exports') \subseteq Readable(prj)
  BY <1>3, <1>4 DEF HeardInv, Readable, LayerResults
<1> QED
  BY <1>2, <1>4, <1>5, <1>6, <1>7 DEF OwnInv, HeardInv

(* Files of earlier layers, and those of this one that are on no cycle,    *)
(* read none of the lists this layer publishes.                            *)
LEMMA EarlierKept ==
    ASSUME SettledInv, pass = "second",
           NEW res, DOMAIN res \subseteq {f \in LayerFiles : IsChecked(prj, f)},
           \A f \in DOMAIN res : res[f] \in Results /\ OwnResult(prj, f, res[f]),
           NEW f \in Files,
           LayerOf(prj, f) < level \/ (LayerOf(prj, f) = level /\ f \notin InCycle(prj))
    PROVE  Agree(prj, exports, AddAll(exports, res), f)
<1>1. /\ prj \in Project /\ exports \in Exports
      /\ LayerFiles = {g \in Files \ Providers : LayerOf(prj, g) = level}
      /\ level \in Nat
  BY LayerIs DEF SettledInv
<1>2. OwnTables(prj, exports) /\ PublishedIn(exports) = Readable(prj)
  BY DEF SettledInv, OwnInv, HeardInv, HasPassed
<1>3. Published(res) \subseteq DOMAIN res
  BY DEF Published
<1>4. Dependencies(prj, f) \cap Published(res) = {}
  <2>1. SUFFICES ASSUME NEW d \in Dependencies(prj, f), d \in LayerFiles PROVE FALSE
    BY <1>3
  <2>2. LayerOf(prj, d) = level /\ LayerOf(prj, f) \in Nat
    BY <1>1, <2>1, LayersOfFiles
  <2> QED
    BY <1>1, <2>1, <2>2, LayersOfFiles
<1> QED
  BY <1>1, <1>2, <1>4, PublishingKeeps

(* What is current stays so as long as the tables say the same to it.      *)
LEMMA StaysCurrent ==
    ASSUME prj \in Project, NEW one, NEW two, NEW f \in Files, Agree(prj, one, two, f)
    PROVE  /\ Collect(prj, two, f) = Collect(prj, one, f)
           /\ \A r : ReportCurrent(one, f, r) => ReportCurrent(two, f, r)
           /\ \A r : ResultCurrent(one, f, r) => ResultCurrent(two, f, r)
<1>1. Collect(prj, two, f) = Collect(prj, one, f)
  BY AgreeingTables
<1>2. \A r : ReportCurrent(one, f, r) => ReportCurrent(two, f, r)
  BY AgreeingTables DEF ReportCurrent
<1> QED
  BY <1>1, <1>2 DEF ResultCurrent

(* A file that could not be read is reported as such whatever the tables.  *)
LEMMA UnreadableIsCurrent ==
    ASSUME prj \in Project, NEW ex, NEW f \in Files, prj.fault[f] = "unreadable"
    PROVE  TableCurrent(ex, f) /\ ReportCurrent(ex, f, Silent)
<1>1. OwnResult(prj, f, CheckFile(prj, ex, f))
  BY CheckIsOwn
<1>2. CheckFile(prj, ex, f).unit = Collect(prj, ex, f)
  BY DEF CheckFile, UnitResult
<1>3. FileReport(CheckFile(prj, ex, f)).missing = BindDiagnostics(prj, ex, f)
  BY DEF CheckFile, UnitResult, FileReport
<1>4. FileReport(CheckFile(prj, ex, f)) = Silent
  BY <1>1 DEF OwnResult
<1> QED
  BY <1>1, <1>2, <1>3, <1>4 DEF OwnResult, TableCurrent, ReportCurrent

(* A layer of the second pass is current once it is published.             *)
LEMMA PublishSecond ==
    ASSUME SettledInv, pass = "second", NEW res, LayerResults(res), PublishLayer(res),
           NEW X, unsettled' = unsettled \cup X,
           \A f \in DOMAIN res \ X : ResultCurrent(AddAll(exports, res), f, res[f])
    PROVE  CurrentInv'
<1>1. /\ prj \in Project /\ exports \in Exports
      /\ LayerFiles = {f \in Files \ Providers : LayerOf(prj, f) = level}
      /\ level \in Nat \ {0}
  BY LayerIs DEF SettledInv
<1>2. /\ prj' = prj /\ exports' = AddAll(exports, res)
      /\ report' = WithReports(report, res)
      /\ pass' = IF level = Len(layers) THEN "finished" ELSE "second"
      /\ level' = IF level = Len(layers) THEN 1 ELSE level + 1
  BY DEF PublishLayer, NextLayer
<1>3. \A f \in Files : LayerOf(prj, f) \in 1 .. Len(layers) /\ Len(layers) \in Nat
  BY <1>1, LayersOfFiles DEF SettledInv, ShapeInv
<1>4. DOMAIN report \subseteq Files
  BY DEF SettledInv, TypeInv, TypeOK
<1>5. DOMAIN res = {f \in LayerFiles : IsChecked(prj, f)} /\ DOMAIN res \subseteq Files
  BY <1>1 DEF LayerResults
<1>6. Providers' = Providers
  BY <1>2 DEF Providers
<1>7. ASSUME NEW f \in Files, Final(f)'
      PROVE  Final(f) \/ f \in DOMAIN res \ X
  BY <1>1, <1>2, <1>3, <1>5, <1>6, <1>7 DEF Final
<1>8. ASSUME NEW f \in Files, Final(f)
      PROVE  /\ Agree(prj, exports, exports', f)
             /\ f \notin DOMAIN res
             /\ exports'.names[f] = exports.names[f] /\ exports'.complete[f] = exports.complete[f]
  <2>1. LayerOf(prj, f) < level
    BY <1>8 DEF Final
  <2>2. Agree(prj, exports, exports', f)
    BY <1>2, <1>5, <2>1, EarlierKept DEF LayerResults
  <2>3. f \notin DOMAIN res /\ f \notin Published(res)
    BY <1>1, <1>5, <2>1 DEF Published
  <2> QED
    BY <1>2, <2>2, <2>3 DEF AddAll
<1>9. ASSUME NEW f \in Files, Final(f)' PROVE TableCurrent(exports, f)'
  <2>1. CASE Final(f)
    <3>1. TableCurrent(exports, f)
      BY <2>1 DEF SettledInv, CurrentInv
    <3>2. Collect(prj, exports', f) = Collect(prj, exports, f)
      BY <1>1, <1>8, <2>1, StaysCurrent
    <3> QED
      BY <1>2, <1>8, <2>1, <3>1, <3>2 DEF TableCurrent
  <2>2. CASE f \in DOMAIN res \ X
    <3> DEFINE again == Collect(prj, exports', f)
    <3>1. ResultCurrent(exports', f, res[f])
      BY <1>2, <2>2
    <3>2. again.published <=> prj.fault[f] # "unreadable"
      <4>1. OwnResult(prj, f, CheckFile(prj, exports', f))
        BY <1>1, CheckIsOwn
      <4> QED
        BY <4>1 DEF OwnResult, CheckFile, UnitResult
    <3>3. res[f].unit.published <=> prj.fault[f] # "unreadable"
      BY <2>2 DEF LayerResults, OwnResult
    <3>4. again.published => /\ exports'.names[f] = UnitEntries(res[f].unit)
                             /\ exports'.complete[f] = res[f].unit.complete
      BY <1>2, <2>2, <3>2, <3>3 DEF AddAll, Published
    <3> QED
      BY <1>2, <3>1, <3>4 DEF TableCurrent, ResultCurrent
  <2> QED
    BY <1>7, <1>9, <2>1, <2>2
<1>10. ASSUME NEW f \in DOMAIN report', Final(f)' PROVE ReportCurrent(exports, f, report[f])'
  <2>1. f \in Files /\ f \notin Providers /\ f \notin X
    BY <1>2, <1>6, <1>10 DEF Final
  <2>2. CASE f \in Reported(res)
    <3>1. f \in DOMAIN res /\ report'[f] = FileReport(res[f])
      BY <1>2, <2>2 DEF WithReports, Reported
    <3>2. ResultCurrent(exports', f, res[f])
      BY <1>2, <2>1, <3>1
    <3> QED
      BY <1>2, <3>1, <3>2 DEF ResultCurrent, ReportCurrent
  <2>3. CASE f \notin Reported(res)
    <3>1. f \in DOMAIN report /\ report'[f] = report[f]
      BY <1>2, <1>10, <2>3 DEF WithReports
    <3>2. LayerOf(prj, f) < level
      BY <2>1, <3>1 DEF SettledInv, CurrentInv
    <3>3. Final(f)
      BY <1>2, <1>6, <1>10, <3>2 DEF Final
    <3>4. ReportCurrent(exports, f, report[f])
      BY <3>1, <3>3 DEF SettledInv, CurrentInv
    <3>5. ReportCurrent(exports', f, report[f])
      BY <1>1, <1>8, <2>1, <3>3, <3>4, StaysCurrent
    <3> QED
      BY <1>2, <3>1, <3>5 DEF ReportCurrent
  <2> QED
    BY <2>2, <2>3
<1>11. ASSUME pass' = "second", NEW f \in DOMAIN report'
       PROVE  f \in Providers \/ LayerOf(prj, f) < level'
  <2>1. level' = level + 1
    BY <1>2, <1>11
  <2>2. f \in DOMAIN report \/ f \in DOMAIN res
    BY <1>2 DEF WithReports, Reported
  <2> QED
    BY <1>1, <1>3, <1>4, <1>5, <2>1, <2>2 DEF SettledInv, CurrentInv
<1> QED
  BY <1>2, <1>6, <1>9, <1>10, <1>11 DEF CurrentInv

(* The first pass claims nothing, unless it is the only one: then there    *)
(* was nothing to read.                                                    *)
LEMMA PublishFirst ==
    ASSUME TypeInv, ShapeInv, OwnInv, HeardInv, pass = "first",
           NEW res, LayerResults(res), PublishLayer(res)
    PROVE  CurrentInv'
<1>1. prj \in Project
  BY LayerIs
<1>2. prj' = prj /\ exports' = AddAll(exports, res) /\ Providers' = Providers
  BY DEF PublishLayer, NextLayer, Providers
<1>3. \A f \in Files : LayerOf(prj, f) \in Nat \ {0}
  BY <1>1, LayersOfFiles
<1>4. CASE pass' = "first"
  BY <1>4 DEF CurrentInv, Final
<1>5. CASE pass' = "second"
  <2>1. level' = 1 /\ DOMAIN report' \subseteq Providers
    BY <1>5 DEF PublishLayer
  <2>2. ASSUME NEW f \in Files, Final(f)' PROVE FALSE
    <3>1. LayerOf(prj, f) < 1
      BY <1>2, <1>5, <2>1, <2>2 DEF Final
    <3> QED
      BY <1>3, <3>1
  <2>3. DOMAIN report' \subseteq Files
    BY <2>1 DEF Providers
  <2> QED
    BY <1>2, <2>1, <2>2, <2>3 DEF CurrentInv
<1>6. CASE pass' \notin {"first", "second"}
  <2>1. pass' = "finished" /\ ~ SecondPassNeeded(exports')
    BY <1>2, <1>6 DEF PublishLayer
  <2>2. PublishedIn(exports') = {}
    BY <2>1 DEF SecondPassNeeded, PublishedIn
  <2>3. OwnInv' /\ HeardInv'
    BY PublishLayerOwn
  <2>4. Readable(prj) = {}
    BY <1>2, <2>1, <2>2, <2>3 DEF HeardInv, HasPassed
  <2>5. \A f \in Files : Final(f)' => prj.fault[f] = "unreadable"
    BY <1>2, <2>4 DEF Final, Readable
  <2>6. \A f \in Files : Final(f)' => TableCurrent(exports, f)'
    BY <1>1, <1>2, <2>5, UnreadableIsCurrent DEF TableCurrent
  <2>7. ASSUME NEW f \in DOMAIN report', Final(f)' PROVE ReportCurrent(exports, f, report[f])'
    <3>1. f \in Files /\ prj.fault[f] = "unreadable"
      BY <2>5, <2>7 DEF Final
    <3>2. report'[f] = Silent
      BY <1>2, <2>3, <3>1 DEF OwnInv
    <3> QED
      BY <1>1, <1>2, <3>1, <3>2, UnreadableIsCurrent DEF ReportCurrent
  <2> QED
    BY <2>1, <2>6, <2>7 DEF CurrentInv
<1> QED
  BY <1>4, <1>5, <1>6

(* Publishing a layer keeps the invariant, when every result but those the *)
(* driver gives up on is what the published tables give.                   *)
LEMMA PublishSettled ==
    ASSUME SettledInv, TypeInv', pass \in {"first", "second"},
           NEW res, LayerResults(res), PublishLayer(res),
           NEW X, unsettled' = unsettled \cup X,
           pass = "second" =>
               \A f \in DOMAIN res \ X : ResultCurrent(AddAll(exports, res), f, res[f])
    PROVE  SettledInv'
<1>1. ShapeInv' /\ OwnInv' /\ HeardInv'
  BY PublishLayerShape, PublishLayerOwn DEF SettledInv
<1>2. CurrentInv'
  BY PublishFirst, PublishSecond DEF SettledInv
<1>3. stage' = "check"
  BY DEF PublishLayer, NextLayer
<1> QED
  BY <1>1, <1>2, <1>3 DEF SettledInv, RecheckInv

-----------------------------------------------------------------------------
(* A recheck of the layer's cycles begins.                                 *)
LEMMA StartSettled ==
    ASSUME SettledInv, TypeInv', pass \in {"first", "second"},
           NEW res, LayerResults(res), StartRound(res),
           pass = "second" =>
               \A f \in DOMAIN res \ Members : ResultCurrent(exports, f, res[f])
    PROVE  SettledInv'
<1> DEFINE mine == OnlyMembers(res)
<1>1. /\ prj \in Project /\ exports \in Exports
      /\ LayerFiles = {f \in Files \ Providers : LayerOf(prj, f) = level}
      /\ Members = LayerFiles \cap InCycle(prj)
      /\ level \in Nat \ {0}
  BY LayerIs DEF SettledInv
<1>2. /\ prj' = prj /\ layers' = layers /\ cyclic' = cyclic /\ pass' = pass /\ level' = level
      /\ report' = report /\ unsettled' = unsettled
      /\ exports' = AddAll(exports, mine) /\ done' = res /\ stage' = "settle"
  BY DEF StartRound
<1>3. LayerFiles' = LayerFiles /\ Members' = Members /\ Providers' = Providers
  BY <1>2 DEF LayerFiles, Members, Providers
<1>4. /\ DOMAIN mine = DOMAIN res \cap Members
      /\ \A f \in DOMAIN mine : mine[f] = res[f]
  BY DEF OnlyMembers
<1> HIDE DEF mine
<1>5. /\ DOMAIN res = {f \in LayerFiles : IsChecked(prj, f)}
      /\ \A f \in DOMAIN res : res[f] \in Results /\ OwnResult(prj, f, res[f])
  BY DEF LayerResults
<1>6. ShapeInv'
  BY <1>2, <1>3, <1>5 DEF SettledInv, ShapeInv
<1>7. /\ PublishedIn(exports') = PublishedIn(exports) \cup Published(mine)
      /\ Published(mine) = {f \in DOMAIN mine : prj.fault[f] # "unreadable"}
      /\ OwnTables(prj, exports')
  BY <1>1, <1>2, <1>4, <1>5, AddIsOwn DEF SettledInv, OwnInv
<1>8. OwnInv'
  BY <1>2, <1>5, <1>7 DEF SettledInv, OwnInv
<1>9. HeardInv'
  <2>1. Published(mine) \subseteq Readable(prj)
    BY <1>1, <1>4, <1>5, <1>7 DEF Readable
  <2> QED
    BY <1>2, <1>7, <2>1 DEF SettledInv, HeardInv, HasPassed
<1>10. ASSUME pass = "second", NEW f \in Files,
              LayerOf(prj, f) < level \/ (LayerOf(prj, f) = level /\ f \notin InCycle(prj))
       PROVE  Agree(prj, exports, exports', f)
  <2>1. DOMAIN mine \subseteq {g \in LayerFiles : IsChecked(prj, g)}
    BY <1>4, <1>5
  <2> QED
    BY <1>2, <1>4, <1>5, <1>10, <2>1, EarlierKept
<1>11. CurrentInv'
  <2>1. CASE pass = "first"
    BY <1>2, <2>1 DEF CurrentInv, Final
  <2>2. CASE pass = "second"
    <3>1. \A f \in DOMAIN report : f \in Providers \/ LayerOf(prj, f) < level
      BY <2>2 DEF SettledInv, CurrentInv
    <3>2. ASSUME NEW f \in Files, Final(f)'
          PROVE  /\ Final(f) /\ Agree(prj, exports, exports', f)
                 /\ exports'.names[f] = exports.names[f]
                 /\ exports'.complete[f] = exports.complete[f]
      <4>1. Final(f) /\ LayerOf(prj, f) < level
        BY <1>2, <1>3, <2>2, <3>2 DEF Final
      <4>2. f \notin Published(mine)
        BY <1>1, <1>4, <4>1 DEF Published
      <4> QED
        BY <1>2, <1>10, <2>2, <4>1, <4>2 DEF AddAll
    <3>3. ASSUME NEW f \in Files, Final(f)' PROVE TableCurrent(exports, f)'
      <4>1. TableCurrent(exports, f) /\ Collect(prj, exports', f) = Collect(prj, exports, f)
        BY <1>1, <3>2, <3>3, StaysCurrent DEF SettledInv, CurrentInv
      <4> QED
        BY <1>2, <3>2, <3>3, <4>1 DEF TableCurrent
    <3>4. ASSUME NEW f \in DOMAIN report, Final(f)' PROVE ReportCurrent(exports, f, report[f])'
      <4>1. f \in Files
        BY <3>4 DEF Final
      <4>2. ReportCurrent(exports, f, report[f])
        BY <3>2, <3>4, <4>1 DEF SettledInv, CurrentInv
      <4>3. ReportCurrent(exports', f, report[f])
        BY <1>1, <3>2, <3>4, <4>1, <4>2, StaysCurrent
      <4> QED
        BY <1>2, <4>3 DEF ReportCurrent
    <3> QED
      BY <1>2, <1>3, <3>1, <3>3, <3>4 DEF CurrentInv
  <2> QED
    BY <2>1, <2>2
<1>12. RecheckInv'
  <2>1. SUFFICES ASSUME pass = "second", NEW f \in DOMAIN res
                 PROVE  /\ f \in Members /\ res[f].unit.published =>
                              /\ exports'.names[f] = UnitEntries(res[f].unit)
                              /\ exports'.complete[f] = res[f].unit.complete
                        /\ f \notin Members => ResultCurrent(exports, f, res[f])'
    BY <1>2, <1>3 DEF RecheckInv
  <2>2. f \in Files
    BY <1>1, <1>5
  <2>3. ASSUME f \in Members, res[f].unit.published
        PROVE  /\ exports'.names[f] = UnitEntries(res[f].unit)
               /\ exports'.complete[f] = res[f].unit.complete
    BY <1>2, <1>4, <2>2, <2>3 DEF AddAll, Published
  <2>4. ASSUME f \notin Members PROVE ResultCurrent(exports, f, res[f])'
    <3>1. LayerOf(prj, f) = level /\ f \notin InCycle(prj)
      BY <1>1, <1>5, <2>4
    <3>2. ResultCurrent(exports', f, res[f])
      BY <1>1, <1>10, <2>1, <2>2, <2>4, <3>1, StaysCurrent
    <3> QED
      BY <1>2, <3>2 DEF ResultCurrent, ReportCurrent
  <2> QED
    BY <2>3, <2>4
<1> QED
  BY <1>6, <1>8, <1>9, <1>11, <1>12 DEF SettledInv

-----------------------------------------------------------------------------
(* One step of the driver.                                                 *)

LEMMA ProvidersSettled ==
    ASSUME SettledInv, TypeInv', NEW res, res = CheckBatch(prj, exports, Batch),
           PublishProviders(res)
    PROVE  SettledInv'
<1> DEFINE published == AddAll(exports, res)
<1>1. /\ prj \in Project /\ exports \in Exports /\ stage # "settle" /\ level = 1
      /\ pass = "providers"
  BY LayerIs DEF SettledInv, TypeInv, SettlesInPass, ShapeInv, PublishProviders
<1>2. /\ prj' = prj /\ layers' = layers /\ cyclic' = cyclic /\ level' = level /\ stage' = stage
      /\ pass' = "first" /\ report' = WithReports(report, res)
      /\ exports' = [published EXCEPT !.bareReportable = BareReportable(prj, published)]
  BY DEF PublishProviders
<1>3. /\ exports'.complete = published.complete
      /\ exports'.extra = published.extra
      /\ exports'.umd = published.umd
  BY <1>2 DEF AddAll
<1>4. /\ DOMAIN res = {f \in Files : IsProvider(prj, f)}
      /\ \A f \in DOMAIN res : res[f] = CheckFile(prj, exports, f)
  BY <1>1 DEF CheckBatch, Batch, Providers, IsProvider
<1>5. \A f \in DOMAIN res : res[f] \in Results /\ OwnResult(prj, f, res[f])
  BY <1>1, <1>4, CheckIsOwn, CheckFileType
<1>6. /\ PublishedIn(published) = PublishedIn(exports) \cup Published(res)
      /\ Published(res) = {f \in DOMAIN res : prj.fault[f] # "unreadable"}
      /\ OwnTables(prj, published)
  BY <1>1, <1>4, <1>5, AddIsOwn DEF SettledInv, OwnInv
<1>7. PublishedIn(exports') = PublishedIn(published) /\ OwnTables(prj, exports')
  BY <1>3, <1>6 DEF PublishedIn, OwnTables
<1> HIDE DEF published
<1>8. \A f \in DOMAIN report' :
          \/ f \in DOMAIN report /\ report'[f] = report[f]
          \/ f \in DOMAIN res /\ report'[f] = FileReport(res[f])
  BY <1>2 DEF WithReports, Reported
<1>9. ShapeInv'
  BY <1>1, <1>2, <1>4, <1>8 DEF SettledInv, ShapeInv, IsProvider
<1>10. OwnInv'
  BY <1>1, <1>2, <1>5, <1>7, <1>8 DEF SettledInv, OwnInv, OwnResult
<1>11. HeardInv'
  <2>1. \A f \in Files : ~ (LayerOf(prj, f) < 1)
    BY <1>1, LayersOfFiles
  <2>2. \A f \in Readable(prj) : HasPassed(f)' => f \in DOMAIN res
    BY <1>1, <1>2, <1>4, <2>1 DEF HasPassed, Readable
  <2>3. \A f \in DOMAIN res : f \in Files /\ IsChecked(prj, f) /\ prj.fault[f] # "unreadable"
    BY <1>4 DEF IsProvider
  <2>4. PublishedIn(exports)' = PublishedIn(exports) \cup DOMAIN res
    BY <1>6, <1>7, <2>3
  <2> QED
    BY <1>2, <2>2, <2>3, <2>4 DEF SettledInv, HeardInv, Readable
<1>12. CurrentInv' /\ RecheckInv'
  BY <1>1, <1>2 DEF CurrentInv, RecheckInv, Final
<1> QED
  BY <1>9, <1>10, <1>11, <1>12 DEF SettledInv

(* The results at hand when a batch of the second pass ends are current,   *)
(* those of files on cycles against the tables they were checked against.  *)
LEMMA LatestIsCurrent ==
    ASSUME SettledInv, pass = "second", NEW res, res = CheckBatch(prj, exports, Batch),
           NEW latest, latest = IF stage = "settle" THEN Updated(res) ELSE res
    PROVE  /\ LayerResults(latest)
           /\ \A f \in DOMAIN latest : ResultCurrent(exports, f, latest[f])
<1>1. /\ \A f \in DOMAIN res : res[f] = CheckFile(prj, exports, f)
      /\ stage = "check" => LayerResults(res)
      /\ stage = "settle" => DOMAIN res = Members \cap DOMAIN done /\ LayerResults(Updated(res))
      /\ stage \in {"check", "settle"}
  BY BatchResults DEF SettledInv, TypeInv, TypeOK
<1>2. \A f : ResultCurrent(exports, f, CheckFile(prj, exports, f))
  BY DEF ResultCurrent, ReportCurrent, CheckFile, UnitResult, FileReport
<1>3. CASE stage = "check"
  BY <1>1, <1>2, <1>3
<1>4. CASE stage = "settle"
  <2>1. \A f \in DOMAIN latest : IF f \in DOMAIN res THEN latest[f] = res[f]
                                ELSE f \in DOMAIN done \ Members /\ latest[f] = done[f]
    BY <1>1, <1>4 DEF Updated
  <2>2. \A f \in DOMAIN done \ Members : ResultCurrent(exports, f, done[f])
    BY <1>4 DEF SettledInv, RecheckInv
  <2> QED
    BY <1>1, <1>2, <1>4, <2>1, <2>2
<1> QED
  BY <1>1, <1>3, <1>4

(* A recheck that changed no list leaves what it was checked against as it *)
(* was: the members' lists are published as they stand.                    *)
LEMMA SettledIsCurrent ==
    ASSUME SettledInv, pass = "second", stage = "settle",
           NEW res, res = CheckBatch(prj, exports, Batch), Settled(res),
           NEW f \in DOMAIN Updated(res)
    PROVE  ResultCurrent(AddAll(exports, Updated(res)), f, Updated(res)[f])
<1> DEFINE latest == Updated(res)
<1>1. /\ prj \in Project /\ exports \in Exports
      /\ LayerFiles = {g \in Files \ Providers : LayerOf(prj, g) = level}
      /\ Members = LayerFiles \cap InCycle(prj)
  BY LayerIs DEF SettledInv
<1>2. LayerResults(latest) /\ \A g \in DOMAIN latest : ResultCurrent(exports, g, latest[g])
  BY LatestIsCurrent
<1>3. /\ DOMAIN latest = {g \in LayerFiles : IsChecked(prj, g)}
      /\ \A g \in DOMAIN latest : latest[g] \in Results /\ OwnResult(prj, g, latest[g])
  BY <1>2 DEF LayerResults
<1>4. OwnTables(prj, exports) /\ PublishedIn(exports) = Readable(prj)
  BY DEF SettledInv, OwnInv, HeardInv, HasPassed
<1>5. \A g \in Members : g \in DOMAIN latest => g \in DOMAIN res /\ g \in DOMAIN done /\ latest[g] = res[g]
  BY BatchResults DEF Updated
<1> HIDE DEF latest
<1>6. ASSUME NEW d \in Members, d \in Published(latest)
      PROVE  exports.names[d] = UnitEntries(latest[d].unit)
             /\ exports.complete[d] = latest[d].unit.complete
  <2>1. d \in Published(res) /\ latest[d] = res[d] /\ d \in DOMAIN done
    BY <1>5, <1>6 DEF Published
  <2>2. Fingerprint(res, Members) = Fingerprint(done, Members)
    BY DEF Settled
  <2>3. /\ DOMAIN Fingerprint(res, Members) = Published(res) \cap Members
        /\ DOMAIN Fingerprint(done, Members) = Published(done) \cap Members
    BY DEF Fingerprint
  <2>4. d \in Published(done)
    BY <1>6, <2>1, <2>2, <2>3
  <2>5. /\ Fingerprint(res, Members)[d] =
              [complete |-> res[d].unit.complete, local |-> res[d].unit.local,
               from |-> res[d].unit.from, stars |-> res[d].unit.stars]
        /\ Fingerprint(done, Members)[d] =
              [complete |-> done[d].unit.complete, local |-> done[d].unit.local,
               from |-> done[d].unit.from, stars |-> done[d].unit.stars]
    BY <1>6, <2>1, <2>4 DEF Fingerprint
  <2>6. /\ done[d].unit.complete = res[d].unit.complete
        /\ UnitEntries(done[d].unit) = UnitEntries(res[d].unit)
    BY <2>2, <2>5 DEF UnitEntries
  <2>7. done[d].unit.published
    BY <2>4 DEF Published
  <2> QED
    BY <2>1, <2>6, <2>7 DEF SettledInv, RecheckInv
<1>7. Agree(prj, exports, AddAll(exports, latest), f)
  <2>1. f \in LayerFiles /\ f \in Files /\ LayerOf(prj, f) = level /\ f \in DOMAIN latest
    BY <1>1, <1>3 DEF latest
  <2>2. CASE f \notin InCycle(prj)
    BY <1>3, <2>1, <2>2, EarlierKept
  <2>3. CASE f \in InCycle(prj)
    <3>1. ASSUME NEW d \in Dependencies(prj, f) \cap Published(latest)
          PROVE  d \in Members
      <4>1. d \in LayerFiles
        BY <1>3 DEF Published
      <4>2. LayerOf(prj, d) = LayerOf(prj, f)
        BY <1>1, <2>1, <4>1
      <4> QED
        BY <1>1, <2>1, <4>1, <4>2, LayersOfFiles
    <3>2. DOMAIN latest \subseteq Files
      BY <1>1, <1>3
    <3> QED
      BY <1>1, <1>3, <1>4, <1>6, <2>1, <3>1, <3>2, PublishingKeeps
  <2> QED
    BY <2>2, <2>3
<1>8. f \in Files /\ f \in DOMAIN latest
  BY <1>1, <1>3 DEF latest
<1> QED
  BY <1>1, <1>2, <1>7, <1>8, StaysCurrent DEF latest

(* What the driver gives up on keeps everything but its completeness.      *)
LEMMA PartialResults ==
    ASSUME NEW latest, LayerResults(latest)
    PROVE  /\ LayerResults(Partial(latest, Members))
           /\ DOMAIN Partial(latest, Members) = DOMAIN latest
           /\ \A f \in DOMAIN latest :
                 Partial(latest, Members)[f].missing = latest[f].missing
<1> DEFINE given == Partial(latest, Members)
<1>1. DOMAIN given = DOMAIN latest
  BY DEF Partial
<1>2. ASSUME NEW f \in DOMAIN latest
      PROVE  /\ given[f] \in Results /\ OwnResult(prj, f, given[f])
             /\ given[f].missing = latest[f].missing
  <2>1. latest[f] \in Results /\ OwnResult(prj, f, latest[f])
    BY DEF LayerResults
  <2>2. /\ given[f] \in Results
        /\ given[f].missing = latest[f].missing /\ given[f].reasons = latest[f].reasons
        /\ given[f].unit.published = latest[f].unit.published
        /\ latest[f].unit.published =>
              /\ given[f].unit.ambient = latest[f].unit.ambient
              /\ given[f].unit.augments = latest[f].unit.augments
              /\ given[f].unit.umd = latest[f].unit.umd
    BY <2>1, PartialResult
  <2> HIDE DEF given
  <2>3. FileReport(given[f]) = FileReport(latest[f])
    BY <2>2 DEF FileReport
  <2> QED
    BY <2>1, <2>2, <2>3 DEF OwnResult
<1> QED
  BY <1>1, <1>2 DEF LayerResults

LEMMA GiveUpSettled ==
    ASSUME SettledInv, TypeInv', pass \in {"first", "second"},
           NEW latest, LayerResults(latest), GiveUp(latest),
           pass = "second" => \A f \in DOMAIN latest : ResultCurrent(exports, f, latest[f])
    PROVE  SettledInv'
<1> DEFINE given == Partial(latest, Members)
<1>1. /\ LayerFiles = {f \in Files \ Providers : LayerOf(prj, f) = level}
      /\ Members = LayerFiles \cap InCycle(prj)
      /\ prj \in Project
  BY LayerIs DEF SettledInv
<1>2. DOMAIN given = DOMAIN latest
  BY DEF Partial
<1>3. LayerResults(given)
  BY PartialResults
<1>4. ASSUME pass = "second", NEW f \in DOMAIN given \ Members
      PROVE  ResultCurrent(AddAll(exports, given), f, given[f])
  <2>1. f \in DOMAIN latest /\ f \in LayerFiles
    BY <1>2, <1>4 DEF LayerResults
  <2>2. given[f] = latest[f]
    BY <1>4, <2>1 DEF Partial
  <2>3. f \in Files /\ LayerOf(prj, f) = level /\ f \notin InCycle(prj)
    BY <1>1, <1>4, <2>1
  <2> HIDE DEF given
  <2>4. Agree(prj, exports, AddAll(exports, given), f)
    BY <1>3, <1>4, <2>3, EarlierKept DEF LayerResults
  <2> QED
    BY <1>1, <1>4, <2>1, <2>2, <2>3, <2>4, StaysCurrent
<1>5. PublishLayer(given) /\ unsettled' = unsettled \cup Members
  BY DEF GiveUp
<1> HIDE DEF given
<1> QED
  BY <1>3, <1>4, <1>5, PublishSettled

LEMMA StepSettled == SettledInv /\ [LayeredNext \/ Finished]_driver => SettledInv'
<1> SUFFICES ASSUME SettledInv, [LayeredNext \/ Finished]_driver PROVE SettledInv'
  OBVIOUS
<1>1. TypeInv'
  BY StepType DEF SettledInv
<1>2. CASE LayeredNext
  <2> DEFINE res == CheckBatch(prj, exports, Batch)
             latest == IF stage = "settle" THEN Updated(res) ELSE res
  <2>1. Conclude(res)
    BY <1>2 DEF LayeredNext
  <2>2. stage = "settle" => pass \in {"first", "second"}
    BY DEF SettledInv, TypeInv, SettlesInPass
  <2>3. pass \in {"first", "second"} => LayerResults(latest)
    <3>1. stage \in {"check", "settle"}
      BY DEF SettledInv, TypeInv, TypeOK
    <3> QED
      BY <3>1, BatchResults
  <2>4. pass = "second" => \A f \in DOMAIN latest : ResultCurrent(exports, f, latest[f])
    BY LatestIsCurrent
  <2>5. CASE PublishProviders(res)
    BY <1>1, <2>5, ProvidersSettled
  <2>6. CASE FinishAcyclicLayer(res)
    <3>1. /\ stage = "check" /\ pass \in {"first", "second"} /\ Members = {}
          /\ PublishLayer(res) /\ unsettled' = unsettled \cup {}
      BY <2>6 DEF FinishAcyclicLayer
    <3>2. /\ LayerFiles = {f \in Files \ Providers : LayerOf(prj, f) = level}
          /\ Members = LayerFiles \cap InCycle(prj)
          /\ prj \in Project
      BY LayerIs DEF SettledInv
    <3>3. latest = res /\ LayerResults(res)
      BY <2>3, <3>1
    <3>4. ASSUME pass = "second", NEW f \in DOMAIN res
          PROVE  ResultCurrent(AddAll(exports, res), f, res[f])
      <4>1. f \in Files /\ LayerOf(prj, f) = level /\ f \notin InCycle(prj)
        BY <3>1, <3>2, <3>3 DEF LayerResults
      <4>2. Agree(prj, exports, AddAll(exports, res), f)
        BY <3>3, <3>4, <4>1, EarlierKept DEF LayerResults
      <4> QED
        BY <2>4, <3>2, <3>3, <3>4, <4>1, <4>2, StaysCurrent
    <3> HIDE DEF res, latest
    <3> QED
      BY <1>1, <3>1, <3>3, <3>4, PublishSettled
  <2>7. CASE EnterSettle(res)
    <3>1. stage = "check" /\ pass \in {"first", "second"} /\ StartRound(res)
      BY <2>7 DEF EnterSettle
    <3>2. latest = res
      BY <3>1
    <3> QED
      BY <1>1, <2>3, <2>4, <3>1, <3>2, StartSettled
  <2>8. CASE GiveUpAtOnce(res)
    <3>1. stage = "check" /\ pass \in {"first", "second"} /\ GiveUp(res)
      BY <2>8 DEF GiveUpAtOnce
    <3>2. latest = res
      BY <3>1
    <3> QED
      BY <1>1, <2>3, <2>4, <3>1, <3>2, GiveUpSettled
  <2>9. CASE CycleSettles(res)
    <3>1. /\ stage = "settle" /\ Settled(res) /\ PublishLayer(Updated(res))
          /\ unsettled' = unsettled \cup {}
      BY <2>9 DEF CycleSettles
    <3>2. latest = Updated(res)
      BY <3>1
    <3>3. pass = "second" => \A f \in DOMAIN Updated(res) :
              ResultCurrent(AddAll(exports, Updated(res)), f, Updated(res)[f])
      BY <3>1, SettledIsCurrent
    <3> QED
      BY <1>1, <2>2, <2>3, <3>1, <3>2, <3>3, PublishSettled
  <2>10. CASE CycleGoesOn(res)
    <3>1. stage = "settle" /\ StartRound(Updated(res))
      BY <2>10 DEF CycleGoesOn
    <3>2. latest = Updated(res)
      BY <3>1
    <3> QED
      BY <1>1, <2>2, <2>3, <2>4, <3>1, <3>2, StartSettled
  <2>11. CASE CycleRunsOut(res)
    <3>1. stage = "settle" /\ GiveUp(Updated(res))
      BY <2>11 DEF CycleRunsOut
    <3>2. latest = Updated(res)
      BY <3>1
    <3> QED
      BY <1>1, <2>2, <2>3, <2>4, <3>1, <3>2, GiveUpSettled
  <2> QED
    BY <2>1, <2>5, <2>6, <2>7, <2>8, <2>9, <2>10, <2>11 DEF Conclude
<1>3. CASE UNCHANGED driver
  <2>1. /\ prj' = prj /\ layers' = layers /\ cyclic' = cyclic /\ pass' = pass /\ level' = level
        /\ stage' = stage /\ exports' = exports /\ done' = done /\ report' = report
        /\ unsettled' = unsettled
    BY <1>3 DEF driver
  <2>2. LayerFiles' = LayerFiles /\ Members' = Members /\ Providers' = Providers
    BY <2>1 DEF LayerFiles, Members, Providers
  <2>3. ShapeInv' /\ OwnInv'
    BY <2>1, <2>2 DEF SettledInv, ShapeInv, OwnInv
  <2>4. HeardInv'
    BY <2>1 DEF SettledInv, HeardInv, HasPassed
  <2>5. CurrentInv'
    BY <2>1, <2>2 DEF SettledInv, CurrentInv, Final, TableCurrent, ReportCurrent
  <2>6. RecheckInv'
    BY <2>1, <2>2 DEF SettledInv, RecheckInv, ResultCurrent, ReportCurrent
  <2> QED
    BY <1>1, <2>3, <2>4, <2>5, <2>6 DEF SettledInv
<1> QED
  BY <1>2, <1>3 DEF Finished

-----------------------------------------------------------------------------
(* When the driver has finished, checking any file once more against the   *)
(* tables publishes what they already hold for it, whatever cycles the     *)
(* project has, in whatever order they settled: for every project and      *)
(* recheck bound, the files listed as unsettled apart.                     *)
THEOREM TablesSettle == LayeredSpec => []TablesAreFixpoint
<1>1. SettledInv => TablesAreFixpoint
  <2> SUFFICES ASSUME SettledInv, pass = "finished", NEW f \in Files \ (Providers \cup unsettled),
                      IsChecked(prj, f)
               PROVE  TableCurrent(exports, f)
    BY DEF TablesAreFixpoint, TableCurrent
  <2> QED
    BY DEF SettledInv, CurrentInv, Final
<1> QED
  BY <1>1, InitSettled, StepSettled, PTL DEF LayeredSpec

(* The final report is the one the final tables give: no file keeps a      *)
(* diagnostic, or lacks one, because it was checked too early.             *)
THEOREM ReportsAreCurrent == LayeredSpec => []ReportIsCurrent
<1>1. SettledInv => ReportIsCurrent
  <2> SUFFICES ASSUME SettledInv, pass = "finished",
                      NEW f \in DOMAIN report \ (Providers \cup unsettled)
               PROVE  ReportCurrent(exports, f, report[f])
    BY DEF ReportIsCurrent, ReportCurrent
  <2>1. f \in Files /\ IsChecked(prj, f)
    BY DEF SettledInv, TypeInv, TypeOK, ShapeInv
  <2> QED
    BY <2>1 DEF SettledInv, CurrentInv, Final
<1> QED
  BY <1>1, InitSettled, StepSettled, PTL DEF LayeredSpec

-----------------------------------------------------------------------------
(* No diagnostic that outlives the first pass calls a global missing that  *)
(* a module introduces: whoever is checked in the second pass sees the     *)
(* globals of every file, and whoever is not uses none.                    *)

GlobalsKnown(missing) ==
    \A d \in missing : d.kind = "global" => \A h \in Heard(prj) : d.src \notin prj.umd[h]

GlobalsInv ==
    /\ \A f \in DOMAIN report :
          f \in Providers \/ pass \in {"second", "finished"} => GlobalsKnown(report[f].missing)
    /\ pass = "second" /\ stage = "settle" => \A f \in DOMAIN done : GlobalsKnown(done[f].missing)

LEMMA CheckKnowsGlobals ==
    ASSUME SettledInv, NEW f \in Files, pass = "second" \/ prj.uses[f] = {}
    PROVE  GlobalsKnown(CheckFile(prj, exports, f).missing)
<1>1. CheckFile(prj, exports, f).missing = BindDiagnostics(prj, exports, f)
  BY DEF CheckFile, UnitResult
<1>2. \A d \in ImportDiagnostics(prj, exports, f) : d.kind # "global"
  BY DEF ImportDiagnostics, MissingModule, MissingName
<1>3. ASSUME NEW d \in GlobalDiagnostics(prj, exports, f), d.kind = "global",
             NEW h \in Heard(prj), d.src \in prj.umd[h]
      PROVE  FALSE
  <2>1. PICK u \in prj.uses[f] : d = MissingGlobal(u.ns) /\ ~ Introduced(exports, u.ns)
    BY <1>3 DEF GlobalDiagnostics, MissingMember
  <2>2. d.src = u.ns /\ pass = "second"
    BY <2>1 DEF MissingGlobal
  <2>3. h \in Readable(prj) /\ h \in Files /\ prj.fault[h] = "none"
    BY <1>3 DEF Heard, Readable
  <2>4. h \in PublishedIn(exports)
    BY <2>2, <2>3 DEF SettledInv, HeardInv, HasPassed
  <2>5. exports.umd[h] = prj.umd[h]
    BY <2>3, <2>4 DEF SettledInv, OwnInv, OwnTables, UmdOf
  <2> QED
    BY <1>3, <2>1, <2>2, <2>3, <2>5 DEF Introduced
<1> QED
  BY <1>1, <1>2, <1>3 DEF BindDiagnostics, GlobalsKnown

(* The results a batch of the second pass ends with.                       *)
LEMMA LatestKnowsGlobals ==
    ASSUME SettledInv, GlobalsInv, pass = "second", NEW res, res = CheckBatch(prj, exports, Batch),
           NEW latest, latest = IF stage = "settle" THEN Updated(res) ELSE res
    PROVE  \A f \in DOMAIN latest : GlobalsKnown(latest[f].missing)
<1>1. \A f \in DOMAIN res : f \in Files /\ res[f] = CheckFile(prj, exports, f)
  BY Unfinished DEF CheckBatch, SettledInv, TypeInv
<1>2. \A f \in DOMAIN res : GlobalsKnown(res[f].missing)
  BY <1>1, CheckKnowsGlobals
<1>3. CASE stage = "settle"
  BY <1>2, <1>3 DEF Updated, GlobalsInv
<1>4. CASE stage # "settle"
  BY <1>2, <1>4
<1> QED
  BY <1>3, <1>4

LEMMA PublishKnowsGlobals ==
    ASSUME SettledInv, GlobalsInv, SettledInv', pass \in {"first", "second"},
           NEW res, LayerResults(res), PublishLayer(res),
           pass = "second" => \A f \in DOMAIN res : GlobalsKnown(res[f].missing)
    PROVE  GlobalsInv'
<1>1. /\ prj' = prj /\ Providers' = Providers /\ Heard(prj)' = Heard(prj) /\ stage' = "check"
      /\ exports' = AddAll(exports, res)
  BY DEF PublishLayer, NextLayer, Providers
<1>2. \A f \in DOMAIN report' : /\ f \in DOMAIN WithReports(report, res)
                                /\ report'[f] = WithReports(report, res)[f]
  BY DEF PublishLayer
<1>3. \A f \in DOMAIN report' :
          \/ f \in DOMAIN report /\ report'[f] = report[f]
          \/ f \in DOMAIN res \ Providers /\ report'[f].missing = res[f].missing
  <2>1. \A f \in DOMAIN res : f \notin Providers
    BY DEF LayerResults, LayerFiles
  <2>2. \A f \in DOMAIN res : FileReport(res[f]).missing = res[f].missing
    BY DEF FileReport
  <2> QED
    BY <1>2, <2>1, <2>2 DEF WithReports, Reported
<1>4. ASSUME NEW f \in DOMAIN report', f \in Providers \/ pass' \in {"second", "finished"}
      PROVE  GlobalsKnown(report[f].missing)'
  <2>1. CASE pass = "second" \/ f \in Providers
    <3>1. GlobalsKnown(report'[f].missing)
      BY <1>3, <2>1 DEF GlobalsInv
    <3> QED
      BY <1>1, <3>1 DEF GlobalsKnown
  <2>2. CASE pass = "first" /\ f \notin Providers
    <3>1. pass' = "finished" /\ ~ SecondPassNeeded(exports')
      <4>1. pass' # "second"
        BY <1>4, <2>2 DEF PublishLayer
      <4> QED
        BY <1>1, <1>4, <2>2, <4>1 DEF PublishLayer
    <3>2. Readable(prj') \subseteq PublishedIn(exports') /\ PublishedIn(exports') = {}
      BY <3>1 DEF SettledInv, HeardInv, HasPassed, SecondPassNeeded, PublishedIn
    <3>3. Heard(prj) = {}
      BY <1>1, <3>2 DEF Heard, Readable
    <3> QED
      BY <1>1, <3>3 DEF GlobalsKnown
  <2> QED
    BY <1>4, <2>1, <2>2
<1> QED
  BY <1>1, <1>4 DEF GlobalsInv

LEMMA StepGlobals ==
    ASSUME SettledInv, GlobalsInv, [LayeredNext \/ Finished]_driver,
           \A f \in Providers : prj.uses[f] = {}
    PROVE  GlobalsInv'
<1>1. SettledInv'
  BY StepSettled
<1>2. CASE LayeredNext
  <2> DEFINE res == CheckBatch(prj, exports, Batch)
             latest == IF stage = "settle" THEN Updated(res) ELSE res
  <2>1. Conclude(res)
    BY <1>2 DEF LayeredNext
  <2>2. stage \in {"check", "settle"} /\ (stage = "settle" => pass \in {"first", "second"})
    BY DEF SettledInv, TypeInv, TypeOK, SettlesInPass
  <2>3. pass \in {"first", "second"} => LayerResults(latest)
    BY <2>2, BatchResults
  <2>4. pass = "second" => \A f \in DOMAIN latest : GlobalsKnown(latest[f].missing)
    BY LatestKnowsGlobals
  <2>5. CASE PublishProviders(res)
    <3>1. /\ prj' = prj /\ Providers' = Providers /\ pass' = "first"
          /\ report' = WithReports(report, res) /\ pass = "providers"
      BY <2>5 DEF PublishProviders, Providers
    <3>2. DOMAIN res \subseteq Providers /\ \A f \in DOMAIN res : res[f] = CheckFile(prj, exports, f)
      BY <3>1 DEF CheckBatch, Batch
    <3>3. \A f \in DOMAIN res : GlobalsKnown(res[f].missing)
      BY <3>2, CheckKnowsGlobals DEF Providers
    <3>4. \A f \in DOMAIN report' \cap Providers : GlobalsKnown(report'[f].missing)
      BY <3>1, <3>3 DEF WithReports, Reported, FileReport, GlobalsInv
    <3> QED
      BY <3>1, <3>4 DEF GlobalsInv, GlobalsKnown
  <2>6. ASSUME NEW given, PublishLayer(given), LayerResults(given), pass \in {"first", "second"},
               pass = "second" => \A f \in DOMAIN given : GlobalsKnown(given[f].missing)
        PROVE  GlobalsInv'
    BY <1>1, <2>6, PublishKnowsGlobals
  <2>7. ASSUME NEW given, StartRound(given),
               pass = "second" => \A f \in DOMAIN given : GlobalsKnown(given[f].missing)
        PROVE  GlobalsInv'
    <3>1. /\ prj' = prj /\ Providers' = Providers /\ pass' = pass
          /\ report' = report /\ done' = given
      BY <2>7 DEF StartRound, Providers
    <3> QED
      BY <2>7, <3>1 DEF GlobalsInv, GlobalsKnown
  <2>8. ASSUME NEW given, GiveUp(given), LayerResults(given), pass \in {"first", "second"},
               pass = "second" => \A f \in DOMAIN given : GlobalsKnown(given[f].missing)
        PROVE  GlobalsInv'
    <3> DEFINE partial == Partial(given, Members)
    <3>1. LayerResults(partial)
      BY <2>8, PartialResults
    <3>2. /\ DOMAIN partial = DOMAIN given
          /\ \A f \in DOMAIN given : partial[f].missing = given[f].missing
      BY <2>8, PartialResults
    <3>3. PublishLayer(partial)
      BY <2>8 DEF GiveUp
    <3> HIDE DEF partial
    <3> QED
      BY <2>6, <2>8, <3>1, <3>2, <3>3
  <2>9. CASE stage = "check"
    <3>1. latest = res
      BY <2>9
    <3>2. ~ PublishProviders(res) => pass \in {"first", "second"} /\
             (FinishAcyclicLayer(res) \/ EnterSettle(res) \/ GiveUpAtOnce(res))
      BY <2>1, <2>9 DEF Conclude, CycleSettles, CycleGoesOn, CycleRunsOut,
                        FinishAcyclicLayer, EnterSettle, GiveUpAtOnce
    <3>3. FinishAcyclicLayer(res) => PublishLayer(res)
      BY DEF FinishAcyclicLayer
    <3>4. EnterSettle(res) => StartRound(res)
      BY DEF EnterSettle
    <3>5. GiveUpAtOnce(res) => GiveUp(res)
      BY DEF GiveUpAtOnce
    <3> HIDE DEF res, latest
    <3> QED
      BY <2>3, <2>4, <2>5, <2>6, <2>7, <2>8, <3>1, <3>2, <3>3, <3>4, <3>5
  <2>10. CASE stage = "settle"
    <3>1. latest = Updated(res)
      BY <2>10
    <3>2. ~ PublishProviders(res) => CycleSettles(res) \/ CycleGoesOn(res) \/ CycleRunsOut(res)
      BY <2>1, <2>10 DEF Conclude, FinishAcyclicLayer, EnterSettle, GiveUpAtOnce
    <3>3. CycleSettles(res) => PublishLayer(Updated(res))
      BY DEF CycleSettles
    <3>4. CycleGoesOn(res) => StartRound(Updated(res))
      BY DEF CycleGoesOn
    <3>5. CycleRunsOut(res) => GiveUp(Updated(res))
      BY DEF CycleRunsOut
    <3> HIDE DEF res, latest
    <3> QED
      BY <2>2, <2>3, <2>4, <2>5, <2>6, <2>7, <2>8, <2>10, <3>1, <3>2, <3>3, <3>4, <3>5
  <2> QED
    BY <2>2, <2>9, <2>10
<1>3. CASE UNCHANGED driver
  BY <1>3 DEF driver, GlobalsInv, GlobalsKnown, Providers
<1> QED
  BY <1>2, <1>3 DEF Finished

(* A global that a module introduces with `export as namespace` is found   *)
(* by every script that uses it, although no import orders them: where the *)
(* declaration files with `declare module` blocks, which are checked       *)
(* before anything is exported, use none.                                  *)
THEOREM GlobalsFound ==
    ASSUME \A p \in Projects, f \in Files : IsProvider(p, f) => p.uses[f] = {}
    PROVE  LayeredSpec => []GlobalsAreFound
<1>1. Init => SettledInv /\ GlobalsInv
  <2>1. Init => GlobalsInv
    BY DEF Init, GlobalsInv
  <2> QED
    BY <2>1, InitSettled
<1>2. SettledInv => \A f \in Providers : prj.uses[f] = {}
  BY DEF SettledInv, TypeInv, TypeOK, Providers
<1>3. SettledInv /\ GlobalsInv /\ [LayeredNext \/ Finished]_driver => SettledInv' /\ GlobalsInv'
  BY <1>2, StepSettled, StepGlobals
<1>4. SettledInv /\ GlobalsInv => GlobalsAreFound
  BY DEF GlobalsInv, GlobalsAreFound, GlobalsKnown, ReportedMissing
<1> QED
  BY <1>1, <1>3, <1>4, PTL DEF LayeredSpec
=============================================================================
