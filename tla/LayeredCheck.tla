----------------------------- MODULE LayeredCheck -----------------------------
(***************************************************************************)
(* The project check as one deterministic sequence of batches              *)
(* (check_project_bounded, settle_members and settle_cycle in              *)
(* src/src/module_resolution/check.rs).  A batch is one call of            *)
(* check_files: here all its files are checked in one step, each against   *)
(* the same export tables.  ProjectCheck checks them with workers and      *)
(* implements this specification.                                          *)
(***************************************************************************)
EXTENDS UnitExports, Integers

CONSTANTS Projects,       \* the projects Init chooses from
          CycleBounds     \* the overrides check_project_bounded is given, and NoBound

NoBound == -1

ASSUME ProjectsAssumption == Projects \subseteq Project
ASSUME BoundAssumption == CycleBounds \subseteq Nat \cup {NoBound}

VARIABLES
    prj,        \* the project
    bound,      \* max_cycle_rounds
    layers,     \* ModuleGraph::layers
    cyclic,     \* the files of ModuleGraph::cycles
    pass,       \* which of the driver's passes runs
    level,      \* the layer the pass is at
    stage,      \* "check": the layer's own check; "settle": a recheck of its cycles
    round,      \* rechecks finished in this layer
    exports,    \* ProjectExports
    done,       \* the layer's latest result per file
    report,     \* ProjectReport::files
    unsettled   \* ProjectReport::unsettled

driver == <<prj, bound, layers, cyclic, pass, level, stage, round, exports, done, report, unsettled>>

MinCycleRounds == 4

(* One recheck per member plus a spare, never fewer than MinCycleRounds.   *)
CycleRoundCap(members) ==
    IF bound # NoBound THEN bound
    ELSE IF Cardinality(members) + 1 > MinCycleRounds THEN Cardinality(members) + 1
    ELSE MinCycleRounds

Providers == {f \in Files : IsProvider(prj, f)}

LayerFiles == {f \in Files : f \in layers[level] /\ f \notin Providers}

Members == LayerFiles \cap cyclic

(* The files the current call of check_files checks.                       *)
Batch ==
    LET asked ==
            CASE pass = "providers" -> Providers
              [] pass \in {"first", "second"} /\ stage = "check"  -> LayerFiles
              [] pass \in {"first", "second"} /\ stage = "settle" -> Members
              [] OTHER -> {}
    IN  {f \in asked : IsChecked(prj, f)}

Init ==
    /\ prj \in Projects
    /\ bound \in CycleBounds
    /\ layers = GraphLayers(prj)
    /\ cyclic = InCycle(prj)
    /\ pass = "providers"
    /\ level = 1
    /\ stage = "check"
    /\ round = 0
    /\ exports = NoExports
    /\ done = << >>
    /\ report = << >>
    /\ unsettled = {}

Reported(res) == {f \in DOMAIN res : prj.role[f] # "dependency"}

(* Reports of new results take the place of older ones of the same file.   *)
WithReports(old, res) ==
    [f \in DOMAIN old \cup Reported(res) |->
        IF f \in Reported(res) THEN FileReport(res[f]) ELSE old[f]]

(* Whether anything could answer a package specifier that no file answers. *)
BareReportable(p, ex) ==
    ~ p.bareHidden /\ \A s \in Wildcard : ex.extra[s].state = "unknown"

(* The providers are published before the first layer; what is known then  *)
(* decides whether a package specifier can be called missing.              *)
PublishProviders(res) ==
    /\ pass = "providers"
    /\ LET published == AddAll(exports, res)
       IN  exports' = [published EXCEPT !.bareReportable = BareReportable(prj, published)]
    /\ report' = WithReports(report, res)
    /\ pass' = "first"
    /\ UNCHANGED <<prj, bound, layers, cyclic, level, stage, round, done, unsettled>>

(* Mistake: the second pass only runs when a module is augmented.          *)
OnlyForAugmentations(ex) == \E f \in Files : ex.extra[f].state # "unknown"

(* The second pass starts over with every report but the providers'.       *)
SecondPassNeeded(ex) ==
    \/ \E f \in Files : ex.complete[f] # "unknown"   \* umd_by_file has an entry
    \/ \E f \in Files : ex.extra[f].state # "unknown"

(* Mistake: the results of the last layer are kept.                        *)
KeepDone ==
    /\ stage' = "check"
    /\ round' = 0
    /\ UNCHANGED <<prj, bound, layers, cyclic, done>>

NextLayer ==
    /\ stage' = "check"
    /\ round' = 0
    /\ done' = << >>
    /\ UNCHANGED <<prj, bound, layers, cyclic>>

(* Hands res to the importers and goes on to the next layer, the second    *)
(* pass or the end.                                                        *)
PublishLayer(res) ==
    LET published == AddAll(exports, res)
        reports   == WithReports(report, res)
        last      == level = Len(layers)
        again     == last /\ pass = "first" /\ SecondPassNeeded(published)
    IN  /\ exports' = published
        /\ report' = IF again THEN [f \in DOMAIN reports \cap Providers |-> reports[f]]
                              ELSE reports
        /\ pass' = IF again THEN "second" ELSE IF last THEN "finished" ELSE pass
        /\ level' = IF again \/ last THEN 1 ELSE level + 1
        /\ NextLayer

(* A layer without cycles is published as checked.                         *)
FinishAcyclicLayer(res) ==
    /\ pass \in {"first", "second"}
    /\ stage = "check"
    /\ Members = {}
    /\ PublishLayer(res)
    /\ UNCHANGED unsettled

Partial(res, members) ==
    [f \in DOMAIN res |->
        IF f \in members /\ res[f].unit.published
        THEN [res[f] EXCEPT !.unit.complete = "partial"] ELSE res[f]]

(* settle_members when the bound has run out: every member of every cycle  *)
(* of the layer is handed on as partial and listed.                        *)
GiveUp(res) ==
    /\ PublishLayer(Partial(res, Members))
    /\ unsettled' = unsettled \cup Members

OnlyMembers(res) == [f \in DOMAIN res \cap Members |-> res[f]]

(* The members' latest exports become visible and one more recheck begins. *)
StartRound(res) ==
    /\ exports' = AddAll(exports, OnlyMembers(res))
    /\ done' = res
    /\ stage' = "settle"
    /\ UNCHANGED <<prj, bound, layers, cyclic, pass, level, report, unsettled>>

EnterSettle(res) ==
    /\ pass \in {"first", "second"}
    /\ stage = "check"
    /\ Members # {}
    /\ CycleRoundCap(Members) > 0
    /\ round' = 0
    /\ StartRound(res)

(* The override may leave a cycle no recheck at all.                       *)
GiveUpAtOnce(res) ==
    /\ pass \in {"first", "second"}
    /\ stage = "check"
    /\ Members # {}
    /\ CycleRoundCap(Members) = 0
    /\ GiveUp(res)

Updated(res) == [f \in DOMAIN done |-> IF f \in DOMAIN res THEN res[f] ELSE done[f]]

(* Mistake: one recheck is taken to be enough.                             *)
OneRecheck(res) == TRUE

Settled(res) == Fingerprint(res, Members) = Fingerprint(done, Members)

(* Mistake: a cycle that settled is handed on as partial too.              *)
SettlesPartial(res) ==
    /\ stage = "settle"
    /\ Settled(res)
    /\ PublishLayer(Partial(Updated(res), Members))
    /\ UNCHANGED unsettled

CycleSettles(res) ==
    /\ stage = "settle"
    /\ Settled(res)
    /\ PublishLayer(Updated(res))
    /\ UNCHANGED unsettled

(* Mistake: rechecks are not counted.                                      *)
Uncounted(res) ==
    /\ stage = "settle"
    /\ ~ Settled(res)
    /\ round + 1 < CycleRoundCap(Members)
    /\ UNCHANGED round
    /\ StartRound(Updated(res))

CycleGoesOn(res) ==
    /\ stage = "settle"
    /\ ~ Settled(res)
    /\ round + 1 < CycleRoundCap(Members)
    /\ round' = round + 1
    /\ StartRound(Updated(res))

CycleRunsOut(res) ==
    /\ stage = "settle"
    /\ ~ Settled(res)
    /\ round + 1 = CycleRoundCap(Members)
    /\ GiveUp(Updated(res))

(* What the driver does with the results of one batch.                     *)
Conclude(res) ==
    \/ PublishProviders(res)
    \/ FinishAcyclicLayer(res)
    \/ EnterSettle(res)
    \/ GiveUpAtOnce(res)
    \/ CycleSettles(res)
    \/ CycleGoesOn(res)
    \/ CycleRunsOut(res)

CheckBatch(p, ex, batch) == [f \in batch |-> CheckFile(p, ex, f)]

LayeredNext ==
    /\ pass # "finished"
    /\ Conclude(CheckBatch(prj, exports, Batch))

Finished == pass = "finished" /\ UNCHANGED driver

LayeredSpec == Init /\ [][LayeredNext \/ Finished]_driver

FairLayeredSpec == LayeredSpec /\ WF_driver(LayeredNext)
=============================================================================
