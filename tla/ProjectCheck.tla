----------------------------- MODULE ProjectCheck -----------------------------
(***************************************************************************)
(* The project check with its worker threads (check_files and check_file   *)
(* in src/src/module_resolution/check.rs).  The files of a batch are       *)
(* checked in parallel: a worker takes a file, binds its imports and, some *)
(* time later, collects its exports, reading the shared export tables both *)
(* times; the driver goes on when every file of the batch has a result.    *)
(* Whatever the interleaving, this implements LayeredCheck, which checks a *)
(* batch in one step.                                                      *)
(***************************************************************************)
EXTENDS LayeredCheck

CONSTANT Workers  \* the threads of the pool

ASSUME WorkersAssumption == Workers # {}

VARIABLES
    working,  \* the unit each worker is in the middle of
    fresh     \* the results of the batch so far

vars == <<driver, working, fresh>>

Idle == [busy |-> FALSE]

Unit(f, missing) == [busy |-> TRUE, file |-> f, missing |-> missing]

InProgress == {working[w].file : w \in {v \in Workers : working[v].busy}}

CheckInit ==
    /\ Init
    /\ working = [w \in Workers |-> Idle]
    /\ fresh = << >>

(* A worker takes a file of the batch that nobody has taken and binds its  *)
(* imports.                                                                *)
BindImports(w, f) ==
    /\ ~ working[w].busy
    /\ f \in Batch \ (DOMAIN fresh \cup InProgress)
    /\ working' = [working EXCEPT ![w] = Unit(f, BindDiagnostics(prj, exports, f))]
    /\ UNCHANGED <<driver, fresh>>

(* Mistake: a worker publishes what it collected at once.                  *)
PublishAtOnce(w) ==
    /\ working[w].busy
    /\ LET f == working[w].file
           result == UnitResult(prj, exports, f, working[w].missing)
       IN  /\ fresh' = [g \in DOMAIN fresh \cup {f} |-> IF g = f THEN result ELSE fresh[g]]
           /\ exports' = AddAll(exports, [g \in {f} |-> result])
    /\ working' = [working EXCEPT ![w] = Idle]
    /\ UNCHANGED <<prj, bound, layers, cyclic, pass, level, stage, round, done, report, unsettled>>

(* It collects the file's exports and is free for another.                 *)
CollectExports(w) ==
    /\ working[w].busy
    /\ LET f == working[w].file
           result == UnitResult(prj, exports, f, working[w].missing)
       IN  fresh' = [g \in DOMAIN fresh \cup {f} |-> IF g = f THEN result ELSE fresh[g]]
    /\ working' = [working EXCEPT ![w] = Idle]
    /\ UNCHANGED driver

(* The driver has waited for the whole batch.                              *)
ConcludeBatch ==
    /\ pass # "finished"
    /\ DOMAIN fresh = Batch
    /\ Conclude(fresh)
    /\ fresh' = << >>
    /\ UNCHANGED working

CheckNext ==
    \/ \E w \in Workers, f \in Files : BindImports(w, f)
    \/ \E w \in Workers : CollectExports(w)
    \/ ConcludeBatch
    \/ Finished /\ UNCHANGED vars

(* An idle worker takes work that is left, and no unit takes forever.      *)
Fairness ==
    /\ WF_vars(\E w \in Workers, f \in Files : BindImports(w, f))
    /\ \A w \in Workers : WF_vars(CollectExports(w))
    /\ WF_vars(ConcludeBatch)

Spec == CheckInit /\ [][CheckNext]_vars

FairSpec == Spec /\ Fairness

-----------------------------------------------------------------------------
(* Every unit in progress and every result of the batch is what one check  *)
(* of the file against the tables as they stand gives, although it read    *)
(* them at two different times and other units finished in between.        *)
OneSnapshot ==
    /\ \A w \in Workers : working[w].busy =>
            working[w].missing = BindDiagnostics(prj, exports, working[w].file)
    /\ \A f \in DOMAIN fresh : fresh[f] = CheckFile(prj, exports, f)

(* No file is taken twice in a batch, and none that is not asked for.      *)
TakenOnce ==
    /\ InProgress \cup DOMAIN fresh \subseteq Batch
    /\ InProgress \cap DOMAIN fresh = {}
    /\ \A v, w \in Workers :
            working[v].busy /\ working[w].busy /\ working[v].file = working[w].file => v = w

(* The tables change only when nothing is being checked: importers never   *)
(* see a file's exports before its whole batch is done.                    *)
PublishedTogether == [][exports' # exports => InProgress = {} /\ DOMAIN fresh = Batch]_vars
=============================================================================
