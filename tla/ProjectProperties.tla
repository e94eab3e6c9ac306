-------------------------- MODULE ProjectProperties --------------------------
(***************************************************************************)
(* What the project check promises about its report, stated over the       *)
(* driver's variables (LayeredCheck), against the names the project's      *)
(* modules really export.                                                  *)
(***************************************************************************)
EXTENDS LayeredCheck

(* The files checked as scripts: their `declare module` blocks answer a    *)
(* specifier, a module's augment a file.                                   *)
Scripts(p) == {f \in Files : IsChecked(p, f) /\ ~ IsModule(p, f)}

Ambient(p, heard) == UNION {p.ambient[f] : f \in Scripts(p) \cap heard}

Augmentations(p, heard) == UNION {p.augments[f] : f \in heard}

BlockNames(blocks, s) == UNION {b.names : b \in {x \in blocks : x.spec = s}}

(* What s exports when every file exports the names T gives it and the     *)
(* blocks of the files of heard count.                                     *)
Known(p, heard, T, s) ==
    IF s \in Files THEN T[s] ELSE BlockNames(Ambient(p, heard), s)

(* The names a file exports then, those the checker cannot carry and those *)
(* of files it does not read included.                                     *)
ExportStep(p, heard, T, f) ==
    p.decls[f] \cup p.hidden[f] \cup BlockNames(Augmentations(p, heard), f)
    \cup {r.as : r \in {q \in p.froms[f] : q.name \in Known(p, heard, T, q.src)}}
    \cup ((UNION {Known(p, heard, T, s) : s \in StarSources(p, f)}) \ {Default})

(* A project names finitely many things.                                   *)
ASSUME NamesAssumption == IsFiniteSet(Names)

(* The names each module really exports: the least solution of the export  *)
(* statements.                                                             *)
ExportSteps == Cardinality(Files) * Cardinality(Names)

TrueNames(p, heard) ==
    LET T[n \in 0 .. ExportSteps] ==
            IF n = 0 THEN [f \in Files |-> {}]
            ELSE [f \in Files |-> ExportStep(p, heard, T[n - 1], f)]
    IN  [s \in Sources |-> Known(p, heard, T[ExportSteps], s)]

(* Names for which every file's statements give a reason, circular reasons *)
(* included; the true names are among them.                                *)
Justified(p, heard, T) == \A f \in Files : T[f] \subseteq ExportStep(p, heard, T, f)

(* The files whose check comes to an end with their statements known.      *)
Heard(p) == {f \in Files : IsChecked(p, f) /\ p.fault[f] = "none"}

(* Every diagnostic about an import.  A file listed as unsettled was not   *)
(* checked against settled tables, and says so.                            *)
ReportedMissing == UNION {report[f].missing : f \in DOMAIN report \ unsettled}

-----------------------------------------------------------------------------
(* Every variable of the driver has its type.                              *)
TypeOK ==
    /\ prj \in Projects
    /\ bound \in CycleBounds
    /\ cyclic \subseteq Files
    /\ pass \in {"providers", "first", "second", "finished"}
    /\ level \in Nat \ {0}
    /\ stage \in {"check", "settle"}
    /\ round \in Nat
    /\ exports \in Exports
    /\ DOMAIN done \subseteq LayerFiles
    /\ \A f \in DOMAIN done : done[f] \in Results
    /\ DOMAIN report \subseteq Files
    /\ \A f \in DOMAIN report : report[f] \in Reports
    /\ unsettled \subseteq cyclic

(* check_project loses an error and never invents one: the final report    *)
(* calls no module missing that a file declares, and no name missing that  *)
(* its module could export, even by re-exports that go round in a circle,  *)
(* whatever cycles, augmentations, late ambient modules, unreadable files  *)
(* and exhausted rounds the project has.                                   *)
NeverInvents ==
    pass = "finished" =>
        \A d \in ReportedMissing :
            /\ d.kind = "name" =>
                  \A T \in [Files -> SUBSET Names] :
                      Justified(prj, Heard(prj), T)
                          => d.name \notin Known(prj, Heard(prj), T, d.src)
            /\ d.kind = "module" => \A b \in Ambient(prj, Heard(prj)) : b.spec # d.src

(* A global some module introduces with `export as namespace` is not       *)
(* called missing, although no edge orders its users after that module.    *)
GlobalsAreFound ==
    pass = "finished" =>
        \A d \in ReportedMissing :
            d.kind = "global" => \A f \in Heard(prj) : d.src \notin prj.umd[f]

(* A module whose list nothing can make partial: it and all that augments  *)
(* it were checked and carry what they declare, it has settled, it         *)
(* re-exports only names that exist, and so does every module it passes    *)
(* on, along no cycle of re-exports.                                       *)
Carried(p, settled) ==
    LET truth == TrueNames(p, Files)
        C[n \in 0 .. Cardinality(Files)] ==
            IF n = 0 THEN {}
            ELSE LET lower == C[n - 1]
                 IN  {f \in settled \cap Heard(p) :
                        /\ p.hidden[f] = {}
                        /\ \A g \in Files : \A u \in p.augments[g] :
                              u.spec = f => u.whole /\ g \in Heard(p)
                        /\ StarSources(p, f) \subseteq lower
                        /\ \A r \in p.froms[f] : r.src \in lower /\ r.name \in truth[r.src]}
    IN  C[Cardinality(Files)]

(* imports.rs: a typo in an import must not look clean.  A name that such  *)
(* a module really lacks is reported wherever it is imported.              *)
ReportsTypos ==
    pass = "finished" =>
        LET truth   == TrueNames(prj, Files)
            carried == Carried(prj, Files \ unsettled)
        IN  \A f \in DOMAIN report : prj.fault[f] \in {"none", "keyless"} =>
                \A r \in Requests(prj, f) :
                    r.src \in carried /\ r.name \notin truth[r.src]
                        => MissingName(r.src, r.name) \in report[f].missing

(* The report is the one the final export tables give: nothing a reported  *)
(* file was told has changed since, except in a cycle listed as unsettled, *)
(* in a provider (checked once, before anything is exported) and in a      *)
(* script that uses UMD globals (no edge orders it after their modules).   *)
ReportIsCurrent ==
    pass = "finished" =>
        \A f \in DOMAIN report \ (Providers \cup unsettled) :
            prj.uses[f] = {} => report[f] = FileReport(CheckFile(prj, exports, f))

(* Checking any settled file once more would publish what it already       *)
(* published: the tables are a fixed point of the export statements, in    *)
(* the cycles too, whatever order they were filled in.                     *)
TablesAreFixpoint ==
    pass = "finished" =>
        \A f \in Files \ (Providers \cup unsettled) :
            LET again == Collect(prj, exports, f)
            IN  IsChecked(prj, f) /\ again.published =>
                    /\ exports.names[f] = UnitEntries(again)
                    /\ exports.complete[f] = again.complete

(* The driver ends: every cycle settles or runs out of rounds.             *)
Terminates == <>(pass = "finished")
=============================================================================
