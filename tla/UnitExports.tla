----------------------------- MODULE UnitExports -----------------------------
(***************************************************************************)
(* What one file's check reads from the project-wide export tables and     *)
(* hands back to them: src/src/module_resolution/check.rs (ImportsOf,      *)
(* ProjectExports::add), bridge/imports.rs (bind_imports) and              *)
(* bridge/exports.rs (collect_exports).                                    *)
(*                                                                         *)
(* A project is a record p whose fields give, for every file, the          *)
(* statements the export machinery looks at.  Types are left out: a        *)
(* declaration is the key <<module, name>> it is published under.          *)
(***************************************************************************)
EXTENDS Digraphs, Sequences

CONSTANTS Files,       \* the files of the module graph
          Specifiers,  \* specifiers no file of the graph answers
          Relative,    \* those of them that are written "./x"
          Special,     \* Node built-ins and other names that are no package
          Wildcard,    \* patterns, "*.css"
          Names,       \* exported names
          Default,     \* the name "default"
          Globals      \* names introduced by `export as namespace`

ASSUME ConstantsAssumption ==
    /\ Relative \cup Special \cup Wildcard \subseteq Specifiers
    /\ Default \in Names
    /\ Files \cap Specifiers = {}

(* A module graph is what was read from a directory: its files are finite. *)
ASSUME FilesAssumption == IsFiniteSet(Files)

Sources == Files \cup Specifiers

(* A declaration is keyed by the file and the module of it that declares   *)
(* it (DeclKey: the file itself or a `declare module` block); an export    *)
(* entry is a name of a module's export list with its key.                 *)
Key   == Files \X Sources \X Names
Entry == [name : Names, key : Key]

(* The statements of each file.                                            *)
(*   decls      exported declarations the portable form can carry          *)
(*   hidden     exported declarations it cannot (an IncompleteReason)      *)
(*   froms      export { name as as } from src                             *)
(*   stars      export * from src, in source order                         *)
(*   imports    import { name } from src                                   *)
(*   ambient    declare module spec { names }, in a script; whole unless   *)
(*              the block has a reason to be partial                       *)
(*   augments   the same block in a module, for the file target            *)
(*   umd        export as namespace G                                      *)
(*   uses       G.name, in a value position (an external module does not   *)
(*              see G: what it reports then is left out)                   *)
(*   role       source: checked and reported; dependency: a declaration    *)
(*              file under node_modules, checked and never reported;       *)
(*              opaque: never checked (JavaScript, JSON)                   *)
(*   dts        the file is a declaration file                             *)
(*   fault      unreadable: reading it fails; crash: its check panics;     *)
(*              keyless: it has no ModuleKey                               *)
Project ==
    [decls    : [Files -> SUBSET Names],
     hidden   : [Files -> SUBSET Names],
     froms    : [Files -> SUBSET [src : Sources, name : Names, as : Names]],
     stars    : [Files -> Seq(Sources)],
     imports  : [Files -> SUBSET [src : Sources, name : Names]],
     ambient  : [Files -> SUBSET [spec : Specifiers, names : SUBSET Names, whole : BOOLEAN]],
     augments : [Files -> SUBSET [spec : Files, names : SUBSET Names, whole : BOOLEAN]],
     umd      : [Files -> SUBSET Globals],
     uses     : [Files -> SUBSET [ns : Globals, name : Names]],
     role     : [Files -> {"source", "dependency", "opaque"}],
     dts      : [Files -> BOOLEAN],
     fault    : [Files -> {"none", "unreadable", "crash", "keyless"}],
     bareHidden : BOOLEAN]

(* A file with a top-level import or export is an external module.         *)
IsModule(p, f) ==
    \/ p.decls[f] # {} \/ p.hidden[f] # {} \/ p.froms[f] # {} \/ p.stars[f] # <<>>
    \/ p.imports[f] # {} \/ p.umd[f] # {} \/ p.augments[f] # {}

IsChecked(p, f) == p.role[f] \in {"source", "dependency"}

(* Declaration files that declare ambient modules and are scripts.         *)
IsProvider(p, f) ==
    /\ IsChecked(p, f)
    /\ p.dts[f]
    /\ p.fault[f] # "unreadable"
    /\ p.ambient[f] # {}
    /\ ~ IsModule(p, f)

-----------------------------------------------------------------------------
(* The export tables of the project (ProjectExports).  complete is absent  *)
(* ("unknown") for a file nothing was published for yet.  extra holds both *)
(* what ambient modules declare for a specifier no file answers and what   *)
(* augmentations add to a file.                                            *)

Completeness == {"unknown", "partial", "whole"}

Exports ==
    [names    : [Files -> SUBSET Entry],
     complete : [Files -> Completeness],
     extra    : [Sources -> [entries : SUBSET Entry, state : Completeness]],
     umd      : [Files -> SUBSET Globals],
     bareReportable : BOOLEAN]

NoExports ==
    [names    |-> [f \in Files |-> {}],
     complete |-> [f \in Files |-> "unknown"],
     extra    |-> [s \in Sources |-> [entries |-> {}, state |-> "unknown"]],
     umd      |-> [f \in Files |-> {}],
     bareReportable |-> FALSE]

(* ImportSource::module_exports: an ambient module answers its specifier   *)
(* first; a specifier no file answers is missing only when that is certain.*)
ModuleExports(ex, s) ==
    LET extra == ex.extra[s].state
    IN  IF s \in Files THEN IF ex.complete[s] = "whole" /\ extra = "partial"
                            THEN "partial" ELSE ex.complete[s]
        ELSE IF extra # "unknown" THEN extra
        ELSE IF s \in Relative \/ (ex.bareReportable /\ s \notin Special)
             THEN "unresolved" ELSE "unknown"

ExportEntries(ex, s) ==
    ex.extra[s].entries \cup (IF s \in Files THEN ex.names[s] ELSE {})

ExportAll(ex, s) == {e \in ExportEntries(ex, s) : e.name # Default}

ExportKeys(ex, s, n) == {e.key : e \in {x \in ExportEntries(ex, s) : x.name = n}}

(* The members every script sees of a UMD global: read from the current    *)
(* export list of the files that introduce it.                             *)
GlobalMembers(ex, g) ==
    {e.name : e \in {x \in UNION {ex.names[f] : f \in {h \in Files : g \in ex.umd[h]}} :
                     x.name # Default}}

-----------------------------------------------------------------------------
(* The diagnostics bind_imports can report for f.                          *)

Requests(p, f) ==
    p.imports[f] \cup {[src |-> r.src, name |-> r.name] : r \in p.froms[f]}

StarSources(p, f) == {p.stars[f][i] : i \in DOMAIN p.stars[f]}

RequestedSources(p, f) == {r.src : r \in Requests(p, f)} \cup StarSources(p, f)

Diagnostics ==
    [kind : {"module", "name", "global", "member"}, src : Sources \cup Globals, name : Names]

MissingModule(s)  == [kind |-> "module", src |-> s, name |-> Default]
MissingName(s, n) == [kind |-> "name",   src |-> s, name |-> n]
MissingGlobal(g)  == [kind |-> "global", src |-> g, name |-> Default]
MissingMember(g, n) == [kind |-> "member", src |-> g, name |-> n]

ImportDiagnostics(p, ex, f) ==
    {MissingModule(s) : s \in {x \in RequestedSources(p, f) :
                               ModuleExports(ex, x) = "unresolved"}}
    \cup {MissingName(r.src, r.name) : r \in {x \in Requests(p, f) :
                               /\ ModuleExports(ex, x.src) = "whole"
                               /\ ExportKeys(ex, x.src, x.name) = {}}}

(* UMD globals are bound in scripts only; one nobody introduces yet is a   *)
(* name that cannot be found.                                              *)
Introduced(ex, g) == \E f \in Files : g \in ex.umd[f]

GlobalDiagnostics(p, ex, f) ==
    IF IsModule(p, f) THEN {}
    ELSE {MissingGlobal(u.ns) : u \in {x \in p.uses[f] : ~ Introduced(ex, x.ns)}}
         \cup {MissingMember(u.ns, u.name) : u \in {x \in p.uses[f] :
                    Introduced(ex, x.ns) /\ x.name \notin GlobalMembers(ex, x.ns)}}

BindDiagnostics(p, ex, f) ==
    IF p.fault[f] \in {"unreadable", "crash"} THEN {}
    ELSE ImportDiagnostics(p, ex, f) \cup GlobalDiagnostics(p, ex, f)

-----------------------------------------------------------------------------
(* collect_exports: the export list in the parts it is written in.  A name *)
(* the file exports itself wins over a star's, an earlier star over a      *)
(* later one.                                                              *)

LocalPart(p, f) == {[name |-> n, key |-> <<f, f, n>>] : n \in p.decls[f]}

FromPart(p, ex, f) ==
    UNION {{[name |-> r.as, key |-> k] : k \in ExportKeys(ex, r.src, r.name)} : r \in p.froms[f]}

NamesOf(entries) == {e.name : e \in entries}

StarPart(p, ex, f, i) ==
    LET taken == NamesOf(LocalPart(p, f)) \cup NamesOf(FromPart(p, ex, f))
                 \cup UNION {NamesOf(ExportAll(ex, p.stars[f][j])) : j \in 1 .. (i - 1)}
    IN  {e \in ExportAll(ex, p.stars[f][i]) : e.name \notin taken}

StarParts(p, ex, f) == [i \in DOMAIN p.stars[f] |-> StarPart(p, ex, f, i)]

(* Mistake: a star over a partial module does not make the list partial.   *)
WholeDespiteStars(p, ex, f) ==
    p.hidden[f] = {} /\ \A r \in p.froms[f] : ExportKeys(ex, r.src, r.name) # {}

(* Every reason that marks the list partial.                               *)
ListIsWhole(p, ex, f) ==
    /\ p.hidden[f] = {}
    /\ \A r \in p.froms[f] : ExportKeys(ex, r.src, r.name) # {}
    /\ \A s \in StarSources(p, f) : ModuleExports(ex, s) = "whole"

(* What one file hands to the files that import it (UnitOutput).           *)
Units ==
    [published : {FALSE}]
    \cup [published : {TRUE}, local : SUBSET Entry, from : SUBSET Entry,
          stars : Seq(SUBSET Entry), complete : {"partial", "whole"},
          ambient  : SUBSET [spec : Specifiers, names : SUBSET Names, whole : BOOLEAN],
          augments : SUBSET [spec : Files, names : SUBSET Names, whole : BOOLEAN],
          umd : SUBSET Globals]

Reports == [missing : SUBSET Diagnostics, reasons : BOOLEAN]

Results == [missing : SUBSET Diagnostics, reasons : BOOLEAN, unit : Units]

NoUnit == [published |-> FALSE]

CrashedUnit ==
    [published |-> TRUE, local |-> {}, from |-> {}, stars |-> <<>>, complete |-> "partial",
     ambient |-> {}, augments |-> {}, umd |-> {}]

(* What the file hands to the files that import it (UnitExports), or       *)
(* nothing when it could not be read.                                      *)
CollectedUnit(p, ex, f) ==
    [published |-> TRUE,
     local     |-> LocalPart(p, f),
     from      |-> FromPart(p, ex, f),
     stars     |-> StarParts(p, ex, f),
     complete  |-> IF ListIsWhole(p, ex, f) THEN "whole" ELSE "partial",
     ambient   |-> p.ambient[f],
     augments  |-> p.augments[f],
     umd       |-> p.umd[f]]

Collect(p, ex, f) ==
    CASE p.fault[f] = "unreadable"          -> NoUnit
      [] p.fault[f] \in {"crash", "keyless"} -> CrashedUnit
      [] OTHER                              -> CollectedUnit(p, ex, f)

UnitEntries(u) == u.local \cup u.from \cup UNION {u.stars[i] : i \in DOMAIN u.stars}

(* Whether the file's own report gives a reason for a partial list         *)
(* (all_reasons): a list that was never collected gives none.              *)
GivesReasons(p, ex, f) ==
    CASE p.fault[f] \in {"unreadable", "keyless"} -> FALSE
      [] p.fault[f] = "crash" -> TRUE
      [] OTHER -> ~ ListIsWhole(p, ex, f) \/ \E b \in p.ambient[f] \cup p.augments[f] : ~ b.whole

(* What a file's check comes to: the start of it binds the imports, the    *)
(* end of it collects the exports.                                         *)
UnitResult(p, ex, f, bound) ==
    [missing |-> bound, reasons |-> GivesReasons(p, ex, f), unit |-> Collect(p, ex, f)]

(* One file's whole check against one snapshot.                            *)
CheckFile(p, ex, f) == UnitResult(p, ex, f, BindDiagnostics(p, ex, f))

(* What of it the project report keeps.                                    *)
FileReport(r) == [missing |-> r.missing, reasons |-> r.reasons]

-----------------------------------------------------------------------------
(* ProjectExports::add for every file of res, in any order: the tables of  *)
(* a file are replaced, ambient modules and augmentations accumulate.      *)

Published(res) == {f \in DOMAIN res : res[f].unit.published}

Blocks(res, s) ==
    UNION {{[owner |-> f, block |-> b] :
                b \in {x \in res[f].unit.ambient \cup res[f].unit.augments : x.spec = s}} :
           f \in Published(res)}

AddBlocks(ex, res, s) ==
    LET blocks == Blocks(res, s)
        old    == ex.extra[s]
    IN  IF blocks = {} THEN old
        ELSE [entries |-> old.entries \cup
                  UNION {{[name |-> n, key |-> <<b.owner, s, n>>] : n \in b.block.names} : b \in blocks},
              state   |-> IF old.state # "partial" /\ \A b \in blocks : b.block.whole
                          THEN "whole" ELSE "partial"]

AddAll(ex, res) ==
    LET new == Published(res)
    IN  [names    |-> [f \in Files |-> IF f \in new THEN UnitEntries(res[f].unit) ELSE ex.names[f]],
         complete |-> [f \in Files |-> IF f \in new THEN res[f].unit.complete ELSE ex.complete[f]],
         extra    |-> [s \in Sources |-> AddBlocks(ex, res, s)],
         umd      |-> [f \in Files |-> IF f \in new THEN res[f].unit.umd ELSE ex.umd[f]],
         bareReportable |-> ex.bareReportable]

(* What settle_cycle compares two passes by (fingerprint).                 *)
Fingerprint(res, members) ==
    [f \in Published(res) \cap members |->
        [complete |-> res[f].unit.complete, local |-> res[f].unit.local,
         from |-> res[f].unit.from, stars |-> res[f].unit.stars]]

-----------------------------------------------------------------------------
(* The module graph's dependency edges, cycles and layers.                 *)

Dependencies(p, f) ==
    (RequestedSources(p, f) \cup {a.spec : a \in p.augments[f]}) \cap Files

DependencyGraph(p) == [f \in Files |-> Dependencies(p, f)]

InCycle(p) == OnCycle(DependencyGraph(p))

GraphLayers(p) == LayersOf(DependencyGraph(p))
=============================================================================
