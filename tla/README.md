# ts-rust: models, checks and proofs

ts-rust is a TypeScript checker written in Rust. It parses with oxc, resolves the
modules of a project, and checks every file with a checker of its own. Its first
promise is in `check_project`'s comment: it "loses an error and never invents one".
This directory holds TLA+ modules translated from the code, TLC configurations that
check them on small instances, and TLAPS proofs about them.

Paths are relative to the repository root; the crate is under `src/`.

## 1. The system's parts

| Part | Source | State | Operations | Hard behaviour |
| --- | --- | --- | --- | --- |
| Project check driver | `src/module_resolution/check.rs` | `ProjectExports` (names, completeness, ambient modules, augmentations, UMD globals), reports, unsettled list | `check_project_bounded`, `settle_members`, `settle_cycle`, `check_files`, `ProjectExports::add` | one batch of files runs on a thread pool; import cycles are rechecked until nothing changes or a bound runs out; everything is done twice |
| Import binding | `src/bridge/imports.rs` | none of its own (reads `ProjectExports` through `ImportsOf`) | `bind_imports` | absent, partial, whole and unknown lists must be told apart |
| Export collection | `src/bridge/exports.rs` | the table being built | `collect_exports`, `collect_ambient`, `collect_in` | star order, shadowing, reasons for a partial list |
| Module graph | `src/module_resolution/graph.rs`, `discovery.rs`, `resolver.rs`, `metadata.rs`, `src/topology.rs` | files, edges, unresolved specifiers, what each file was when it was read | `build`, `in_path_order`, `assemble`, `layers`, `cycles`, `changed_files` | the list grows while it is walked, files are written meanwhile, ids are handed out anew, several edges of one specifier |
| Component search | `src/scc.rs` | explicit stacks | `components`, `layers` | iterative Tarjan |
| Unit and worker | `src/unit.rs`, `src/scratchpad.rs` | a worker's arena, a cancel flag | `Worker::run`, `contained` | panics, cancellation, reuse of the arena |
| Type arena | `src/arena.rs`, `src/types.rs` | types, intern tables, references, caches | `alloc*`, `resolve_ref`, `structurally_equal` | references resolved after they were used, caches of answers about them |
| Subtyping and its cache | `src/subtyping.rs`, `src/semantic/queries.rs` | the relation cache | `is_subtype`, `prepare` | coinductive assumptions |
| Generics and inference | `src/semantic/generics.rs`, `solver.rs` | substitutions, candidates | `instantiate`, `infer` | recursion through references |
| Namespace and annotations | `src/namespace.rs`, `src/type_annotation.rs` | scopes, declarations by state | `insert_*`, `resolve_entry` | declarations resolved on demand, in cycles, with failures |
| Portable declarations | `src/portable.rs`, `src/keys.rs` | importer's pending list | `export_decl`, `import_decl` | bodies that refer to bodies not built yet |
| Stable hashing | `src/stable_hash.rs`, `stable_walk.rs`, `fxhash.rs` | none | `stable_hash` | recursion |
| Calls | `src/bridge/expressions/calls.rs` | none of its own | `check_callable`, `pick_callable_member` | type arguments are given, inferred, defaulted or ambient |
| Narrowing and statements | `src/bridge/narrow.rs`, `src/bridge/statements/control_flow.rs`, `src/bridge/unreachable_code.rs` | the narrow state, the jumps still to be joined | one function per statement form | loops walked until their head settles, jumps through `finally`, closures |
| Other expressions | `src/bridge/**` | the checker's context | one function per syntax form | none across forms |
| Incremental inputs | `src/incremental.rs` | query database | `upsert_source` | equal hashes |
| File table | `src/project.rs` | paths by id | `intern`, `id` | none |
| Diagnostics, display, command line, wasm, library names | `src/diagnostics.rs`, `src/type_display.rs`, `src/bin`, `src/wasm.rs`, ... | tables | formatting, input and output | none a model would find |

How they interact. The command line builds a `ModuleGraph` and calls
`check_project`. The driver asks the graph for layers (via the component search) and
cycles, and hands one batch of files at a time to a rayon pool. Each worker thread owns
a `Worker` with an arena. Checking a file reads it, binds its imports against the shared
`ProjectExports`, checks its statements with the arena, namespace and subtyping parts,
and collects its exports, reading `ProjectExports` again. The tables change only between
batches. There are no messages and nothing is persisted; concurrency is confined to a
batch, and failure to a file that cannot be read or whose check panics.

What makes each part correct, and so what its modules state:

* driver: no invented error, no lost typo, a report that the final tables give, termination,
  independence from the threads;
* component search and graph: components are the classes of mutual reachability, emitted dependencies first;
  layers are the lengths of the longest chains;
* arena: one id per structure; an id's meaning changes only by resolving a reference; no cached answer outlives such a
  change; a type built while declarations were open has, in the end, the values of what was written;
* subtyping: the greatest relation closed under the rules, and inclusion of values;
* calls: what is given is kept, what is inferred serves if anything does, the result is the caller's;
* namespace: a declaration resolves or fails independently of the order of requests;
* narrowing: the value that is read belongs to the type the read was given, on every path;
* portable declarations: what is imported means what it meant in its file, and leaves again as it came.

## 2. The modules

```
Digraphs                 components, cycles and layers of a graph, by definition (no variables)
  UnitExports            what one file reads from and adds to the tables (no variables)
    LayeredCheck         the driver, one batch per step: deterministic once the project is chosen
      ProjectProperties  the promises, against the names modules really export
        MCLayeredCheck     projects for TLC
      ProjectCheck       the driver with its workers: implements LayeredCheck
        MCProjectCheck
  ModuleGraph            how the files are found, numbered and told apart from later ones
    MCModuleGraph        files on disk for TLC
  ComponentOrder         abstract specification of the component search
  Scc                    the search and the layering as loops: implements ComponentOrder
    MCScc
TypeArena                the arena as a value: ids, slots, interning, unions (no variables)
  DeclResolution         declarations resolved on demand: a stack of frames over an arena
    ResolutionProperties what it promises, and what its comments say
      MCResolution       programs for TLC
  TypeRelations          subtyping, disjointness, empty intersections (no variables)
    TypeValues           the values of a type of the arena, and the types compared by them (no variables)
    Intersections        alloc_intersection (no variables)
      Generics           free parameters, substitution (no variables)
        Annotations      from what is written to a type, generic declarations included (no variables)
          TypeMeaning    the values of what is written, and of a type with recursion bounded (no variables)
          TypeQueries    a file read while questions are asked and remembered
            QueryProperties, MCQueries
          Inference      candidates for type arguments (no variables)
            Calls        the calls of a file
              CallProperties, MCCalls
          Portable       writing declarations out (no variables)
            Importing    a file that imports them
              ImportProperties, MCImporting
  WrittenForms           short names for written types, for the MC modules
Narrowing                types as sets of members, tests, the narrow state (no variables)
  FlowCheck              the walk over statements, and what is reported unreachable (no variables)
    Execution            the program itself, running
      FlowProperties, MCFlow
GraphProofs              about Digraphs: depths and layers of any finite graph, and the lemmas all proofs need
  SettledProofs          about the driver: types, its final tables are a fixed point, its report is the one they give
    PromiseProofs        what it calls missing, what it must, and the driver with its workers
  SccProofs              about the component search and the layering
  RelationProofs         about subtyping, disjointness and structural equality, of any arena and any values
    ResolutionProofs     about the resolution of declarations
  ModuleGraphProofs      about the discovery of files
```

### UnitExports

A project is a record of the statements the export machinery looks at: exported
declarations (`decls`, and `hidden` for those the portable form cannot carry, each an
`IncompleteReason`), named and star re-exports, imports, `declare module` blocks in scripts
and in modules (augmentations), `export as namespace`, uses of UMD globals in value positions; and for each
file its role (checked and reported, dependency declaration, never checked), whether it is
a declaration file and what goes wrong with it (unreadable, a panic, no `ModuleKey`).

Types are abstracted to the `DeclKey` they are published under: file, module, name. That is
enough to tell which declaration an importer gets. It means the module says nothing about the
bodies of declarations, and a recheck whose only effect is on a body is not distinguished.

`ModuleExports`, `ExportEntries`, `ExportAll`, `ExportKeys` and `GlobalMembers` are the reads of
`ImportsOf` and `ProjectExports::global_namespaces`; `BindDiagnostics` is what `bind_imports`
reports; `Collect` is `collect_exports` with its parts in the order the code merges them (own
declarations and named re-exports before stars, an earlier star before a later one) and
`ListIsWhole` the absence of every `IncompleteReason`; `AddAll` is `ProjectExports::add` for
every file of a batch. `Fingerprint` is what `settle_cycle` compares. Cycles and layers are
those of `Digraphs` (mutual reachability and longest chain); that the algorithm of `scc.rs`
computes them is what `Scc` is checked for.

What the model leaves out of these functions: type-only imports and
exports, namespace objects (`import * as`, `export * as`), `export =`, the suggestion in a
diagnostic, and the second of two edges of one specifier.

### LayeredCheck

The state is that of `check_project_bounded`: the tables (`exports`), the reports, the unsettled
list, the layer's results (`done`), and where the driver is (`pass`, `level`, `stage`, `round`).
One step is one call of `check_files` and what the driver does with its results.

| Action | Code |
| --- | --- |
| `PublishProviders` | check.rs 103-116: ambient providers and `bare_reportable` |
| `FinishAcyclicLayer` | 117-147, 158-191: a layer without cycles |
| `EnterSettle`, `GiveUpAtOnce` | `settle_members` up to the first recheck; a bound of 0 allows none |
| `CycleSettles`, `CycleGoesOn`, `CycleRunsOut` | `settle_cycle`: publish the members, recheck, compare |
| inside `PublishLayer` | the next layer, the second pass (154) or the end |

`CycleBounds` holds the values of `max_cycle_rounds`: `NoBound` for `None`.

### ProjectCheck

`BindImports(w, f)` is a worker taking a file of the batch and binding its imports;
`CollectExports(w)` is the later read of the tables, when the file's check is over.
`ConcludeBatch` is the driver after rayon's `collect`: it applies the same operator `Conclude` that
`LayeredCheck` applies to a batch checked in one step. Two reads, not one, because that is
where a racing publication could show.

### ProjectProperties

What a module really exports is said without tables, layers, rounds or completeness.
`ExportStep(p, heard, T, f)` gives the names the statements of `f` export when every file exports what
`T` gives it; names of files the checker does not read, and declarations the portable form cannot carry, count.
`TrueNames` is its least solution. `Justified(p, heard, T)` says that every name of `T` has a statement
as its reason, and allows reasons that go round in a circle: `T` is any post-fixpoint, and the least solution is one
of them. `NeverInvents` is stated against every justified `T`, which is stronger than against `TrueNames` alone
(a file may not even be told that a name is missing whose only reason is a circle of re-exports) and is what the proof
needs. `ReportsTypos` uses `TrueNames`, and is about the modules whose list must come out whole: `Carried(p, settled)` are the
settled files all of whose names reach the tables, by whole steps, from files that publish (no declaration the portable form cannot
carry, no augmentation that is partial or was not heard, stars and re-exported names from modules of the same kind). `Heard` names the
files whose statements the check gets to know: the others are unreadable, crash or are not checked.

### ModuleGraph

A path is a number, its place in path order; an id of discovery is a place in `files`, and `Publish` numbers everything anew, as `in_path_order` does.
A content is a set of requests, each a form of statement and a specifier, with how it parses. Both sorts, of the requests by their start and of the files by
their path, are `InOrder`: an element's place is the number of those whose key is no greater.
The three reads and writes of the loop of `build` are three actions, because a file may be written between them (`Edit`, the environment):

| Action | Code |
| --- | --- |
| `TakeFingerprint`, `Read` | graph.rs 79-94: the stat call, then the bytes; a file that is gone fails the build |
| `ScanFile` | 95-117: the requests in source order, each resolved (`Resolve`) and its target interned; the file's state is recorded |
| `Publish` | 120-175: path order, edges renumbered (`InPathOrder`) |

What the library's resolver answers is given (`Runtime` for `resolve_file`, `Declared` for `resolve_dts`); what the code makes of the two, and of `@types`,
is `WithTypes` and `Resolve`. Every edit gives a new stamp: an edit that keeps the size and the clock's tick is the blind spot metadata.rs:10 owns up to.
Entries are absolute. `Dependencies` is what `assemble` takes from the edges, with the layers and components of `Digraphs`, and `Target` is the lookup
the check uses to find what an import reads from.

### ComponentOrder and Scc

`ComponentOrder` emits components in any order in which each comes after everything it depends on.
`Scc` is `components` with its four loops as actions: `StartRoot`, `Descend` (a dependency not seen before is
pushed on both stacks), `LookAtVisited` and `Finish` (the frame is popped, its parent takes over the low link, a
component may be closed); then `layers`, one component per `PlaceComponent`. The lists of nodes and of dependencies are
sets from which any element is next: every order of the input is covered, and a dependency listed twice changes nothing,
because it has been visited when it comes up again.

### TypeArena and DeclResolution

`TypeArena` is the arena as a record: `types` by id (the ten fixed primitives first), `decls` (the slots of
references, by state), `interned` and `unions`. `Alloc`, `AllocUnion`, `AllocNamed` and `AllocRef` return the new arena
and the id they hand out; `ResolveRef` and `FailRef` are the two writes to a slot. `Get` reads through wrappers and
references as `TypeArena::get` does, and an unfinished or failed reference reads as an empty object.
The code's `interned` and `collided` are one table here: the ids of a digest, in the order of their allocation.
`Digest` is a constant operator, so what the arena does with colliding digests is checked by letting everything collide.

`DeclResolution` is `Namespace::resolve` over a file of interfaces, classes, type literals and aliases. The recursion
of the code is the variable `stack`: a frame is a call of `resolve_entry` with what it has built so far. An entry holds the
declaration's type (`resolved`) and whether an alias is being resolved (`resolving`).

| Action | Code |
| --- | --- |
| `Request`, `AskParent`, `AskPart` | `resolve` of a name without an answer: from outside, from `resolve_class`, from an annotation; `Enter` allocates the reference of an object-shaped declaration or marks an alias |
| `Inherit`, `PassOver` | `resolve_class` copies what the parent reads as, or goes on without it |
| `AnswerPart` | an annotation's part has a type; arrays are allocated |
| `CloseMember` | the end of a member; a written union goes through `alloc_union` |
| `Finish`, `FinishAlias` | `resolve_ref` with the finished object; `alloc_named` for an alias |
| `Fail` | an unsupported or undeclared name, a circular alias, a duplicate member, or a failure further in: `fail_ref`, and the entry is forgotten |

Requests that are answered at once (resolved, or circular from outside) change nothing and are not actions.
`ResolutionProperties` says what a caller is promised. Sound declarations (`IsSound`) are defined by the program
text alone, so `SoundIsResolved` says that the order of requests, and failures before, make no difference to whether
they resolve.

### TypeRelations, Intersections, Generics, Annotations

These modules have no variables: a function of the code that takes the arena is an operator that takes an arena and
gives a new one, and an id. `Rules` is one unfolding of `is_subtype_uncached` in a relation that answers for the parts, so that the
code's walk with its assumptions (`Subtype`) and the largest relation closed under the same rules
can be compared. `AllocIntersection` is `alloc_intersection`: flattening, cancelling, absorbing, distribution over unions up to
`MaxDistribution`. `Rewrite` is the substitution of `generics.rs`: where it cuts a recursive type, what it
keeps for the rest of the walk, and the second pass it gives an object that reaches itself.
`Read` and `Resolve` are `resolve_ts_type` and `resolve_entry` over generic declarations; a state is a record that is passed along, since the
recursion itself (who is asked while whom is open) is what `DeclResolution` has as actions. `Apply` is the
application of a generic declaration with its memory of applications.

### TypeQueries and QueryProperties

`TypeQueries` is a worker that reads file after file. Its state has every table that answers a question twice:

| Variable | Code |
| --- | --- |
| `generation` | `TypeArena::generation` |
| `relations` | `RelationCache`: subtyping and disjointness, with the generation they are answers of |
| `equalities`, `empties`, `mentions` | `equality_cache`, `empty_intersections`, `param_scan` of the arena |

| Action | Code |
| --- | --- |
| `Enter`, `Complete` | `resolve_entry` begins and ends: the reference, then `resolve_ref`, which moves the generation and empties the arena's tables (`Forget`) |
| `Write` | an annotation is read, between any two of the others |
| `Ask` | `is_subtype`, `is_disjoint`, `structurally_equal_cached`, `intersection_reduces_to_never`, `contains_type_param`, with `Prepared` for `prepare` |
| `Clear` | `TypeArena::clear` before the worker's next file |

`TypeMeaning` says which values a type has, twice: `Has` of a type in the arena, `Denotes` of a written type in its
program. `TypeValues` has the step both `Has` and the proofs are made of (`HasNode`), and says which types may be compared by their values (`Comparable`). `QueryProperties` compares the answers with a fresh computation, the arena with what was written, and the relations
with inclusion of values.

### Inference, Calls and CallProperties

`Calls` checks the calls of a file, in any order, over one arena. `ReadCall` is a call expression and `CheckPicked` the rest of `check_callable`, with all they call: the types of
the arguments, the member of an intersection (`PickMember`), the arity (`ArityReport`), what is locked, inferred
(`InferAll`, `Merge`) and defaulted, the bounds, and the arguments against their parameters. An outcome is what is reported, the bindings, the
member and the type of the call. `CallProperties` judges outcomes against types, values and other choices of type arguments.

### Narrowing, FlowCheck and Execution

A type is the set of the members of its union, which is all narrowing looks at. `NarrowCondition` gives what a test says on both sides;
`JoinStates`, `Extend` and the `Forget` operators are those of `narrow.rs`. `CheckStatement` is the walk of `control_flow.rs` over a program:
`RunLoop` with its silent passes (`MaxHeadPasses` is the code's 3), `CheckTry`, `CheckSwitch`, `CheckLabeled`, and the jumps whose states are joined where they
land. Its result is the type of every read, and how often it was reported. `Unreachable` gives the statements reported dead.

`Execution` is the program itself: variables hold values, a test comes out as JavaScript says or, when it is opaque, either way,
loops run as often as they like, anything in a `try` may throw, closures run at any later time. It is not code of the repository but
what the code's claims are about, and is mapped as external.

### Portable and Importing

`Register` and `WrittenOut` are the collection of declarations with their keys and nested signature keys, `Emit` and `StableHash` the two walks over a type,
`Leaving` the closure over what is mentioned. `Importing` has an importer with its references, names and pending list; `written` holds what the
exporting file writes out for every way of spelling its unions and every order of resolving its names, fixed at the start:

| Action | Code |
| --- | --- |
| `Bind` | `import_decl` for an imported name, up to its `drain` |
| `Drain` | one turn of `drain`: the last reference made gets its body (`body_ids`), which may make more |
| `BindParams` | `generic_params` |
| `Use` | an annotation of the importing file |

Keys are names and a hash is the content it is computed over.

## 3. Runs

| Run | Question | Bounds |
| --- | --- | --- |
| `layered` | invented errors, lost typos, stale reports, late globals | 2160 re-export graphs of three files and two names: every combination of own declarations, one that cannot be carried, stars in either order and one renaming re-export, acyclic and cyclic; projects of up to four files with providers, late scripts, augmentations, UMD globals, dependency, opaque, unreadable, crashing and keyless files, rings of three and the oscillating cycle; lists that are settled and partial all the same (a star of a cycle that was given up, an augmentation by a file that crashed); the recheck bound free, 0 and 1 |
| `workers` | does every interleaving implement `LayeredSpec`, and does it end? | two workers; projects of two and three files, rings and the cycle that never settles among them |
| `component_search` | does the iterative search implement the abstract one, and give the layers of the definition? | every graph of three nodes (loops included); a path or ring of four with any two more edges; every order of nodes and edges |
| `resolution` | is every recursion of declarations entered once, built whole, and given one id per content? | 1419 files: every pair of declarations over two names (37 forms each: interfaces, classes with and without parent, aliases, duplicates, unsupported parts) and 50 triples; three requests in any order |
| `queries` | do cached answers stay true, and is subtyping inclusion of values? | six files: lists, mutual recursion, discriminants, intersections, functions, generic declarations; two questions, asked at any moment of the reading; the first file followed by every other on the same worker. No step of the arena looks at what was asked, so the properties of arenas are evaluated before the first question (`Fresh`), where every arena is reached |
| `calls` | given, inferred, defaulted and ambient type arguments, overloads, arity | seven files of three to six calls, in every order |
| `flow` | does the type of a read hold the value read? | about 19 000 combinations of a program and the values of its parameters: every kind of test over every kind of variable, alone, negated and in pairs; every loop, branch and `try` around fourteen bodies; labels, chains through four variables, closures, switches, dead code |
| `imports` | do imported declarations mean the same and leave as they came? | three families (a cycle of declarations, generic ones, functions); two spellings of every union, two to four orders of resolution in the exporting file, at most one declaration missing, every order of importing |
| `module_graph` | is the graph that of what was read, are later changes seen, are files ordered before their readers? | six paths (two source files, a JSON file, a package with JavaScript and declarations, one known under `@types` only); every pair of nine requests in one file, four contents of the other; two lists of entries; one file written or deleted at any moment |
| `claim_*` | one statement of a comment each, violated | see section 6 |

Every content has the same digest in the runs that have an arena (`Collide`), so that no property rests on the absence of collisions.

Why the bounds are enough. Three files hold a cycle of two with an importer outside, a cycle of three, a
diamond and a chain; the projects with four add what is seen only from outside a ring of three. Two names
are what a renaming re-export needs. Two workers race in every way that matters to a property of
one unit and its neighbour; the theorem covers the rest.
`MinCycleRounds` is the code's 4, and the bound of a cycle of three is 4 as well; that longer cycles
get one recheck per member and a spare is in `CycleRoundCap`, and the ring of three shows a name going
all the way round.

The search: on three nodes every shape of component and on four a component closed below another that is still open,
a cross edge into an emitted component (which `on_stack` keeps from lowering a low link: mutant
`LookAtAny`) and a component with two dependencies of different depth (`LastLevel`).

The resolution: two declarations that mention each other in every way show each kind of cycle, and the triples a class between its
parent and a user of both, an alias in the middle, and unions that share a digest with others. Three requests let a
declaration fail, be reached again through another, and be asked for a third time. A fourth name, `D`, is declared nowhere.

The queries: a stale answer needs one question before a reference gets its body and one after it, which is two; a table that survives
the change of file needs a second file. The values are nested as deep as the types of the files can tell apart.

The module graph: one write at any of the moments between fingerprint, bytes and the end of the walk is every race there is with one file, and the properties
compare a file with what was read of that file. A pair of requests is what it takes for two edges of one specifier; the second file leads back to the first, to
itself (as a module's augmentation does) or nowhere.

The flow: what a body assigns reaches a read of the next turn after one walk, through a chain of four variables after
more than three, where the head is given up (`ForgetUnsettled`); each program has at most one statement of a kind that remembers
states inside another.

What the runs show. The second pass is what makes the first three promises true of names no edge orders: without it
(mutant `OnlyForAugmentations`) a script keeps a member of a UMD global as missing. One
recheck too few (`OneRecheck`), or a star that hides its
partial source (`WholeDespiteStars`), each invents an error
or freezes a wrong table. `ReportsTypos` is the other direction: it fails when settled cycles are
treated as partial, so a checker that kept quiet would not pass. A generation that stays where it is (`KeepGeneration`) serves a stale answer; an application
that changed nothing and is remembered all the same (`ApplyAndKeep`) is found again when its declaration is complete and
means something else. A fingerprint taken after the bytes (`ScanAndStamp`) hides a change made between the two, and a graph that lets a type import order nothing
(`RuntimeDependencies`) checks a file before what it reads from. A loop head that is not forgotten when it has not settled (`Unsettled`) reads a type the value left.

What the properties leave out is said where they are stated, and here in one place.

* `MeansWhatIsWritten` and `RelationsAreSound` are about unions, intersections, objects, arrays, literals and applications; a function type has no
  values, `any` and optional discriminants are excluded, and so are applications read while their declaration is open and unions of two
  references that are both pending (the arena merges them: section 6). `RelationsAreSound` asks of types that are structurally equal both ways round that they have
  the same values; one way is not enough, with a duplicated member (section 6).
* `AnswersAreCurrent` covers the three tables of the arena as well as the answers. So the model may let `is_subtype` compute what the code takes from the table of empty
  intersections; which entries the walk adds, beyond that of the type it starts at, is any of those it can reach (`MayMeet`), since the code stops as soon as it knows its answer.
* `GlobalsAreFound` is about the global; its members may be those of the first pass (section 6).
* `InferenceFindsWhatServes` is about signatures whose parameters vary with the arguments: no function-typed parameters, no union with two generic members, no
  literal arguments (inference widens them).
* `ResultIsCallers` excludes signatures with a union that leads back to itself, which `claim_substitution` is about.
* `MeansWhatItMeantThere` does not compare function values; a type literal that is mentioned by name imports as the error type (portable.rs:584), which takes anything.
* `flow` leaves out the forms for which the code's own documentation or its code gives up the promise; section 6 lists them.

Fairness. `FairSpec` of `ProjectCheck` assumes that an idle worker takes a file when one is left, that a unit that was taken ends,
and that the driver continues when its batch is done. The first and third are what rayon's `par_iter` and
`collect` do: the pool's threads run until the iterator is exhausted. The second holds because checking a
file is a finite walk of its tree; a unit that panics ends too (`catch_unwind`).
The bound, and nothing else, ends a cycle that
oscillates; `Terminates` includes one. `LayeredSpec` needs only that the driver goes on, and `FairSccSpec` that the search's loop does.

`Spec` of `DeclResolution` assumes that a resolution that has begun goes on: it is a recursion on one thread. Nothing
is assumed about requests. `RequestsEnd` is what the two marks (a reference for objects, `resolving` for aliases) are for.
`ModuleGraph`, `TypeQueries`, `Calls`, `Importing` and `Execution` have safety properties only and assume no fairness.

`ProjectCheck`, `LayeredCheck`, `ModuleGraph` and `Scc` stutter once finished, so deadlock is checked in their runs. The runs of a file
(`resolution`, `queries`, `calls`, `imports`) and of a program (`flow`) say `CHECK_DEADLOCK FALSE`: a file whose names are resolved, or a program that
has ended, has nothing to do.

## 4. Proofs

Those of the driver are for any finite set of files, any project over them, any recheck bound and any set of workers.

| Theorem | Module | Statement |
| --- | --- | --- |
| `TypeCorrect` | `SettledProofs` | `LayeredSpec => []TypeOK` |
| `TablesSettle` | `SettledProofs` | `LayeredSpec => []TablesAreFixpoint`: checking a settled file once more would publish what the final tables hold |
| `ReportsAreCurrent` | `SettledProofs` | `LayeredSpec => []ReportIsCurrent`: the final report is the one the final tables give |
| `GlobalsFound` | `SettledProofs` | `LayeredSpec => []GlobalsAreFound`, where no ambient provider uses a UMD global itself |
| `ImportsAreTrue` | `PromiseProofs` | `LayeredSpec => []NeverInvents`, with no hypothesis about the projects |
| `TyposReported` | `PromiseProofs` | `LayeredSpec => []ReportsTypos`, for finitely many names |
| `SnapshotTheorem` | `PromiseProofs` | `Spec => []OneSnapshot`: every unit in progress and every finished result is what one check against the tables as they stand gives |
| `TakenOnceTheorem` | `PromiseProofs` | `Spec => []TakenOnce` |
| `PublishedTogetherTheorem` | `PromiseProofs` | `Spec => PublishedTogether` |
| `Deterministic` | `PromiseProofs` | `Spec => LayeredSpec`: the report is that of the sequential check, whatever the threads do |
| `ParallelImportsAreTrue`, `ParallelTyposReported`, `ParallelTablesSettle`, `ParallelReportsAreCurrent` | `PromiseProofs` | the four above, of `Spec` |
| `SearchImplementsOrder` | `SccProofs` | `SccSpec => OrderSpec`, for any finite graphs and any order of nodes and dependencies |
| `LayersAreTheDepths` | `SccProofs` | `SccSpec => []LayersAreDepths`: what the loop of `layers` builds is the layering of the definition |
| `NeverEnteredTwice` | `ResolutionProofs` | `Spec => []NotEnteredTwice`, for any declarations and any number of requests |
| `NothingLeftHalfBuilt` | `ResolutionProofs` | `Spec => []NothingHalfBuilt`, likewise |
| `SoundGetTypes` | `ResolutionProofs` | `Spec => []SoundIsResolved`, whatever was asked and failed before |
| `TypesAreSound` | `ResolutionProofs` | `Spec => []Typed`: every id that is held anywhere is one the arena handed out, for any digests |
| `ContentHasOneId` | `ResolutionProofs` | `Spec => []OneIdPerContent`, for any digests, colliding ones too |
| `MembersGetTheirTypes` | `ResolutionProofs` | `Spec => []MembersNameTheirTypes` |
| `ClassesInherit` | `ResolutionProofs` | `Spec => []InheritsFromOthers`, whatever fails |
| `UnionsStayWhole` | `ResolutionProofs` | `Spec => []UnionsAreWhole`: a written union of names keeps every member, for any digests, where its members can be told apart when it is made |
| `ArenaStaysReadable` | `ResolutionProofs` | `Spec => []IsReadable(arena)`, which is what `SubtypeIsLargest` takes for granted |
| `RelationsStaySound` | `ResolutionProofs` | `Spec => [](SubtypesAreIncluded(arena) /\ DisjointAreApart(arena))`: the next two of the arena at every moment, whatever is unfinished or failed |
| `SubtypesAreSubsets` | `RelationProofs` | of any readable and grounded arena, any values and what parameters stand for within their bounds: what has a type has every type `is_subtype` says it can be used as |
| `DisjointShareNothing` | `RelationProofs` | of the same: no value has two types that `is_disjoint` says are apart |
| `FunctionsSubstitute` | `RelationProofs` | of the same, and argument lists of any length: a function used as another takes what the other takes, and gives back what the other may |
| `SubtypeIsLargest` | `RelationProofs` | of any readable arena: `is_subtype` says of two types what the largest relation says that its rules allow |
| `AnswersOutlive` | `RelationProofs` | of any readable and grounded arena and any that has its types and more: what `is_subtype`, `is_disjoint` and the emptiness of intersections say of the types of the first is the same in both |
| `AnswersGoStaleByBodies` | `ResolutionProofs` | `Spec => [][NoneResolved => AnswersKept]_vars`: these answers change only in a step that gives a reference its body, whatever fails |
| `ReadAndNothingElse` | `ModuleGraphProofs` | `Spec => []GraphIsWhatWasRead`: the files are those the entries lead to by what was read, in path order, with its statements as edges |
| `ChangesSeen` | `ModuleGraphProofs` | `Spec => []ChangesAreSeen`, for any number of edits at any moments |
| `ReadsInLayerOrder` | `ModuleGraphProofs` | `Spec => []ReadsComeFirst`, where the two lookups of a specifier agree |

Each inductive invariant below was checked by TLC on the run of its module before it was proved.

The argument of `TablesSettle` and `ReportsAreCurrent`. `SettledInv` says in what way the driver's state is about its project. `ShapeInv`:
the layers and the members of cycles are those of the dependency graph. `OwnInv` (`OwnTables`): what the tables hold of ambient
blocks and globals is what the files heard so far contribute, which no recheck can change. `HeardInv`: the providers and every
layer passed have been heard. `CurrentInv` is the aim: of a settled file whose layer the second pass has left
(`Final`), the tables hold what one more check gives, and so does the report. `RecheckInv` is its form between two rechecks of a cycle. A file's check reads
the modules it mentions and nothing else (`Agree`, `SameCollect`), these are of earlier layers or of its own cycles
(`LayersOfFiles`, which rests on `GraphProofs`), and tables of earlier layers do not move again; so a batch that publishes later leaves what is final
final. The two exclusions of the properties are needed: files in `unsettled`, and providers, which are checked before
anything is exported and never again.

The hypothesis of `GlobalsFound` is needed too: a provider that uses a UMD global is checked when no global is known. It holds of every project of the run.

The argument of `ImportsAreTrue`. `PromiseInv` adds four parts to `SettledInv`. `NamesInv`: fix any `T` that is justified; once the second pass has left a
file's layer, the file's list, if it is marked whole, holds every name `T` gives its module. This is not a matter of one check: in the first
pass a report may well be wrong about a module that is augmented later, and only the second pass repairs it.
Suppose a layer's lists are whole and one lacks a name of `T`. The name has a reason among the statements of its file:
an own declaration, a block or an augmentation is in the final tables (`OwnTables`), a re-exported name is in the list of its source or the list would not be whole,
and a star passes on what its source lists. So what it lacks is lacked by the source of one of its stars, which is whole as well, in this layer, and
lacks the name too: the files that lack it form a circle of stars whose lists are all whole. `StarInv` says
that there is no such circle (`NoRoundIsWhole`): a list with a star is called whole only when the star's source was whole in the tables before, so of a circle no file can be the first.
Reports follow, as a settled report is the one the final tables give. `ProviderInv` is about the files that are checked once, which import nothing; and a module that a block
declares is found because the second pass sees the blocks of every file. No induction over how `T` came about is needed, and circular reasons come for free.

The argument of `TyposReported`. The list of a carried file is whole and holds exactly its true names: `TrueNames` and `Carried` are recursive functions of a number of
rounds, and each name and each carried file has a least round in which it appears (`LeastNumber`), so a wrong one of the least round would have a cause before it.
What a whole list lacks is in the report of every file that imports it: by `ReportIsCurrent` if the importer is
settled, and by `TypoInv` if it belongs to a cycle that was given up: its report was made when every earlier layer was final, and a carried source of its own layer would be unsettled with it.
The proof found that the property, as it stood, was false: a list of a settled file can be partial because a star's source ran out of rounds, or because an augmentation
was not heard. Two projects that show it are in the run now (`PassedOnProjects`), and `Carried` asks for what the code needs.

The argument of `Deterministic`. The inductive invariant `CheckInv` joins two state properties: a result is right because the
unit's first read was right and the tables did not move since (`OneSnapshot`), and the tables do not move while a unit
is in progress because the driver waits for a batch of distinct files (`TakenOnce`).
Neither is inductive alone. `TakenOnce` and `PublishedTogether` are proved and not run: what a broken one would do shows in `OneSnapshot` and `LayeredSpec`. `ConcludeBatch` then hands `Conclude` exactly `CheckBatch(prj, exports, Batch)`,
which is the step of `LayeredSpec`.

The arguments of the resolution. `IInv` says that the stack's names are distinct and each has an entry that shows it was entered
(`Entered`): with that, a name whose entry shows nothing is on no frame, and `Enter` keeps them distinct. For
`NothingHalfBuilt` one must know that `resolve_ref` and `fail_ref` touch nobody else's slot: `OwnReferences`
says that two declarations never share one. That holds because `alloc` and its siblings only append to `types` and
leave `decls` alone (`Keeps`, proved for each), and a slot is made for one declaration by `AllocRef`. `MoveOn`, `EnterIInv` and
`LeaveIInv` are the three shapes of a step: the innermost frame moves, one is pushed, one is popped.

For `SoundGetTypes` one must know why a resolution fails (`SInv`). A frame that was not entered as a parent was mentioned by the one below, so along such frames a
name is reached from the lower ones through mentions (`Paths`), and whatever is reached from a sound declaration is sound; what fails is then unsound itself, unless
a class below was looking for its parent, which is where a failure stops (`FailsForAReason`). An answered request for a sound
declaration has left its type behind (`Answered`).

`TInv` is what makes the arena a table of types. `IsTyped`: every id in a node is one of the arena's, a wrapper is younger than what it wraps and a body is an object, so `Get`
ends (`GroundedIn`); every object and array is found in the list of its digest, and equal ones have one id (`InternedIn`), which is `ContentHasOneId`. It is kept by each of the four
allocations, which hand out an id that is there or one more (`HasOneMore`, `Grown`), and by the two writes to a slot, since what is on the stack has no body yet (`Unfinished`).
`NamedTypes` adds, as long as nothing failed, that the member that decides a property has the type of what it mentions, collected so far or in the body.

`ClassesInherit` holds with failures. `HInv` follows what asks for what: every frame asks, along the graph of parents and mentions, its way to those above it (`Asks`), so a sound parent that is found on the stack, or that fails though it is
sound, leads back to the child, and that is the case the property excludes (`Exempt`, `FailsBelow`). Otherwise the child copies what
the parent's body has (`Inherited`), and a body that is there never changes.

The argument of `SubtypeIsLargest`. `Subtype` is a recursive function of the pairs assumed on the way (the `PairStack`), and of a pair. What the rules give from a relation
grows with the relation (`FunctionsMonotone` to `NodesMonotone`: functions ask for their parameters the other way round, but no rule asks that a pair be
unrelated), so there is a largest relation they allow (`Largest`, `LargestFacts`). Assuming a pair for the sake of its own proof adds nothing
to it (`AssumedForItself`), and so a walk that assumes what it is asked finds, under any assumptions, what is largest with them
(`WalkFinds`): of the sets of assumptions of which it does not, take one that leaves the fewest pairs out; one more pair leaves fewer. An arena has finitely many pairs, and that the
function exists at all is shown by giving it: it is the largest relation, for each set of assumptions. So no order in which the parts
are looked at changes an answer, and an answer found under assumptions that are dropped later is nevertheless the answer.

The argument of `SubtypesAreSubsets`. Which values the types have is any relation `has` that `HasNode` unfolds to, of any set of values whose parts are less deep (`AreValues`,
`Means`); that there is one, whatever the parameters stand for, is `MeaningExists`. By `SubtypeIsLargest` a true answer unfolds once into answers about the parts (`SubtypeUnfolds`),
and no assumption of the walk is left in them. Suppose a value has a type and lacks one the type can be used as: take a least deep one. A step into an array or an object goes to a part of the value, where the claim
holds. A step into a union, an intersection or the bound of a parameter stays at the value, but opens a type that is made before what it opens to (`IsGrounded`, which the arena of `DeclResolution` keeps, and
`queries` checks of every other), so the sum of the two heights (`Height`) goes down: `SubtypeStep`, `PassedOnStep`. Of an intersection that `is_subtype` calls empty one has to know that it has no value (`ClashIsEmpty`), which rests on
`DisjointShareNothing`, itself by the least sum of heights.
Every conjunct of `Comparable` is needed and names a choice of the code: `any` and `error` go with everything; functions have no values here (`FunctionsSubstitute` is about them); a target with an optional property takes a source that lacks it
and whose values may have anything there; a clash of optional discriminants makes an intersection empty that has values without them; and an intersection of no object fits `{}`.

The argument of `FunctionsSubstitute`. The code compares the positions of both parameter lists, the longer one's too, and asks nothing of the positions after them. There both are past their last parameter, so each is without a
parameter or repeats its rest parameter, and that has been compared (`PastTheLast`). So every argument goes over, by `SubtypesAreSubsets` in the other direction, and what one list requires is no more than what the other does.

The argument of `AnswersOutlive`. A rule reads only the types it is asked about and what they mention, and those are in the first arena and read alike in the second (`RulesOutlive`). So the largest relation of the first is closed under the rules
of the second, and that of the second, kept to the types of the first, under the rules of the first; by `SubtypeIsLargest` the answers agree. Disjointness follows by the least sum of heights (`DisjointOutlives`), the emptiness of an
intersection from it (`ClashOutlives`). For `AnswersGoStaleByBodies`, `StepTouches` goes through every step of `DeclResolution`: the types stay, new ones come, and a declaration that has its body keeps it. An unfinished declaration and a failed one read alike, as
an empty object, so a failure changes nothing that is read (`ReadsKept`). That is why `resolve_ref` is the only place that has to move the generation, and why interning a type or giving up a declaration need not.

The argument of `UnionsStayWhole`. `structurally_equal` walks in the same way but in one direction of a pair only, and need not be symmetric; all the proof takes from it
is that the walk unfolds (`EqualUnfolds`), so that equal types are the same or of one kind (`EqualFacts`). `alloc_union` flattens (`FlattenSeqUnfolds`, `FlattenedHolds`: every id
that comes out is one that went in or a member of a union that did, and conversely), drops what is
equal to something kept (`DistinctHolds`) and what is `never`, and interns the rest by digest: the id it gives back is of a union with these members whatever else has the
digest (`AllocUnionGives`). A union never has a union as a member, as a part that is pending is an object and is none later (`WholeStays`); so one level of flattening is all there is. The members a
written union would lose are those that read alike at the moment it is made: two declarations that are both unfinished are equal empty objects then. `ToldApart` of the property excludes exactly
that, for the members that mention declarations, and section 6 lists it.

The argument of `SearchImplementsOrder`. `SearchInv` joins both stacks to the graph: a node in progress reaches whatever was
seen after it (`FramesReach`); a low link is the number of a node on the stack that can be reached, and of an older one once
the frame is closed (`LowIsReached`); it is not above the number of anything on the stack that was looked at
(`LowSeesLookedAt`); and a frame knows the low links of what was finished above it (`FramesKnow`), which is why a parent must
take over its child's. When the top frame's low link is its own number, the nodes from there on up (`Younger`)
and what has been emitted depend on nothing else, every one of them reaches the top node (by the least number of one that would not), and so
they are its component (`Closing`). `Reachable` is defined by closed sets, not by counting steps, so that no induction is needed.

For `LayersAreTheDepths`, `PlacedInv` says of each component placed so far that its depth is that of the definition, a recursive function of a number of rounds which
`GraphProofs` shows to be one more than the highest of what is below (`DepthFacts`). A component's dependencies were emitted, and so placed, before it,
which is `FoundInv`, a consequence of the refinement.

The argument of `ReadAndNothingElse` and `ChangesSeen`. `GraphInv` joins the walk to what it has read, whatever was written since. `Remembers`: no stamp is younger
than the edits so far, and a file that still bears the stamp it had before it was read holds what was read; an edit gives a stamp nobody remembers, so none of this is
lost (`EditRemembers`). It does not hold of a stamp taken after the bytes. `StatesInv`: the edges of each file walked are its statements in order, with ids of what they resolve to in a table that only
grows (`EdgesStay`). `FoundInv` says that every file is there because an entry leads to it, in the form that needs no counting: the files are in
every set that has the entries and what its members lead to. When the walk is done, the files are themselves such a set, hence the set that is reached. `InternedFacts` is about the loop that interns, a
recursive function of the number of targets. `OrderFacts` is about the sort: the places of a finite set with distinct keys are those from 1
to its number of elements, each taken once, by `PlaceFacts`; `PublishedFacts` carries files, states and edges over to the new numbers.

For `ReadsInLayerOrder`: the file an import reads from is looked up by specifier, and the edge that answers may be a dynamic import's, which orders nothing. Both
edges lead to one file if both resolve alike (`SameLookup`), and then the file is a dependency (`TargetIsDependency`) and `LayerFacts` of
`GraphProofs` applies. The hypothesis `LookupsAgree` says that where a specifier names a source file as a value it names the same one as a type. The run's resolver satisfies it. It is needed: it fails for a package that has
JavaScript, declarations beside it and an `@types` package as well, and then a file that imports the package dynamically first and its types later may be checked before the
file it reads the types from, when that one has imports of its own; TLC shows it when such a package is added to the run.

Assumptions: `ConstantsAssumption` (what the kinds of names have to do with each other), `BoundAssumption` (bounds are numbers or
`NoBound`), `ProjectsAssumption` (projects are records of the stated type) and
`GraphsAssumption` (graphs are finite and their dependencies are nodes); of `UnitExports`, `FilesAssumption` (there are finitely many files), and for
`TyposReported` `NamesAssumption` (and names); of `DeclResolution`, `ProgramsAssumption` and `NamesAssumption` (programs are
what the parser gives, and no name is a keyword); of `ModuleGraph`, `PathsAssumption` (there are finitely many files), `ResolverAssumption` (what the library
answers is a file or nothing) and `ContentsAssumption` (a file has finitely many statements, no two at one place, and what was written before the build bears its stamps). TLC evaluates them in every run of these
modules. `GraphProofs` also proves that a nonempty set of numbers has a least element in the form the others cite
(`LeastNumber`), from the library's well-founded minimum; where one would count in a proof on paper, these take the least counterexample.

Only model-checked: the liveness properties (`Terminates`, `SearchEnds`, `RequestsEnd`), which the prover does not do; `GlobalsAreFound` with providers that use globals themselves
(it does not hold there); `ReadsComeFirst` without its hypothesis (likewise); and what is in `queries`, `calls`, `flow` and `imports`: types, programs and what is written are trees, their modules recurse over
them, and the prover has no induction over data. Of `queries`, what three of the five properties say of the relations themselves is proved, in a form that needs no tree: `SubtypeIsLargest` for `SubtypeIsGreatest`, `SubtypesAreSubsets` and `DisjointShareNothing` for
`RelationsAreSound`, `FunctionsSubstitute` for `FunctionsSubstitutable`. Of `AnswersAreCurrent`, `AnswersGoStaleByBodies` says for subtyping, disjointness and empty intersections which steps can make a remembered answer wrong; that the tables are emptied in each of them,
and what is remembered of structural equality and of the parameters a type mentions, is left to the run. What the runs add is that the arenas that arise from written types, generic ones too, satisfy the hypotheses. The claims are counterexamples and need no proof.

## 5. Not modelled, and why

`PROJECT.json` lists every part with its status.

* Of the type system: enums, namespace objects and nested scopes, `typeof` queries, merged interfaces, contextual typing of function expressions,
  excess properties, and the "untyped" functions of JavaScript files.
* Of the statements: class bodies, declarations and the pass that hoists them. The control-flow graph that `unreachable_code.rs`
  reads is a library's; what is modelled is how the code uses it (nothing follows a jump in its list).
* In `Narrowing`: types have no aliases and no identity, paths have one step, an object is a value (two names never share one), and closures write nothing.
* Of portable declarations: parameter names, enums, namespaces, several imports merged under one name, re-exports by a file that only passes on.
  An application of a declared generic has no key, so a declaration that mentions one is not given out; the model has that as the code does.
* Of ambient modules: a `declare module` of a name that a file of the project answers too (`ModuleExports` has one or the other, or an augmentation).
* Of the module graph: module and cycle keys, the petgraph view (`topology`), and the library that resolves a specifier.
* Of the driver: cancellation has no caller in the project check.
* Incremental inputs are one query over one input, and the engine that decides what to recompute is a library.
* Diagnostics, display, the command line, the wasm bindings and the generated table of library names are wording, input and output.

The text of a file is fixed in the runs of the check (`module_graph` lets it change under discovery): the code reads it again at each check and would mix two versions if it
were edited meanwhile, and promises nothing about that.

## 6. Where the code and its comments differ

Each of these is a run with one property that TLC violates; `PROJECT.json` quotes the lines.

* `claim_inherited_members`: a class asked for by its own parent's members inherits nothing, because the parent reads as
  empty while it is being resolved. `InheritsFromOthers` is the part that holds.
* `claim_substitution`: a recursive generic type entered through a union keeps the callee's type parameter in the result of a call.
  `ResultIsCallers` is the part that holds.
* `claim_imported_union`: an imported alias of a union of two interfaces keeps one of them, because both are pending and read as equal empty objects.

Known limits met while translating, without a run:

* a file that requests one package for a value and for a type reads both from the target of the first request, a JavaScript file if that was the
  value's (check.rs:691, against 671 and graph.rs:419). `ReadsComeFirst` is the part that holds: whatever the lookup answers was checked before,
  unless the package has declarations of its own beside its JavaScript and an `@types` package too, and is imported dynamically first (section 4);
* an assignment in the init of a `for` is neither checked nor seen by the narrowing, so in `for (x = null; ...)` the body reads `x` at a type its value does not
  have (control_flow.rs:227, against narrow.rs:1451). The programs of `flow` have none;
* two declarations that are both being resolved are equal empty objects to `alloc_union`, which drops one (arena.rs:413).
  `UnionsAreWhole` is the part that holds, and its hypothesis `ToldApart` is this limit: what is kept is decided by bodies that are not there yet;
* `structurally_equal` is not symmetric of duplicated members (arena.rs:1049-1051 looks for a match of every member of one side), while
  `structurally_equal_cached`, which nothing but tests calls, files an answer under the unordered pair (arena.rs:950). Two declarations that are both being resolved are such members: their intersection equals any of as many members
  that has an empty object among them;
* `intersection_satisfies_object` takes any intersection for an object type without required properties, one of parameters alone too (subtyping.rs:261):
  `T & U` fits `{}` whatever `T` and `U` stand for;
* a declaration finished on the way keeps the reference of one that then fails, and reads it as an
  empty object from then on (namespace.rs:1108, against arena.rs:41);
* a script of an early layer of the second pass is checked against the members a UMD module had in the first pass, and is not
  rechecked when a cycle that ran out of rounds lengthens the list (check.rs:161);
* what a crashed file declares in an ambient block may be called missing (unit.rs:277);
* an exported declaration the portable form cannot carry does not shadow a star (exports.rs:1158);
* a cycle that ran out of rounds in the first pass and settled in the second stays in `unsettled` (check.rs:99 is
  before the loop over the passes, 44 says what the list means);
* every project is checked twice, not only those with UMD globals, because the map that is tested (check.rs:152-154) has
  an entry for every published file;
* an ordinary project can run out of rounds: renamed re-exports can carry a name round a cycle more often
  than the bound allows (against check.rs:91);
* a `declare module` pattern in a script that is no declaration file comes after `bare_reportable` was settled
  (check.rs:116, against the comment at 199);
* `type Json = Obj | number; type Obj = { a: Json }`: asked for as `Json` it is circular, asked for as `Obj` it resolves
  (namespace.rs:1030). `Json` is an alias on a cycle, so `IsSound` does not call it sound;
* narrowing forgets what the test of a `do` loop assigns, and what the right operand of `&&` and `||` or an arm of `?:` assigns; a closure in a loop keeps the
  narrowing of a variable that is assigned only textually before it; a `break` in a `try` is recorded before `finally` writes; writes in the bodies
  of a switch, and falling from one body into the next, are not followed (the documentation says so: docs/architecture/narrowing.md). The programs of
  `flow` have none of these forms.

## 7. Plan

Proofs about the narrowing of `flow`, where types are sets of members. Then enums, namespaces and merged imports in `Portable`,
a worker whose unit is cancelled, contextual typing.
