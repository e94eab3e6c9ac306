------------------------------ MODULE ModuleGraph ------------------------------
(***************************************************************************)
(* How the files of a project are found: ModuleGraph::build of             *)
(* src/src/module_resolution/graph.rs with the scan of discovery.rs and    *)
(* the fallbacks of resolver.rs, while the files may be edited.            *)
(*                                                                         *)
(* A path is a number, its place in path order.  The files interned so far *)
(* are a sequence of paths and an id is a place in it; the graph that is   *)
(* published is numbered anew.                                             *)
(***************************************************************************)
EXTENDS Digraphs, Sequences

CONSTANTS
    Paths,       \* the files there may be, positive numbers
    Scannable,   \* those with module syntax: .ts, .js and the like
    JavaScript,  \* those of them that are JavaScript
    Specifiers,  \* what a request may name
    Runtime,     \* Runtime[path][specifier]: the library's resolve_file
    Declared,    \* the same of its resolve_dts
    TypesOf,     \* the "@types" specifier of each package specifier
    Entries,     \* the entry lists a build may be given
    Disks,       \* the states of the disk it may start from
    Edits,       \* Edits[path]: what an edit may leave in a file
    MaxEdits     \* how many edits there are

NoFile == 0

ASSUME PathsAssumption == Paths \subseteq Nat \ {NoFile} /\ IsFiniteSet(Paths)

ASSUME ResolverAssumption ==
    /\ Runtime \in [Paths -> [Specifiers -> Paths \cup {NoFile}]]
    /\ Declared \in [Paths -> [Specifiers -> Paths \cup {NoFile}]]
    /\ TypesOf \in [DOMAIN TypesOf -> Specifiers]

(* What a file holds: its requests, each a form and a specifier with the   *)
(* place of the statement, whether it exports anything, and how it parses. *)
(* Two statements never start at one place.                                *)
Forms == {"import", "importType", "bare", "reExport", "reExportType",
          "importEquals", "importEqualsType", "dynamic", "block"}

IsContent(content) ==
    /\ content.exports \in BOOLEAN
    /\ content.parse \in {"whole", "recovered", "fatal"}
    /\ IsFiniteSet(content.requests)
    /\ \A r \in content.requests :
          r.form \in Forms /\ r.specifier \in Specifiers /\ r.place \in Nat
    /\ \A q, r \in content.requests : q.place = r.place => q = r

VARIABLES
    disk,     \* disk[path]: its content and its modification stamp, or Absent
    edits,    \* how many edits there have been
    entries,  \* the entries the build was given
    files,    \* files: the paths interned, in the order they were found
    edges,    \* edges: those of the first files, by id
    states,   \* states: what each of these was when it was read, and syntax_errors
    reading,  \* the file being visited: its stamp, then its content as well
    graph     \* what build returns

vars == <<disk, edits, entries, files, edges, states, reading, graph>>

Absent  == [stamp |-> 0]
Nothing == [step |-> "none"]

(* A stamp is the number of a write; those before the build are all 1.     *)
Written(stamp, content) == [stamp |-> stamp, content |-> content]

ASSUME ContentsAssumption ==
    /\ \A start \in Disks :
          /\ DOMAIN start = Paths
          /\ \A path \in Paths :
                \/ start[path] = Absent
                \/ start[path] = Written(1, start[path].content) /\ IsContent(start[path].content)
    /\ \A path \in Paths : \A content \in Edits[path] : content = Absent \/ IsContent(content)
    /\ \A list \in Entries : list \in Seq(Paths)
    /\ MaxEdits \in Nat

-----------------------------------------------------------------------------
(* scan_module_requests                                                    *)

(* A dynamic import does not make a file a module, nor does a block.       *)
IsExternalModule(content) ==
    content.exports \/ \E r \in content.requests : r.form \notin {"dynamic", "block"}

(* A block of a script provides a module; a module's augments one.         *)
Requested(content) ==
    IF content.parse = "fatal" THEN {}
    ELSE {r \in content.requests : r.form = "block" => IsExternalModule(content)}

(* sort_by_key: an element's place is the number of those with no greater  *)
(* key.                                                                    *)
PlaceOf(S, key, s) == Cardinality({t \in S : key[t] <= key[s]})

InOrder(S, key) == [i \in 1 .. Cardinality(S) |-> CHOOSE s \in S : PlaceOf(S, key, s) = i]

(* The parser keeps its record in a hash map: source order is made.        *)
Scan(content) == InOrder(Requested(content), [r \in Requested(content) |-> r.place])

IsType(r) == r.form \in {"importType", "reExportType", "importEqualsType"}

Kind(r) ==
    CASE r.form \in {"reExport", "reExportType"} -> "ReExport"
      [] r.form = "import" -> "StaticImport"
      [] r.form = "importType" -> "TypeImport"
      [] r.form = "bare" -> "SideEffectImport"
      [] r.form \in {"importEquals", "importEqualsType"} -> "ImportEquals"
      [] r.form = "dynamic" -> "DynamicImport"
      [] r.form = "block" -> "ModuleAugmentation"

(* A package that is JavaScript, or nothing, is looked for under @types.   *)
WithTypes(from, specifier, found) ==
    LET types == IF specifier \in DOMAIN TypesOf
                 THEN Declared[from][TypesOf[specifier]] ELSE NoFile
    IN  IF found \in JavaScript \cup {NoFile} /\ types # NoFile THEN types ELSE found

(* resolve_request: a value falls back to declarations, a type starts      *)
(* there.                                                                  *)
Resolve(from, r) ==
    LET dts == WithTypes(from, r.specifier, Declared[from][r.specifier])
        value == WithTypes(from, r.specifier, Runtime[from][r.specifier])
    IN  IF IsType(r) \/ value = NoFile THEN dts ELSE value

-----------------------------------------------------------------------------
(* build                                                                   *)

Elements(seq) == {seq[i] : i \in DOMAIN seq}

Intern(known, path) ==
    IF path \in Elements(known) \cup {NoFile} THEN known ELSE Append(known, path)

Interned(known, paths) ==
    LET upTo[n \in 0 .. Len(paths)] == IF n = 0 THEN known ELSE Intern(upTo[n - 1], paths[n])
    IN  upTo[Len(paths)]

IdOf(known, path) == CHOOSE id \in DOMAIN known : known[id] = path

Init ==
    /\ disk \in Disks
    /\ edits = 0
    /\ entries \in Entries
    /\ files = Interned(<< >>, entries)
    /\ edges = << >> /\ states = << >>
    /\ reading = Nothing
    /\ graph = Nothing

Building == graph = Nothing

(* The file the walk is at.                                                *)
Here == files[Len(edges) + 1]

Fails ==
    /\ graph' = [step |-> "failed"]
    /\ UNCHANGED <<disk, edits, entries, files, edges, states, reading>>

TakeFingerprint ==
    /\ Building /\ Len(edges) < Len(files) /\ reading = Nothing
    /\ IF disk[Here] = Absent THEN Fails
       ELSE /\ reading' = [step |-> "stamped", stamp |-> disk[Here].stamp]
            /\ UNCHANGED <<disk, edits, entries, files, edges, states, graph>>

Read ==
    /\ Building /\ reading.step = "stamped"
    /\ IF disk[Here] = Absent THEN Fails
       ELSE /\ reading' = [step |-> "read", stamp |-> reading.stamp, content |-> disk[Here].content]
            /\ UNCHANGED <<disk, edits, entries, files, edges, states, graph>>

(* Files the new edges lead to are interned as they come.                  *)
AddEdges(requests) ==
    LET targets == [i \in DOMAIN requests |-> Resolve(Here, requests[i])]
        known == Interned(files, targets)
    IN  /\ files' = known
        /\ edges' = Append(edges, [i \in DOMAIN requests |->
              [specifier |-> requests[i].specifier, kind |-> Kind(requests[i]),
               target |-> IF targets[i] = NoFile THEN NoFile ELSE IdOf(known, targets[i])]])

StateRead(stamp) ==
    [stamp |-> stamp, hash |-> reading.content,
     failed |-> Here \in Scannable /\ reading.content.parse # "whole"]

(* Mistake: the fingerprint is taken after the bytes.                      *)
ScanAndStamp ==
    /\ Building /\ reading.step = "read"
    /\ AddEdges(IF Here \in Scannable THEN Scan(reading.content) ELSE << >>)
    /\ states' = Append(states, StateRead(disk[Here].stamp))
    /\ reading' = Nothing
    /\ UNCHANGED <<disk, edits, entries, graph>>

(* Resolved imports can land on files that have no module syntax.          *)
ScanFile ==
    /\ Building /\ reading.step = "read"
    /\ AddEdges(IF Here \in Scannable THEN Scan(reading.content) ELSE << >>)
    /\ states' = Append(states, StateRead(reading.stamp))
    /\ reading' = Nothing
    /\ UNCHANGED <<disk, edits, entries, graph>>

(* Mistake: the targets of edges keep the ids of discovery.                *)
NotRenumbered ==
    LET order == InOrder(DOMAIN files, files)
    IN  [step   |-> "built",
         files  |-> [n \in DOMAIN order |-> files[order[n]]],
         edges  |-> [n \in DOMAIN order |-> edges[order[n]]],
         states |-> [n \in DOMAIN order |-> states[order[n]]]]

(* The new id of a file is its place among the paths.                      *)
InPathOrder ==
    LET order == InOrder(DOMAIN files, files)
        Renumbered(edge) == [edge EXCEPT !.target = IF @ = NoFile THEN @ ELSE IdOf(order, @)]
    IN  [step   |-> "built",
         files  |-> [n \in DOMAIN order |-> files[order[n]]],
         edges  |-> [n \in DOMAIN order |->
                       [i \in DOMAIN edges[order[n]] |-> Renumbered(edges[order[n]][i])]],
         states |-> [n \in DOMAIN order |-> states[order[n]]]]

Publish ==
    /\ Building /\ Len(edges) = Len(files)
    /\ graph' = InPathOrder
    /\ UNCHANGED <<disk, edits, entries, files, edges, states, reading>>

(* Somebody writes a file, or deletes it.                                  *)
Edit ==
    /\ edits < MaxEdits
    /\ \E path \in Paths : \E content \in Edits[path] :
          disk' = [disk EXCEPT ![path] =
                     IF content = Absent THEN Absent
                     ELSE Written(edits + 2, content)]
    /\ edits' = edits + 1
    /\ UNCHANGED <<entries, files, edges, states, reading, graph>>

Done == ~Building /\ UNCHANGED vars

Build == TakeFingerprint \/ Read \/ ScanFile \/ Publish

Next == Build \/ Edit \/ Done

Spec == Init /\ [][Next]_vars

-----------------------------------------------------------------------------
(* What is asked of the graph.                                             *)

IsBuilt == graph.step = "built"

Ids == DOMAIN graph.files

(* Mistake: what only a type is imported from orders nothing either.       *)
RuntimeDependencies ==
    [n \in Ids |-> {e.target : e \in {x \in Elements(graph.edges[n]) :
                        x.kind \notin {"DynamicImport", "TypeImport"} /\ x.target # NoFile}}]

(* assemble: a dynamic import orders nothing.                              *)
Dependencies ==
    [n \in Ids |-> {e.target : e \in {x \in Elements(graph.edges[n]) :
                                        x.kind # "DynamicImport" /\ x.target # NoFile}}]

(* A file is changed when neither its fingerprint nor its bytes are what   *)
(* was read.                                                               *)
IsUnchanged(n) ==
    LET now == disk[graph.files[n]]
    IN  now # Absent /\ (now.stamp = graph.states[n].stamp \/ now.content = graph.states[n].hash)

ChangedFiles == {n \in Ids : ~IsUnchanged(n)}

(* ImportsOf::target: the first edge of a specifier, whatever its kind.    *)
Target(n, specifier) ==
    LET mentions == {i \in DOMAIN graph.edges[n] : graph.edges[n][i].specifier = specifier}
    IN  IF mentions = {} THEN NoFile
        ELSE graph.edges[n][CHOOSE i \in mentions : \A j \in mentions : i <= j].target

StaticEdges(n) == {e \in Elements(graph.edges[n]) : e.kind # "DynamicImport"}

-----------------------------------------------------------------------------
(* The statements the edges of a file with this content must come from.    *)
Statements(path, content) ==
    IF path \in Scannable THEN Requested(content) ELSE {}

(* The graph follows from what was read and from nothing else: its files   *)
(* are those the entries lead to, in path order, and its edges are their   *)
(* statements, in source order, each leading to the file it resolves to.   *)
(* So neither the order of the entries nor that of discovery shows in it   *)
(* (the renumbering of in_path_order), and a file that lost statements to  *)
(* a parse error is marked.                                                *)
GraphIsWhatWasRead ==
    IsBuilt =>
        LET content == [n \in Ids |-> graph.states[n].hash]
            PathOf(id) == IF id = NoFile THEN NoFile ELSE graph.files[id]
            found == Elements(graph.files)
            leads == [p \in found |->
                        {Resolve(p, r) : r \in Statements(p, content[IdOf(graph.files, p)])} \ {NoFile}]
        IN  /\ \A m, n \in Ids : m < n => graph.files[m] < graph.files[n]
            /\ found = UNION {Reachable(leads)[p] : p \in Elements(entries)}
            /\ \A n \in Ids :
                  LET statements == Statements(graph.files[n], content[n])
                  IN  /\ Len(graph.edges[n]) = Cardinality(statements)
                      /\ \A r \in statements :
                            LET i == Cardinality({q \in statements : q.place <= r.place})
                                edge == graph.edges[n][i]
                            IN  /\ edge.specifier = r.specifier /\ edge.kind = Kind(r)
                                /\ PathOf(edge.target) = Resolve(graph.files[n], r)
                      /\ content[n].parse = "fatal" /\ graph.files[n] \in Scannable => graph.states[n].failed

(* A file is called changed exactly when its edges may no longer be those  *)
(* it would have now: also when it is written between the steps that read  *)
(* it, because the fingerprint is taken before the bytes.                  *)
ChangesAreSeen ==
    IsBuilt =>
        \A n \in Ids :
            n \in ChangedFiles <=>
                \/ disk[graph.files[n]] = Absent
                \/ disk[graph.files[n]].content # graph.states[n].hash

(* A file that is checked for what it exports is checked before the files  *)
(* that read from it, or is on a cycle with them: which file an import     *)
(* reads from is looked up by specifier, and another request of the same   *)
(* specifier may have been found first.                                    *)
ReadsComeFirst ==
    IsBuilt =>
        LET layers == LayersOf(Dependencies)
            component == ComponentOf(Dependencies)
            LayerOf(n) == CHOOSE i \in DOMAIN layers : n \in layers[i]
        IN  \A n \in Ids : \A e \in StaticEdges(n) :
                LET target == Target(n, e.specifier)
                IN  target # NoFile /\ graph.files[target] \in Scannable \ JavaScript =>
                        LayerOf(target) < LayerOf(n) \/ target \in component[n]
=============================================================================
