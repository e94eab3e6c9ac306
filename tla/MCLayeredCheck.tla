--------------------------- MODULE MCLayeredCheck ---------------------------
(***************************************************************************)
(* Small projects for LayeredCheck: every way a few files can re-export,   *)
(* import, augment and globally expose a few names.                        *)
(***************************************************************************)
EXTENDS ProjectProperties, TLC

CONSTANTS a, b, c, d, \* files
          x, y, z,   \* names
          pkg, lib,  \* package specifiers
          rel,       \* a relative specifier no file answers
          fs,        \* a Node built-in
          css,       \* a pattern
          G          \* a UMD global

Usual  == {NoBound}
Forced == {0, 1}

(* A file with no statements.                                              *)
Blank == [decls |-> {}, hidden |-> {}, froms |-> {}, stars |-> <<>>, imports |-> {},
          augments |-> {}, ambient |-> {}, umd |-> {}, uses |-> {},
          role |-> "source", dts |-> FALSE, fault |-> "none"]

FromFiles(listed, hiddenBare) ==
    LET s == [f \in Files |-> IF f \in DOMAIN listed THEN listed[f] ELSE Blank]
    IN  [decls    |-> [f \in Files |-> s[f].decls],
         hidden   |-> [f \in Files |-> s[f].hidden],
         froms    |-> [f \in Files |-> s[f].froms],
         stars    |-> [f \in Files |-> s[f].stars],
         imports  |-> [f \in Files |-> s[f].imports],
         ambient  |-> [f \in Files |-> s[f].ambient],
         augments |-> [f \in Files |-> s[f].augments],
         umd      |-> [f \in Files |-> s[f].umd],
         uses     |-> [f \in Files |-> s[f].uses],
         role     |-> [f \in Files |-> s[f].role],
         dts      |-> [f \in Files |-> s[f].dts],
         fault    |-> [f \in Files |-> s[f].fault],
         bareHidden |-> hiddenBare]

Three(s, t, u, hiddenBare) == FromFiles((a :> s) @@ (b :> t) @@ (c :> u), hiddenBare)

From(s, n, m) == [src |-> s, name |-> n, as |-> m]
Import(s, n)  == [src |-> s, name |-> n]
Block(s, ns, w) == [spec |-> s, names |-> ns, whole |-> w]

Declaring(ns)  == [Blank EXCEPT !.decls = ns]
Importing(s, n) == [Blank EXCEPT !.imports = {Import(s, n)}]
Starring(ss)   == [Blank EXCEPT !.stars = ss]
Script(bs)     == [Blank EXCEPT !.ambient = bs]
Provider(bs)   == [Script(bs) EXCEPT !.dts = TRUE]
Augmenting(s, ns, w) == [Blank EXCEPT !.augments = {Block(s, ns, w)}]

-----------------------------------------------------------------------------
(* Re-export graphs: a imports from b; b and c re-export from each other   *)
(* and from a, whole or by name, keeping or changing the name.             *)

FromChoices(f, from, to) ==
    {{}} \cup {{From(g, from, to)} : g \in {a, b, c} \ {f}}

GraphProjects ==
    {Three([Importing(b, n) EXCEPT !.decls = {x}],
           [Blank EXCEPT !.decls = own, !.stars = s, !.froms = r],
           [Blank EXCEPT !.decls = kept, !.hidden = hid, !.stars = t, !.froms = q], TRUE) :
        n \in {x, y}, own \in {{}, {x}}, kept \in {{}, {x}}, hid \in {{}, {x}},
        s \in {<<>>, <<a>>, <<c>>}, t \in {<<>>, <<a>>, <<b>>, <<a, b>>, <<b, a>>},
        r \in FromChoices(b, x, y), q \in FromChoices(c, y, x)}

(* Cycles of three, and the cycle of two whose members take x from each    *)
(* other before they take it from a declaration of their own: it never     *)
(* settles.                                                                *)
RingProjects ==
    {Three([Starring(<<b>>) EXCEPT !.decls = own], Starring(<<c>>), t, TRUE) :
        own \in {{x}, {x, y}}, t \in {Starring(<<a>>), [Starring(<<a>>) EXCEPT !.hidden = {x}],
                                    [Starring(<<a>>) EXCEPT !.imports = {Import(b, y)}]}}

Oscillating ==
    Three(Starring(<<b, pkg>>), Starring(<<a, lib>>),
          Provider({Block(pkg, {x}, TRUE), Block(lib, {x}, TRUE)}), TRUE)

-----------------------------------------------------------------------------
(* Specifiers that no file answers, and the blocks that may answer them:   *)
(* in a provider, in a script checked with everybody else, in a file that  *)
(* cannot be read or that crashes.                                         *)

AmbientProjects ==
    {Three(s, t, u, h) :
        s \in {Importing(pkg, x), Importing(rel, x), Importing(fs, x),
               [Starring(<<pkg>>) EXCEPT !.froms = {From(lib, x, y)}]},
        t \in {Blank, Provider({Block(pkg, {x}, TRUE)}), Provider({Block(pkg, {y}, FALSE)}),
               [Provider({Block(pkg, {x}, TRUE)}) EXCEPT !.fault = "unreadable"],
               [Provider({Block(pkg, {x}, TRUE)}) EXCEPT !.fault = "crash"],
               [Provider({Block(pkg, {x}, TRUE)}) EXCEPT !.role = "dependency"],
               Provider({Block(css, {Default}, TRUE)})},
        u \in {Importing(a, x), Script({Block(pkg, {y}, TRUE)}),
               [Starring(<<a>>) EXCEPT !.imports = {Import(a, y)}]},
        h \in BOOLEAN}

(* A module, another that augments it, and one that reads both.            *)
AugmentProjects ==
    {Three(s, t, u, TRUE) :
        s \in {Declaring({x}), [Declaring({x}) EXCEPT !.hidden = {y}],
               [Declaring({x}) EXCEPT !.role = "opaque"],
               [Declaring({x}) EXCEPT !.role = "dependency", !.fault = "keyless"],
               [Declaring({x}) EXCEPT !.fault = "unreadable"],
               [Declaring({x}) EXCEPT !.fault = "crash"]},
        t \in {Augmenting(a, {y}, TRUE), Augmenting(a, {y}, FALSE),
               [Augmenting(a, {y}, TRUE) EXCEPT !.fault = "crash"],
               [Augmenting(a, {y}, TRUE) EXCEPT !.stars = <<c>>], Importing(a, y)},
        u \in {Importing(a, y), [Starring(<<a>>) EXCEPT !.imports = {Import(b, x)}],
               Starring(<<b, a>>), Importing(a, Default)}}

(* A module that is a global in scripts, and what it re-exports.           *)
UmdProjects ==
    {Three([Starring(<<b>>) EXCEPT !.umd = {G}], s, t, TRUE) :
        s \in {Declaring({x}), [Declaring({x}) EXCEPT !.hidden = {y}], Starring(<<a>>),
               [Augmenting(a, {y}, TRUE) EXCEPT !.decls = {x}]},
        t \in {[Blank EXCEPT !.uses = {[ns |-> G, name |-> n] : n \in {x, y}}],
               [Importing(a, x) EXCEPT !.uses = {[ns |-> G, name |-> x]}],
               Augmenting(b, {y}, TRUE)}}

(* A list that is partial although its module is sound: what it passes on  *)
(* is on a cycle that may be given up, or is augmented by a file that      *)
(* crashes.                                                                *)
PassedOnProjects ==
    {FromFiles((a :> [Importing(b, x) EXCEPT !.decls = {x}])
               @@ (b :> [Importing(a, x) EXCEPT !.decls = {x}])
               @@ (c :> Starring(<<a>>)) @@ (d :> Importing(c, y)), TRUE),
     FromFiles((a :> Declaring({x}))
               @@ (b :> [Augmenting(a, {y}, TRUE) EXCEPT !.fault = "crash"])
               @@ (c :> [Blank EXCEPT !.froms = {From(a, y, y)}]) @@ (d :> Importing(c, x)), TRUE)}

OtherProjects ==
    AmbientProjects \cup AugmentProjects \cup UmdProjects \cup RingProjects
    \cup PassedOnProjects \cup {Oscillating}

(* A cycle of a and b re-exports c, which d augments after the cycle was   *)
(* first published; d imports what it added, through the cycle.            *)
LateAugmentation ==
    {FromFiles((a :> Starring(<<b>>)) @@ (c :> Declaring({x}))
               @@ (b :> [Starring(<<c>>) EXCEPT !.imports = {Import(a, x)}])
               @@ (d :> [Augmenting(c, {n}, w) EXCEPT !.imports = {Import(a, y)}]), TRUE) :
        n \in {x, y}, w \in BOOLEAN}

(* Cycles, for a forced bound.                                             *)
CycleProjects == {Oscillating} \cup RingProjects \cup LateAugmentation \cup
    {p \in GraphProjects : p.stars[b] # <<>> /\ p.stars[c] # <<>> /\ p.froms[c] # {}}

AllProjects == GraphProjects \cup OtherProjects \cup LateAugmentation

EveryBound == Usual \cup Forced

(* A script that uses a global and declares what its module re-exports.    *)
LateGlobal ==
    {Three([Starring(<<pkg>>) EXCEPT !.umd = {G}],
           [Script({Block(pkg, {x}, TRUE)}) EXCEPT !.uses = {[ns |-> G, name |-> x]}],
           Blank, TRUE)}

(* Two scripts declare one specifier; the check of one crashes.            *)
CrashedBlock ==
    {Three(Importing(pkg, x), [Script({Block(pkg, {x}, TRUE)}) EXCEPT !.fault = "crash"],
           Script({Block(pkg, {y}, TRUE)}), TRUE)}
=============================================================================
