------------------------------- MODULE Execution -------------------------------
(***************************************************************************)
(* Checking a program, then running it the way JavaScript does: tests over *)
(* the values variables hold, jumps that unwind the statements they leave, *)
(* a try that anything inside may throw in, closures that run at any later *)
(* time.  Objects are values here: no two variables share one.             *)
(***************************************************************************)
EXTENDS FlowCheck

CONSTANTS Program(_),  \* the programs: sequences of statements
          Programs,    \* their numbers
          Values       \* what variables can hold

VARIABLES program,  \* the number of the program
          report,   \* what the checker says of it: the reads, and the dead
          todo,     \* the statements being run, innermost last
          env,      \* the value of each variable
          made,     \* the closures made
          read      \* what the last step read: where, and which value

vars == <<program, report, todo, env, made, read>>

Field(v, p) == IF p \in DOMAIN v.fields THEN v.fields[p] ELSE [kind |-> "undefined"]

ValueOf(ref, e) == IF IsPath(ref) THEN Field(e[ref[1]], ref[2]) ELSE e[ref[1]]

(* The values of a type.                                                   *)
RECURSIVE Belongs(_, _)
Belongs(v, type) ==
    \E m \in type :
        \/ Open(m)
        \/ m.kind = "literal" /\ v.kind = m.base /\ v.value = m.value
        \/ m.kind = v.kind /\ m.kind # "object"
        \/ m.kind = "void" /\ v.kind = "undefined"
        \/ /\ m.kind = "object" /\ v.kind = "object"
           /\ \A p \in DOMAIN m.properties :
                 IF p \in DOMAIN v.fields THEN Belongs(v.fields[p], m.properties[p].type)
                 ELSE m.properties[p].optional

ValuesOf(rhs, e) ==
    IF rhs.ref # << >> THEN {ValueOf(rhs.ref, e)} ELSE {v \in Values : Belongs(v, rhs.type)}

Store(e, ref, v) ==
    IF IsPath(ref) THEN [e EXCEPT ![ref[1]].fields = (ref[2] :> v) @@ @] ELSE [e EXCEPT ![ref[1]] = v]

Falsy(v) ==
    v.kind \in {"null", "undefined"}
    \/ (v.kind \in {"string", "number", "boolean"} /\ v.value \in FalsyValues)

(* Whether a test of one value holds.                                      *)
Holds(test, v) ==
    CASE test.op = "typeof" -> test.tag = (IF v.kind = "null" THEN "object" ELSE v.kind)
      [] test.op = "nullish" -> v.kind \in test.kinds
      [] test.op = "equals" -> \E l \in test.type : v.kind = l.base /\ v.value = l.value
      [] test.op = "truth" -> ~Falsy(v)
      [] test.op = "instanceof" -> Belongs(v, test.type)

Outcome(holds, e, seen) == [holds |-> holds, env |-> e, read |-> seen]

(* What a test can come to.                                                *)
RECURSIVE Outcomes(_, _)
Outcomes(test, e) ==
    CASE test.op = "opaque" -> {Outcome(b, e, {}) : b \in BOOLEAN}
      [] test.op = "true" -> {Outcome(TRUE, e, {})}
      [] test.op = "false" -> {Outcome(FALSE, e, {})}
      [] test.op = "use" ->
            {Outcome(b, e, {[at |-> test.at, value |-> ValueOf(test.ref, e)]}) : b \in BOOLEAN}
      [] test.op = "set" ->
            {Outcome(b, Store(e, test.ref, v), {}) : b \in BOOLEAN, v \in ValuesOf(test.from[1], e)}
      [] test.op = "not" -> {[o EXCEPT !.holds = ~o.holds] : o \in Outcomes(test.subs[1], e)}
      [] test.op \in {"and", "or"} ->
            UNION {IF l.holds = (test.op = "or") THEN {l}
                   ELSE {[r EXCEPT !.read = @ \cup l.read] : r \in Outcomes(test.subs[2], l.env)} :
                   l \in Outcomes(test.subs[1], e)}
      [] test.op = "in" -> {Outcome(test.ref[2] \in DOMAIN e[test.ref[1]].fields, e, {})}
      [] OTHER ->
            {Outcome(Holds(test, ValueOf(test.ref, stored)), stored, {}) :
                stored \in IF test.from = << >> THEN {e}
                           ELSE {Store(e, test.ref, v) : v \in ValuesOf(test.from[1], e)}}

-----------------------------------------------------------------------------
(* What is left to do: statements in a row, or a statement around them.    *)

Row(stmts) == [op |-> "row", rest |-> stmts, around |-> << >>]
Around(stmt) == [op |-> stmt.op, rest |-> << >>, around |-> <<stmt>>]
Resuming(jump) == [op |-> "resume", rest |-> <<jump>>, around |-> << >>]

Push(work, item) == Append(work, item)
PushRow(work, stmts) == IF stmts = << >> THEN work ELSE Append(work, Row(stmts))

(* Where a jump leads: enclosing statements are left one by one; a finally *)
(* runs on the way, a catch ends a throw.                                  *)
RECURSIVE Unwind(_, _)
Unwind(work, jump) ==
    IF work = << >> THEN << >>
    ELSE LET top == work[Len(work)]
             below == Front(work)
             stmt == top.around[1]
         IN  IF top.around = << >> THEN Unwind(below, jump)
             ELSE IF top.op = "try"
             THEN LET guarded == IF stmt.final = << >> THEN below
                                 ELSE Push(below, [Around(stmt) EXCEPT !.op = "handling"])
                  IN  IF jump.op = "throw" /\ stmt.label = "caught"
                      THEN PushRow(guarded, stmt.other)
                      ELSE Unwind(guarded, jump)
             ELSE IF top.op = "handling"
             THEN PushRow(Push(below, Resuming(jump)), stmt.final)
             ELSE IF /\ jump.op = "break"
                     /\ \/ jump.label = "" /\ top.op \in Loops \cup {"switch"}
                        \/ jump.label # "" /\ top.op \in Loops \cup {"label"} /\ stmt.label = jump.label
             THEN below
             ELSE IF /\ jump.op = "continue" /\ top.op \in Loops
                     /\ jump.label \in {"", stmt.label}
             THEN PushRow(work, stmt.update)
             ELSE Unwind(below, jump)

(* The statements of the case a value selects, and those after it.         *)
Selected(cases, test, e) ==
    LET matches == {i \in DOMAIN cases : cases[i].label # "default"
                       /\ (test.op = "opaque" \/ Holds([test EXCEPT !.op = cases[i].test.op,
                              !.type = cases[i].test.type, !.tag = cases[i].test.tag],
                              ValueOf(test.ref, e)))}
        from(i) == FlattenSeq([j \in 1 .. Len(cases) - i + 1 |-> cases[i + j - 1].body])
        defaults == {i \in DOMAIN cases : cases[i].label = "default"}
    IN  IF test.op = "opaque" THEN {from(i) : i \in DOMAIN cases}
        ELSE IF matches # {} THEN {from(CHOOSE i \in matches : \A j \in matches : i <= j)}
        ELSE {from(i) : i \in defaults} \cup (IF defaults = {} THEN {<< >>} ELSE {})

(* A parameter holds any value of its type.                                *)
Initially(p) ==
    LET some == [x \in DOMAIN Declared |-> CHOOSE v \in Values : Belongs(v, Declared[x])]
    IN  {given @@ some : given \in {f \in [p.params -> Values] :
                                      \A x \in p.params : Belongs(f[x], Declared[x])}}

Init ==
    /\ program \in Programs
    /\ LET stmts == Program(program).body
       IN  /\ report = [reads |-> CheckStatements(stmts, stmts, Context(Unnarrowed)).reads,
                        dead |-> Unreachable(stmts)]
           /\ todo = PushRow(<< >>, stmts)
    /\ env \in Initially(Program(program))
    /\ made = {} /\ read = {}

Continue(work, e, seen) ==
    todo' = work /\ env' = e /\ read' = seen /\ UNCHANGED <<program, report, made>>

Top == todo[Len(todo)]
Below == Front(todo)
Current == Top.rest[1]
After == PushRow(Below, Tail(Top.rest))

(* The innermost statement: what follows it is put back.                   *)
AtRow == todo # << >> /\ Top.op = "row"

Use ==
    /\ AtRow /\ Current.op = "use"
    /\ Continue(After, env, {[at |-> Current.at, value |-> ValueOf(Current.ref, env)]})

Write ==
    /\ AtRow /\ Current.op \in {"assign", "let"}
    /\ \E v \in ValuesOf(Current.from[1], env) : Continue(After, Store(env, Current.ref, v), {})

Evaluate ==
    /\ AtRow /\ Current.op = "expression"
    /\ \E o \in Outcomes(Current.test, env) : Continue(After, o.env, o.read)

MakeClosure ==
    /\ AtRow /\ Current.op = "closure"
    /\ made' = made \cup {Current}
    /\ todo' = After /\ read' = {} /\ UNCHANGED <<program, report, env>>

Branch ==
    /\ AtRow /\ Current.op = "if"
    /\ \E o \in Outcomes(Current.test, env) :
          Continue(PushRow(After, IF o.holds THEN Current.body ELSE Current.other), o.env, o.read)

Enter ==
    /\ AtRow
    /\ \/ Current.op = "block" /\ Continue(PushRow(After, Current.body), env, {})
       \/ /\ Current.op \in {"label", "try"}
          /\ Continue(PushRow(Push(After, Around(Current)), Current.body), env, {})
       \/ /\ Current.op \in {"while", "for", "each"}
          /\ Continue(PushRow(Push(After, Around(Current)), Current.init), env, {})
       \/ Current.op = "do" /\ Continue(PushRow(Push(After, Around(Current)), Current.body), env, {})
       \/ /\ Current.op = "switch"
          /\ \E stmts \in Selected(Current.body, Current.test, env) :
                Continue(PushRow(Push(After, Around(Current)), stmts), env, {})

Jump ==
    /\ AtRow /\ Current.op \in Jumps
    /\ Continue(Unwind(Below, Current), env, {})

(* Anything inside a try may throw before it is done.                      *)
Throw ==
    /\ AtRow
    /\ \E i \in DOMAIN todo : todo[i].op \in {"try", "handling"}
    /\ Continue(Unwind(Below, [Current EXCEPT !.op = "throw"]), env, {})

(* A loop is at its test.                                                  *)
Iterate ==
    /\ todo # << >> /\ Top.op \in Loops
    /\ LET loop == Top.around[1]
           body == PushRow(PushRow(todo, loop.update), loop.body)
       IN  IF loop.op = "each"
           THEN \/ Continue(Below, env, {})
                \/ \E v \in ValuesOf(loop.from[1], env) :
                      Continue(body, Store(env, loop.ref, v), {})
           ELSE \E o \in Outcomes(loop.test, env) :
                   Continue(IF o.holds THEN body ELSE Below, o.env, o.read)

Leave ==
    /\ todo # << >>
    /\ \/ Top.op \in {"switch", "label"} /\ Continue(Below, env, {})
       \/ /\ Top.op \in {"try", "handling"}
          /\ Continue(PushRow(Below, Top.around[1].final), env, {})
       \/ Top.op = "resume" /\ Continue(Unwind(Below, Top.rest[1]), env, {})

(* A closure runs, whenever something calls it.                            *)
Call ==
    /\ \E c \in made : read' = {[at |-> c.at, value |-> ValueOf(c.ref, env)]}
    /\ UNCHANGED <<program, report, todo, env, made>>

Next == Use \/ Write \/ Evaluate \/ MakeClosure \/ Branch \/ Enter \/ Jump \/ Throw \/ Iterate
        \/ Leave \/ Call

Spec == Init /\ [][Next]_vars
=============================================================================
