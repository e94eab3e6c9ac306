------------------------------- MODULE FlowCheck -------------------------------
(***************************************************************************)
(* How the statement walker of src/src/bridge/statements carries narrowing *)
(* through control flow (control_flow.rs, support.rs, mod.rs) and which    *)
(* statements src/src/bridge/unreachable_code.rs reports.  A context holds *)
(* the narrowing in force, the jump frames of the enclosing statements and *)
(* the reads checked so far, each with the type it was checked at.         *)
(***************************************************************************)
EXTENDS Narrowing, SequencesExt

CONSTANT Declared   \* the declared type of each variable

Context(narrow) == [narrow |-> narrow, frames |-> << >>, reads |-> << >>]

CtxWith(ctx, narrow) == [ctx EXCEPT !.narrow = narrow]

ReadRef(ctx, at, ref) ==
    [ctx EXCEPT !.reads = Append(@, [at |-> at, ref |-> ref, type |-> TypeOf(ctx.narrow, Declared, ref)])]

(* What a right-hand side gives: a value of a type, or a variable's.       *)
TypeOfRhs(rhs, narrow) ==
    IF rhs.ref = << >> THEN rhs.type ELSE TypeOf(narrow, Declared, rhs.ref)

Assign(narrow, ref, rhs) ==
    LET assigned == TypeOfRhs(rhs, narrow)
    IN  IF ~IsPath(ref) THEN OnAssignment(narrow, ref[1], Declared[ref[1]], assigned)
        ELSE OnMemberAssignment(narrow, ref,
                 MemberType(CurrentType(narrow, Declared, ref[1]), ref[2]), assigned)

-----------------------------------------------------------------------------
(* The text: what is written where, and where closures are.                *)

WriteOf(x) == [var |-> x, closure |-> 0]

RECURSIVE TestText(_)
TestText(test) ==
    (IF test.op = "set" \/ test.from # << >> THEN <<WriteOf(test.ref[1])>> ELSE << >>)
    \o FlattenSeq([i \in DOMAIN test.subs |-> TestText(test.subs[i])])

(* The variables a statement writes and the closures it makes, in order.   *)
RECURSIVE Text(_)
Text(stmt) ==
    LET all(stmts) == FlattenSeq([i \in DOMAIN stmts |-> Text(stmts[i])])
        own == IF stmt.op \in {"assign", "each"} THEN <<WriteOf(stmt.ref[1])>>
               ELSE IF stmt.op = "closure" THEN <<[var |-> "", closure |-> stmt.at]>> ELSE << >>
        test == TestText(stmt.test)
    IN  IF stmt.op = "do" THEN all(stmt.body) \o test
        ELSE all(stmt.init) \o own \o test \o all(stmt.update) \o all(stmt.body)
             \o all(stmt.other) \o all(stmt.final)

TextOf(stmts) == FlattenSeq([i \in DOMAIN stmts |-> Text(stmts[i])])

(* WriteMap::written_in.                                                   *)
Written(stmts) == {entry.var : entry \in ToSet(TextOf(stmts))} \ {""}

(* WriteMap::assigned_at_or_after, from where a closure is written.        *)
AssignedAfter(program, x, closure) ==
    LET text == TextOf(program)
    IN  \E i, j \in DOMAIN text : i < j /\ text[i].closure = closure /\ text[j].var = x

(* closure_view.                                                           *)
ClosureView(program, narrow, closure) ==
    ForClosure(narrow, {x \in DOMAIN Declared : ~AssignedAfter(program, x, closure)})

-----------------------------------------------------------------------------
(* Whether statements are left by a jump.                                  *)

Jumps == {"return", "throw", "break", "continue"}

(* statement_leaves_flow of a list is that of its last statement.          *)
RECURSIVE LeavesFlow(_)
LeavesFlow(stmts) ==
    /\ stmts # << >>
    /\ LET s == stmts[Len(stmts)]
       IN  \/ s.op \in Jumps
           \/ s.op = "block" /\ LeavesFlow(s.body)
           \/ s.op = "if" /\ LeavesFlow(s.body) /\ LeavesFlow(s.other)
           \/ /\ s.op = "try"
              /\ \/ LeavesFlow(s.final)
                 \/ LeavesFlow(s.body) /\ (s.label = "caught" => LeavesFlow(s.other))

(* statement_always_exits.                                                 *)
RECURSIVE AlwaysExits(_)
AlwaysExits(stmts) ==
    /\ stmts # << >>
    /\ LET s == stmts[Len(stmts)]
       IN  \/ s.op \in {"return", "throw"}
           \/ s.op = "block" /\ AlwaysExits(s.body)
           \/ s.op = "if" /\ AlwaysExits(s.body) /\ AlwaysExits(s.other)

Loops == {"while", "do", "for", "each"}

(* Mistake: a break inside another statement belongs to that statement.    *)
BreaksDirectly(stmts) == \E i \in DOMAIN stmts : stmts[i].op \in {"break", "try"}

(* contains_break: generous; a try is assumed to hide one.                 *)
RECURSIVE ContainsBreak(_)
ContainsBreak(stmts) ==
    \E i \in DOMAIN stmts :
        LET s == stmts[i]
        IN  \/ s.op \in {"break", "try"}
            \/ /\ s.op \in Loops \cup {"block", "if", "label", "switch", "case"}
               /\ ContainsBreak(s.body) \/ ContainsBreak(s.other)

-----------------------------------------------------------------------------
(* Jumps.                                                                  *)

Frame(kind, label) == [kind |-> kind, label |-> label, breaks |-> << >>, continues |-> << >>]

(* The frame a jump finds, from the innermost outward; 0 for none.         *)
Innermost(found) == Max({0} \cup found)

RecordBreak(ctx, label) ==
    LET to == Innermost({i \in DOMAIN ctx.frames :
                 IF label = "" THEN ctx.frames[i].kind # "label" ELSE ctx.frames[i].label = label})
    IN  IF to = 0 THEN ctx ELSE [ctx EXCEPT !.frames[to].breaks = Append(@, ctx.narrow)]

RecordContinue(ctx, label) ==
    LET to == Innermost({i \in DOMAIN ctx.frames :
                 /\ ctx.frames[i].kind = "loop"
                 /\ label = "" \/ ctx.frames[i].label = label})
    IN  IF to = 0 THEN ctx ELSE [ctx EXCEPT !.frames[to].continues = Append(@, ctx.narrow)]

JoinAll(states) ==
    LET join[i \in 1 .. Len(states)] ==
            IF i = 1 THEN states[1] ELSE JoinStates(join[i - 1], states[i])
    IN  join[Len(states)]

(* How many times a loop is walked silently.                               *)
MaxHeadPasses == 3

(* Mistake: a head that did not settle is trusted.                         *)
Unsettled(head, written) == head

(* What a loop that does not settle keeps at its head.                     *)
ForgetUnsettled(head, written) == ForgetVariables(head, written)

(* Mistake: what the silent passes report is kept.                         *)
NotSilenced(ctx, pass) == pass

(* What the silent passes report is dropped.                               *)
Silenced(ctx, pass) == [pass EXCEPT !.reads = ctx.reads]

NeedsHeadPasses(outer, written) == \E x \in written : Mentions(outer, x)

(* The state after an if, from which branches are left by a jump.          *)
AfterIf(outer, yes, no, yesLeaves, noLeaves) ==
    IF yesLeaves /\ noLeaves THEN outer
    ELSE IF yesLeaves THEN no ELSE IF noLeaves THEN yes ELSE JoinStates(yes, no)

(* What a catch or finally block starts from.                              *)
AtCatch(outer, written) == ForgetVariables(outer, written)

ConstantTrue(stmt) == stmt.test.op = "true"

-----------------------------------------------------------------------------
(* The walk.                                                               *)

(* Inferring a test: the reads and the assignments in it.  What the right  *)
(* operand assigns is forgotten with the narrowing it was read under.      *)
RECURSIVE InferTest(_, _)

InferSecond(test, left, sides) ==
    CtxWith(InferTest(test.subs[2],
                CtxWith(left, Extend(left.narrow, IF test.op = "and" THEN sides.yes ELSE sides.no))),
            left.narrow)

InferBoth(test, left) ==
    InferSecond(test, left, NarrowCondition(test.subs[1], left.narrow, Declared))

InferTest(test, ctx) ==
    CASE test.op = "use" -> ReadRef(ctx, test.at, test.ref)
      [] test.op = "set" \/ test.from # << >> ->
            CtxWith(ctx, Assign(ctx.narrow, test.ref, test.from[1]))
      [] test.op = "not" -> InferTest(test.subs[1], ctx)
      [] test.op \in {"and", "or"} -> InferBoth(test, InferTest(test.subs[1], ctx))
      [] OTHER -> ctx

(* A test that is inferred and then narrows both ways.                     *)
WithSides(test, ctx) == [ctx |-> ctx, sides |-> NarrowCondition(test, ctx.narrow, Declared)]

Tested(test, ctx) == WithSides(test, InferTest(test, ctx))

Yes(tested) == Extend(tested.ctx.narrow, tested.sides.yes)

No(tested) == Extend(tested.ctx.narrow, tested.sides.no)

RECURSIVE CheckStatements(_, _, _), CheckStatement(_, _, _)

CheckStatements(program, stmts, ctx) ==
    FoldLeft(LAMBDA before, stmt : CheckStatement(program, stmt, before), ctx, stmts)

(* walk_loop_body: the context after it, with the states of its jumps and  *)
(* of its end.                                                             *)
WalkLoopBody(program, loop, ctx) ==
    LET inside == [ctx EXCEPT !.frames = Append(@, Frame("loop", loop.label))]
        walked == CheckStatements(program, loop.body, inside)
        frame == walked.frames[Len(walked.frames)]
        end == IF LeavesFlow(loop.body) THEN << >> ELSE <<walked.narrow>>
    IN  [ctx |-> [walked EXCEPT !.frames = Front(@)],
         flowing |-> frame.continues \o end, breaks |-> frame.breaks]

(* Where the body's end and its continues meet.                            *)
AtEnd(body) == IF body.flowing # << >> THEN JoinAll(body.flowing) ELSE body.ctx.narrow

(* One pass over a loop: back and exit are sequences of at most one state. *)
WalkTested(program, loop, tested) ==
    LET body == WalkLoopBody(program, loop, CtxWith(tested.ctx, Yes(tested)))
        updated == CheckStatements(program, loop.update, CtxWith(body.ctx, AtEnd(body)))
    IN  [ctx |-> updated, breaks |-> body.breaks,
         back |-> IF body.flowing # << >> THEN <<updated.narrow>> ELSE << >>,
         exit |-> IF ConstantTrue(loop) THEN << >> ELSE <<No(tested)>>]

WalkTestedLoop(program, loop, ctx) == WalkTested(program, loop, Tested(loop.test, ctx))

(* The test of a do-while is left without what it assigns.                 *)
TestAtEnd(loop, body, tested) ==
    LET flowing == body.flowing # << >>
    IN  [ctx |-> tested.ctx, breaks |-> body.breaks,
         back |-> IF flowing THEN <<Extend(AtEnd(body), tested.sides.yes)>> ELSE << >>,
         exit |-> IF flowing /\ ~ConstantTrue(loop)
                  THEN <<Extend(AtEnd(body), tested.sides.no)>> ELSE << >>]

WalkDoWhile(program, loop, ctx) ==
    LET body == WalkLoopBody(program, loop, ctx)
    IN  TestAtEnd(loop, body, Tested(loop.test, CtxWith(body.ctx, AtEnd(body))))

(* The variable of a for-of is bound anew.                                 *)
WalkForEach(program, loop, ctx) ==
    LET bound == CtxWith(ctx, ForgetVariables(ctx.narrow, {loop.ref[1]}))
        body == WalkLoopBody(program, loop, bound)
    IN  [ctx |-> body.ctx, breaks |-> body.breaks, exit |-> <<ctx.narrow>>,
         back |-> IF body.flowing # << >> THEN <<JoinAll(body.flowing)>> ELSE << >>]

WalkLoop(program, loop, ctx) ==
    CASE loop.op \in {"while", "for"} -> WalkTestedLoop(program, loop, ctx)
      [] loop.op = "do" -> WalkDoWhile(program, loop, ctx)
      [] loop.op = "each" -> WalkForEach(program, loop, ctx)

(* run_loop.  The state at the head is what holds before the loop and      *)
(* after a pass; silent passes look for one that a pass leaves as it is.   *)
NextHead(outer, pass) == IF pass.back = << >> THEN outer ELSE JoinStates(outer, pass.back[1])

AfterPass(before, outer, pass) ==
    [ctx |-> Silenced(before.ctx, pass.ctx), head |-> NextHead(outer, pass),
     settled |-> NextHead(outer, pass) = before.head]

SilentPass(program, loop, outer, before) ==
    IF before.settled THEN before
    ELSE AfterPass(before, outer, WalkLoop(program, loop, CtxWith(before.ctx, before.head)))

SilentPasses(program, loop, ctx) ==
    FoldLeft(LAMBDA before, n : SilentPass(program, loop, ctx.narrow, before),
             [ctx |-> ctx, head |-> ctx.narrow, settled |-> FALSE], [n \in 1 .. MaxHeadPasses |-> n])

HeadFound(found, written) ==
    CtxWith(found.ctx, IF found.settled THEN found.head ELSE ForgetUnsettled(found.head, written))

AtHead(program, loop, ctx, written) ==
    IF NeedsHeadPasses(ctx.narrow, written)
    THEN HeadFound(SilentPasses(program, loop, ctx), written) ELSE ctx

AfterLoop(head, last) ==
    LET leaving == last.exit \o last.breaks
    IN  CtxWith(last.ctx, IF leaving = << >> THEN head ELSE JoinAll(leaving))

LastPass(program, loop, ctx) == AfterLoop(ctx.narrow, WalkLoop(program, loop, ctx))

RunLoop(program, loop, ctx) ==
    LastPass(program, loop, AtHead(program, loop, ctx, Written(<<loop>>)))

(* check_if_statement.                                                     *)
CheckBranches(program, stmt, tested) ==
    LET yes == CheckStatements(program, stmt.body, CtxWith(tested.ctx, Yes(tested)))
        no == CheckStatements(program, stmt.other, CtxWith(yes, No(tested)))
    IN  CtxWith(no, AfterIf(tested.ctx.narrow, yes.narrow, no.narrow,
                            LeavesFlow(stmt.body), LeavesFlow(stmt.other)))

CheckIf(program, stmt, ctx) == CheckBranches(program, stmt, Tested(stmt.test, ctx))

(* check_try_statement.                                                    *)
CheckTry(program, stmt, ctx) ==
    LET outer == ctx.narrow
        block == CheckStatements(program, stmt.body, ctx)
        inTry == Written(stmt.body)
        caught == stmt.label = "caught"
        handler == IF caught
                   THEN CheckStatements(program, stmt.other, CtxWith(block, AtCatch(outer, inTry)))
                   ELSE block
        inHandler == Written(stmt.other)
        falling == (IF LeavesFlow(stmt.body) THEN << >> ELSE <<block.narrow>>)
                   \o (IF ~caught \/ LeavesFlow(stmt.other) THEN << >> ELSE <<handler.narrow>>)
        after == IF falling = << >> THEN outer ELSE JoinAll(falling)
        final == IF stmt.final = << >> THEN handler
                 ELSE CheckStatements(program, stmt.final,
                          CtxWith(handler, AtCatch(outer, inTry \cup inHandler)))
    IN  CtxWith(final, ForgetVariables(after, Written(stmt.final)))

(* The tests a case body is reached through: its own and those of the      *)
(* empty cases before it.                                                  *)
GroupOf(cases, i) ==
    {j \in 1 .. i : \A k \in j .. i - 1 : cases[k].body = << >>}

(* check_switch_statement: every body starts from the state before it.     *)
CheckSwitch(program, stmt, ctx) ==
    LET cases == stmt.body
        outer == ctx.narrow
        of(js) == [stmt.test EXCEPT !.type = UNION {cases[j].test.type : j \in js},
                                    !.kinds = UNION {cases[j].test.kinds : j \in js}]
        isDefault(j) == cases[j].label = "default"
        overlay(i) ==
            LET group == GroupOf(cases, i)
            IN  IF stmt.test.op = "opaque" THEN Unnarrowed
                ELSE IF \A j \in group : ~isDefault(j)
                THEN OfCases(of(group), outer, Declared, TRUE)
                ELSE IF \A j \in group : isDefault(j)
                THEN OfCases(of(DOMAIN cases), outer, Declared, FALSE) ELSE Unnarrowed
        after[i \in 0 .. Len(cases)] ==
            IF i = 0 THEN [ctx EXCEPT !.frames = Append(@, Frame("switch", ""))]
            ELSE IF cases[i].body = << >> THEN after[i - 1]
            ELSE CheckStatements(program, cases[i].body,
                                 CtxWith(after[i - 1], Extend(outer, overlay(i))))
    IN  CtxWith([after[Len(cases)] EXCEPT !.frames = Front(@)], outer)

(* check_labeled_statement: a loop has taken the label's jumps itself.     *)
CheckLabeled(program, stmt, ctx) ==
    LET inside == [ctx EXCEPT !.frames = Append(@, Frame("label", stmt.label))]
        walked == CheckStatements(program, stmt.body, inside)
        breaks == walked.frames[Len(walked.frames)].breaks
        out == [walked EXCEPT !.frames = Front(@)]
    IN  IF breaks = << >> THEN out ELSE CtxWith(out, JoinAll(Append(breaks, out.narrow)))

(* check_statement.                                                        *)
CheckStatement(program, stmt, ctx) ==
    CASE stmt.op = "use" -> ReadRef(ctx, stmt.at, stmt.ref)
      [] stmt.op = "let" -> IF IsUnion(Declared[stmt.ref[1]])
                            THEN CtxWith(ctx, Assign(ctx.narrow, stmt.ref, stmt.from[1]))
                            ELSE ctx
      [] stmt.op = "assign" -> CtxWith(ctx, Assign(ctx.narrow, stmt.ref, stmt.from[1]))
      [] stmt.op = "expression" -> InferTest(stmt.test, ctx)
      [] stmt.op = "closure" ->
            CtxWith(ReadRef(CtxWith(ctx, ClosureView(program, ctx.narrow, stmt.at)),
                            stmt.at, stmt.ref), ctx.narrow)
      [] stmt.op = "break" -> RecordBreak(ctx, stmt.label)
      [] stmt.op = "continue" -> RecordContinue(ctx, stmt.label)
      [] stmt.op \in {"return", "throw"} -> ctx
      [] stmt.op = "block" -> CheckStatements(program, stmt.body, ctx)
      [] stmt.op = "if" -> CheckIf(program, stmt, ctx)
      [] stmt.op \in Loops -> RunLoop(program, stmt, CheckStatements(program, SelectSeq(stmt.init, LAMBDA s : s.op = "let"), ctx))
      [] stmt.op = "switch" -> CheckSwitch(program, stmt, ctx)
      [] stmt.op = "try" -> CheckTry(program, stmt, ctx)
      [] stmt.op = "label" -> CheckLabeled(program, stmt, ctx)

-----------------------------------------------------------------------------
(* unreachable_code.rs: the statements the control-flow graph knows to be  *)
(* dead, and those a literal condition makes dead.                         *)

(* ends_dead_by_rule.                                                      *)
EndsDead(stmt) ==
    \/ stmt.op \in {"while", "do", "for"} /\ ConstantTrue(stmt) /\ ~ContainsBreak(stmt.body)
    \/ /\ stmt.op = "if"
       /\ \/ stmt.test.op = "true" /\ AlwaysExits(stmt.body)
          \/ stmt.test.op = "false" /\ AlwaysExits(stmt.other)

(* What the graph is relied on for: nothing follows a jump in its list.    *)
GraphKnowsDead(stmts, i) == \E j \in 1 .. i - 1 : stmts[j].op \in Jumps

(* report_dead of a list: its first statement, inside blocks.  What is     *)
(* reported is a sequence of at most one statement.                        *)
RECURSIVE ReportDead(_)
ReportDead(stmts) ==
    IF stmts = << >> THEN << >>
    ELSE LET first == stmts[1]
             own == IF first.op = "block" THEN ReportDead(first.body) ELSE <<first>>
         IN  IF own # << >> THEN own ELSE ReportDead(Tail(stmts))

(* visit_statements: the list up to its first dead statement that can be   *)
(* reported, and what is inside.                                           *)
RECURSIVE Unreachable(_)
Unreachable(stmts) ==
    LET ended(i) == GraphKnowsDead(stmts, i) \/ \E j \in 1 .. i - 1 : EndsDead(stmts[j])
        dead == {i \in DOMAIN stmts : ended(i) /\ ReportDead(<<stmts[i]>>) # << >>}
        visited == {i \in DOMAIN stmts : \A d \in dead : i < d}
        inside(s) ==
            IF s.op = "if" /\ s.test.op = "true" THEN Unreachable(s.body) \cup ToSet(ReportDead(s.other))
            ELSE IF s.op \in {"if", "while"} /\ s.test.op = "false"
            THEN ToSet(ReportDead(s.body)) \cup Unreachable(s.other)
            ELSE Unreachable(s.body) \cup Unreachable(s.other) \cup Unreachable(s.final)
    IN  UNION {inside(stmts[i]) : i \in visited}
        \cup (IF dead = {} THEN {} ELSE ToSet(ReportDead(<<stmts[CHOOSE d \in dead : \A e \in dead : d <= e]>>)))
=============================================================================
