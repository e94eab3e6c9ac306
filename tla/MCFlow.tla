-------------------------------- MODULE MCFlow --------------------------------
(***************************************************************************)
(* Programs for TLC: tests of every kind over variables of every kind of   *)
(* type, and each statement that controls the flow around short bodies.    *)
(***************************************************************************)
EXTENDS FlowProperties

Lit(base, value) == {Exactly(base, value)}
Required(type) == [type |-> type, optional |-> FALSE]

CircleShape == Object("kind" :> Required(Lit("string", "a")))
SquareShape == Object(("kind" :> Required(Lit("string", "b"))) @@ ("size" :> Required({Of("string"), Of("null")})))
Good == Object(("ok" :> Required(Lit("boolean", "true"))) @@ ("size" :> Required({Of("string")})))
Bad == Object("ok" :> Required(Lit("boolean", "false")))
Animal == Object("kind" :> Required({Of("string")}))

MCDeclared ==
    [x |-> {Of("string"), Of("null")}, y |-> {Of("string"), Of("null")},
     v |-> {Of("string"), Of("null")}, w |-> {Of("string"), Of("null")},
     shape |-> {CircleShape, SquareShape}, result |-> {Good, Bad},
     pet |-> {Animal, Of("string")}, some |-> {Of("unknown")}, odd |-> {Of("any")},
     mixed |-> {Of("boolean"), Of("undefined"), Exactly("number", "0"), Of("number")},
     word |-> {Exactly("string", "a"), Exactly("string", "b"), Of("null")}]

Value(kind, value) == [kind |-> kind, value |-> value, fields |-> Plain]
Instance(fields) == [kind |-> "object", value |-> "", fields |-> fields]

MCValues ==
    {Value("string", s) : s \in {"", "a", "b"}} \cup {Value("number", n) : n \in {"0", "1"}}
    \cup {Value("boolean", b) : b \in {"true", "false"}}
    \cup {Value("null", ""), Value("undefined", ""), Value("function", "")}
    \cup {Instance("kind" :> Value("string", "a"))}
    \cup {Instance(("kind" :> Value("string", "b")) @@ ("size" :> s)) :
            s \in {Value("string", "a"), Value("null", "")}}
    \cup {Instance(("ok" :> Value("boolean", "true")) @@ ("size" :> Value("string", "b"))),
          Instance("ok" :> Value("boolean", "false"))}

-----------------------------------------------------------------------------
(* Writing tests and statements.                                           *)

Rhs(type) == [ref |-> << >>, type |-> type]
Variable(x) == [ref |-> <<x>>, type |-> {}]

Test(op, ref) ==
    [op |-> op, ref |-> ref, tag |-> "", kinds |-> {}, type |-> {}, subs |-> << >>,
     from |-> << >>, at |-> 0]

OpaqueTest == Test("opaque", << >>)
Typeof(ref, tag) == [Test("typeof", ref) EXCEPT !.tag = tag]
IsKind(ref, kinds) == [Test("nullish", ref) EXCEPT !.kinds = kinds]
Equals(ref, literal) == [Test("equals", ref) EXCEPT !.type = literal]
Truth(ref) == Test("truth", ref)
Presence(x, p) == Test("in", <<x, p>>)
InstanceOf(x, class) == [Test("instanceof", <<x>>) EXCEPT !.type = {class}]
Not(t) == [Test("not", << >>) EXCEPT !.subs = <<t>>]
Both(op, s, t) == [Test(op, << >>) EXCEPT !.subs = <<s, t>>]
UseIn(at, ref) == [Test("use", ref) EXCEPT !.at = at]
Assigned(t, rhs) == [t EXCEPT !.from = <<rhs>>]
SetIn(ref, rhs) == [Test("set", ref) EXCEPT !.from = <<rhs>>]

Statement(op) ==
    [op |-> op, at |-> 0, ref |-> << >>, from |-> << >>, test |-> OpaqueTest, label |-> "",
     init |-> << >>, update |-> << >>, body |-> << >>, other |-> << >>, final |-> << >>]

Read(at, ref) == [Statement("use") EXCEPT !.at = at, !.ref = ref]
Later(at, ref) == [Statement("closure") EXCEPT !.at = at, !.ref = ref]
Expression(test) == [Statement("expression") EXCEPT !.test = test]
Set(ref, rhs) == [Statement("assign") EXCEPT !.ref = ref, !.from = <<rhs>>]
Let(ref, rhs) == [Set(ref, rhs) EXCEPT !.op = "let"]
Go(op) == Statement(op)
GoTo(op, label) == [Statement(op) EXCEPT !.label = label]
If(test, body, other) == [Statement("if") EXCEPT !.test = test, !.body = body, !.other = other]
Loop(op, test, body) == [Statement(op) EXCEPT !.test = test, !.body = body]
For(test, update, body) == [Loop("for", test, body) EXCEPT !.update = update]
Each(ref, rhs, body) == [Loop("each", OpaqueTest, body) EXCEPT !.ref = ref, !.from = <<rhs>>]
Labeled(label, body) == [Statement("label") EXCEPT !.label = label, !.body = body]
Block(body) == [Statement("block") EXCEPT !.body = body]
Try(body, handler, final) ==
    [Statement("try") EXCEPT !.body = body, !.other = handler, !.final = final, !.label = "caught"]
TryFinally(body, final) == [Try(body, << >>, final) EXCEPT !.label = ""]
Case(test, body) == [Statement("case") EXCEPT !.test = test, !.body = body]
Default(body) == [Statement("case") EXCEPT !.label = "default", !.body = body]
Switch(test, cases) == [Statement("switch") EXCEPT !.test = test, !.body = cases]

Whole(params, body) == [params |-> params, body |-> body]

Pairs(s, t, Pair(_, _)) ==
    [k \in 1 .. Len(s) * Len(t) |-> Pair(s[((k - 1) \div Len(t)) + 1], t[((k - 1) % Len(t)) + 1])]

Map(s, F(_)) == [k \in DOMAIN s |-> F(s[k])]

-----------------------------------------------------------------------------
(* Tests.                                                                  *)

X == <<"x">>
Y == <<"y">>
Str == Lit("string", "a")
Null == Rhs({Of("null")})
Some == Rhs(Str)
Unknown == Rhs({Of("string"), Of("null")})

NullTest(ref) == IsKind(ref, {"null"})
Nullish(ref) == IsKind(ref, {"null", "undefined"})

(* Each variable's tests, and what may be read of it.                      *)
Atoms ==
    LET of(x, tests, refs) == [var |-> x, tests |-> tests, refs |-> refs]
    IN  <<of("x", <<NullTest(X), Truth(X), Typeof(X, "string"), Typeof(X, "object"), Equals(X, Str)>>, <<X>>),
          of("word", <<Equals(<<"word">>, Str), Nullish(<<"word">>), Truth(<<"word">>),
                       Equals(<<"word">>, Lit("string", "b"))>>, <<<<"word">>>>),
          of("mixed", <<Truth(<<"mixed">>), Equals(<<"mixed">>, Lit("boolean", "true")),
                        Typeof(<<"mixed">>, "number"), IsKind(<<"mixed">>, {"undefined"}),
                        Equals(<<"mixed">>, Lit("number", "1"))>>, <<<<"mixed">>>>),
          of("some", <<Typeof(<<"some">>, "string"), Typeof(<<"some">>, "function"),
                       Equals(<<"some">>, Str), Truth(<<"some">>), NullTest(<<"some">>),
                       InstanceOf("some", Animal)>>, <<<<"some">>>>),
          of("odd", <<Typeof(<<"odd">>, "string"), InstanceOf("odd", Animal), NullTest(<<"odd">>),
                      Equals(<<"odd">>, Str)>>, <<<<"odd">>>>),
          of("pet", <<InstanceOf("pet", SquareShape), InstanceOf("pet", Animal),
                      Typeof(<<"pet">>, "object")>>, <<<<"pet">>>>),
          of("shape", <<Equals(<<"shape", "kind">>, Str), Presence("shape", "size"),
                        InstanceOf("shape", SquareShape)>>,
             <<<<"shape">>, <<"shape", "kind">>, <<"shape", "size">>>>),
          of("result", <<Truth(<<"result", "ok">>), Equals(<<"result", "ok">>, Lit("boolean", "false"))>>,
             <<<<"result">>, <<"result", "ok">>>>)>>

(* A read of shape.size throws unless shape is there: it always is.        *)
Compounds(tests) ==
    tests \o Map(tests, Not)
    \o Pairs(tests, tests, LAMBDA s, t : Both("and", s, Not(t)))
    \o Pairs(tests, tests, LAMBDA s, t : Both("or", s, t))
    \o Pairs(tests, tests, LAMBDA s, t : Both("and", Both("or", s, t), s))

TestPrograms ==
    FlattenSeq([i \in DOMAIN Atoms |->
        Pairs(Atoms[i].refs, Compounds(Atoms[i].tests),
            LAMBDA ref, t : Whole({Atoms[i].var},
                <<If(t, <<Read(1, ref)>>, <<Read(2, ref)>>), Read(3, ref)>>))])

Size == <<"shape", "size">>
SizeTest == Both("and", Equals(<<"shape", "kind">>, Lit("string", "b")), Not(NullTest(Size)))

(* Paths: narrowed, written, and forgotten with their variable.            *)
PathPrograms ==
    Map(<< << >>, <<Set(Size, Null)>>, <<Set(Size, Unknown)>>, <<Set(<<"shape">>, Rhs({SquareShape}))>>,
           <<Set(<<"shape">>, Rhs({CircleShape}))>>, <<Later(4, Size)>>,
           <<Loop("while", OpaqueTest, <<Read(5, Size), Set(Size, Null)>>)>> >>,
        LAMBDA s : Whole({"shape"}, <<If(SizeTest, <<Read(1, Size)>> \o s \o <<Read(2, Size)>>, << >>),
                                      Read(3, <<"shape">>)>>))
    \o <<Whole({"x"}, <<If(Both("and", Not(NullTest(X)), UseIn(1, X)), <<Read(2, X)>>, << >>)>>),
         Whole({"x"}, <<If(Both("or", NullTest(X), UseIn(1, X)), << >>, <<Read(2, X)>>)>>),
         Whole({"x"}, <<Expression(Both("and", Not(NullTest(X)), UseIn(1, X))), Read(2, X)>>),
         Whole({"x"}, <<Expression(Both("or", NullTest(X), UseIn(1, X))), Read(2, X)>>),
         Whole({}, <<Let(X, Some), Loop("while", OpaqueTest,
                                        <<Read(1, X), Expression(SetIn(X, Null))>>), Read(2, X)>>),
         Whole({}, <<Let(X, Some), Loop("while", SetIn(X, Unknown), <<Read(1, X)>>), Read(2, X)>>),
         Whole({}, <<[For(OpaqueTest, <<Set(X, Unknown)>>, <<Read(1, X)>>) EXCEPT
                         !.init = <<Let(X, Some)>>], Read(2, X)>>),
         Whole({}, <<Loop("while", Not(Assigned(NullTest(X), Unknown)),
                          <<Read(1, X)>>), Read(2, X)>>)>>

-----------------------------------------------------------------------------
(* Statements.                                                             *)

(* What a body may do between its reads.                                   *)
Steps ==
    << << >>, <<Set(X, Null)>>, <<Set(X, Some)>>, <<Set(X, Variable("y"))>>,
       <<Go("break")>>, <<Go("continue")>>, <<Go("return")>>,
       <<If(OpaqueTest, <<Set(X, Null), Go("break")>>, << >>)>>,
       <<If(OpaqueTest, <<Set(X, Null), Go("continue")>>, << >>)>>,
       <<If(NullTest(X), <<Go("return")>>, << >>)>>,
       <<If(NullTest(X), <<Set(X, Some)>>, << >>)>>,
       <<If(Truth(X), <<Set(Y, Some)>>, <<Go("break")>>)>>,
       <<If(OpaqueTest, <<Go("break")>>, <<Set(X, Null), Go("continue")>>)>>,
       <<If(OpaqueTest, <<Set(X, Null)>>, <<Go("return")>>)>> >>

(* Those that are statements outside a loop too.                           *)
PlainSteps == SelectSeq(Steps, LAMBDA s : ~ContainsBreak(s) /\ ~\E i \in DOMAIN s :
                  \/ s[i].op = "continue"
                  \/ s[i].op = "if" /\ (\E j \in DOMAIN s[i].body : s[i].body[j].op = "continue"))

Body(at, step) == <<Read(at, X)>> \o step \o <<Read(at + 1, X)>>

Starts == << <<Let(X, Some)>>, << >> >>

OverTests == <<OpaqueTest, Not(NullTest(X)), Test("true", << >>)>>

Between(start, stmts) == Whole({"x", "y"}, start \o stmts \o <<Read(9, X)>>)

LoopPrograms ==
    FlattenSeq(Pairs(Starts, OverTests, LAMBDA start, test :
        FlattenSeq(Pairs(Steps, <<1, 2, 3, 4>>, LAMBDA s, kind :
            <<Between(start, <<CASE kind = 1 -> Loop("while", test, Body(1, s))
                                 [] kind = 2 -> Loop("do", test, Body(1, s))
                                 [] kind = 3 -> For(test, <<Set(X, Some)>>, Body(1, s))
                                 [] kind = 4 -> Each(Y, Unknown, Body(1, s))>>)>>))))

BranchPrograms ==
    FlattenSeq(Pairs(PlainSteps, PlainSteps, LAMBDA s, t :
        Pairs(Starts, <<OpaqueTest, NullTest(X)>>, LAMBDA start, test :
            Between(start, <<If(test, Body(1, s), t)>>))))

TryPrograms ==
    FlattenSeq(Pairs(PlainSteps, PlainSteps, LAMBDA s, t :
        <<Between(<<Set(X, Some)>>, <<Try(Body(1, s), Body(3, t), <<Read(5, X), Set(X, Null)>>)>>),
          Between(<<Set(X, Null)>>, <<Try(Body(1, s), t, <<Read(5, X)>>)>>)>>))
    \o FlattenSeq(Pairs(Steps, Starts, LAMBDA s, start :
        <<Between(start, <<Loop("while", OpaqueTest, <<TryFinally(Body(1, s), <<Read(5, X)>>), Read(6, X)>>)>>),
          Between(start, <<Loop("while", OpaqueTest, <<Try(Body(1, s), <<Go("break")>>, <<Read(5, X)>>), Read(6, X)>>)>>)>>))

(* Jumps to labels, past loops and switches.                               *)
Inner(s) == Loop("while", OpaqueTest, Body(1, s) \o <<Read(3, X)>>)

LabelPrograms ==
    FlattenSeq(Pairs(Starts, <<"break", "continue">>, LAMBDA start, jump :
        FlattenSeq(Pairs(Steps, <<"while", "do">>, LAMBDA s, op :
            <<Between(start, <<Labeled("outer",
                <<[Loop(op, OpaqueTest, <<Loop("while", OpaqueTest,
                    Body(1, s) \o <<If(OpaqueTest, <<Set(X, Null), GoTo(jump, "outer")>>, << >>)>>),
                    Read(3, X), Set(X, Some)>>) EXCEPT !.label = "outer"]>>)>>)>>))))
    \o Map(PlainSteps, LAMBDA s : Between(<<Set(X, Some)>>,
        <<Labeled("out", <<If(OpaqueTest, s \o <<GoTo("break", "out")>>, <<Read(1, X)>>), Read(2, X)>>)>>))

(* Heads that settle late, or not at all.                                  *)
ChainPrograms ==
    LET set(a, b) == Set(<<a>>, Variable(b))
        starts == <<Set(X, Some), Set(Y, Some), Set(<<"v">>, Some), Set(<<"w">>, Some)>>
        chain(last) == <<Read(1, X), set("x", "y"), set("y", "v"), set("v", "w"), Set(<<"w">>, last)>>
    IN  Map(<<Null, Some, Unknown>>, LAMBDA last :
            Whole({}, starts \o <<Loop("while", OpaqueTest, chain(last)), Read(2, X), Read(3, <<"w">>)>>))
        \o Map(<<Null, Variable("y")>>, LAMBDA last :
            Whole({}, starts \o <<Loop("while", OpaqueTest,
                <<Read(1, X), Loop("do", OpaqueTest, <<Read(2, X), Set(X, last), set("y", "v")>>),
                  Set(<<"v">>, Null)>>), Read(3, X)>>))

(* Closures, made before and after writes.                                 *)
ClosurePrograms ==
    FlattenSeq(Map(<< << >>, <<Set(X, Null)>>, <<Set(Y, Null)>> >>, LAMBDA s :
        <<Between(<<Set(X, Some)>>, <<Later(1, X)>> \o s),
          Between(<< >>, s \o <<If(NullTest(X), <<Go("return")>>, << >>), Later(1, X)>>),
          Between(<<Set(X, Some)>>, <<If(OpaqueTest, <<Later(1, X)>> \o s, s)>>)>>))

(* A switch whose bodies end in a jump and write nothing known before it.  *)
TypeofSwitch(tags) == [Test("typeof", << >>) EXCEPT !.kinds = tags]
Word == <<"word">>
Kind == <<"shape", "kind">>

SwitchPrograms ==
    LET a(ref) == Equals(ref, Str)
        b(ref) == Equals(ref, Lit("string", "b"))
        end(at, ref) == <<Read(at, ref), Go("break")>>
        inLoop(s) == <<Loop("while", OpaqueTest, <<Set(X, Some), s, Read(8, X)>>)>>
    IN  FlattenSeq(Map(<<Word, Kind, <<"mixed">>, <<"some">> >>, LAMBDA on :
            LET ref == <<on[1]>>
            IN  Map(<< <<Case(a(on), end(1, ref)), Default(end(2, ref))>>,
                       <<Case(a(on), << >>), Case(b(on), end(1, ref)), Default(end(2, ref))>>,
                       <<Case(a(on), << >>), Default(end(1, ref)), Case(b(on), end(2, ref))>>,
                       <<Default(<<Read(1, ref), Go("return")>>), Case(b(on), end(2, ref))>> >>,
                    LAMBDA cases : Whole({on[1]}, <<Switch(a(on), cases), Read(9, ref)>>))))
        \o Map(<<"mixed", "pet", "some">>, LAMBDA x :
            LET tag(t) == [Typeof(<<x>>, t) EXCEPT !.kinds = {t}]
            IN  Whole({x}, <<Switch(Typeof(<<x>>, ""),
                    <<Case(tag("string"), << >>), Case(tag("boolean"), end(1, <<x>>)),
                      Case(tag("object"), end(2, <<x>>)), Default(end(3, <<x>>))>>), Read(9, <<x>>)>>))
        \o Map(<<Go("break"), Go("continue"), Go("return")>>, LAMBDA jump :
            Whole({"word", "x"}, inLoop(Switch(a(Word),
                <<Case(a(Word), <<Read(1, X), jump>>), Default(<<Read(2, X), Go("continue")>>)>>))
                \o <<Read(9, X)>>))

(* Literal tests.                                                          *)
DeadPrograms ==
    LET true == Test("true", << >>)
        false == Test("false", << >>)
        one(s) == Whole({"x"}, s \o <<Read(9, X)>>)
        inside == << <<Read(1, X)>>, <<Go("return")>>, <<Go("break")>>,
                     <<If(OpaqueTest, <<Go("break")>>, << >>)>>,
                     <<Block(<<Block(<<If(OpaqueTest, <<Go("return")>>, <<Go("break")>>)>>)>>)>>,
                     <<Try(<<Read(1, X)>>, <<Go("break")>>, << >>)>>,
                     <<Loop("while", OpaqueTest, <<GoTo("break", "outer")>>)>>,
                     <<Switch(OpaqueTest, <<Default(<<GoTo("break", "outer")>>)>>)>>,
                     <<Labeled("out", <<If(OpaqueTest, <<GoTo("break", "out")>>, << >>)>>)>>,
                     <<Loop("while", true, <<GoTo("continue", "outer")>>), Read(2, X)>>,
                     <<Go("continue"), Read(3, X), Read(4, X)>> >>
    IN  FlattenSeq(Map(inside, LAMBDA s :
            LET loop(op) == Labeled("outer", <<[Loop(op, true, s) EXCEPT !.label = "outer"]>>)
            IN  <<one(<<loop("while")>>), one(<<loop("do")>>), one(<<loop("for")>>),
                  one(<<Labeled("outer", <<[Loop("while", true, s) EXCEPT !.label = "outer"], Read(8, X)>>)>>),
                  one(<<Loop("while", OpaqueTest, <<[Loop("while", true, s) EXCEPT !.label = "outer"], Read(8, X)>>)>>)>>))
        \o <<one(<<If(true, <<Go("return")>>, <<Read(1, X)>>)>>),
             one(<<If(false, <<Read(1, X)>>, <<Read(2, X), Go("return")>>)>>),
             one(<<If(true, <<If(OpaqueTest, <<Go("return")>>, << >>)>>, << >>)>>),
             one(<<Loop("while", false, <<Block(<<Read(1, X)>>)>>)>>),
             one(<<Block(<<Go("return"), Block(<< >>), Read(1, X)>>)>>)>>

-----------------------------------------------------------------------------
AllPrograms ==
    TestPrograms \o PathPrograms \o LoopPrograms \o BranchPrograms \o TryPrograms
    \o LabelPrograms \o ChainPrograms \o ClosurePrograms \o SwitchPrograms \o DeadPrograms

ProgramAt(n) == AllPrograms[n]
ProgramNumbers == DOMAIN AllPrograms
=============================================================================
