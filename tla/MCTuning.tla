------------------------------- MODULE MCTuning -------------------------------
(* What 6 digits keep of a time, and families of programs for the optimizer. *)
EXTENDS Tuning

\* Written with 6 digits, the slower time reads back as the faster one.
SixDigits == [t \in Times |-> 1]

Apply(f, a)  == Calling(f, <<a>>)
Add(a, b)    == Bin("IADD", a, b)
Mul(a, b)  == Bin("IMUL", a, b)
X == Ref("x")
P == Ref("p")
Q == Ref("q")
Is(v, n)     == Bin("IEQ", v, Num(n))
Puts(e)      == Do(Apply("print", e))
When(c, b)   == Choose(<<[c |-> c, b |-> b]>>, <<>>)
IfElse(c, b, e) == Choose(<<[c |-> c, b |-> b]>>, <<e>>)
Lit(n, b)    == [pat |-> "lit", n |-> n, v |-> "", block |-> TRUE, b |-> b]
LitDo(n, e)  == [pat |-> "lit", n |-> n, v |-> "", block |-> FALSE, b |-> <<Do(e)>>]
Bind(v, b)   == [pat |-> "var", n |-> 0, v |-> v, block |-> TRUE, b |-> b]

Main(b)          == <<"main", Fn(<<>>, b)>>
One(f, params, b) == <<f, Fn(params, b)>>

UpTo(S, n) == UNION {[1 .. k -> S] : k \in 1 .. n}

---------------------------------------------------------------------------
\* Constants that are kept, lost and shadowed.
Straight ==
    {Let("x", Num(3)), Set("x", Add(X, Num(1))), Puts(Add(X, Num(2))),
     When(Is(X, 2), <<Puts(Add(X, Num(1))), GiveNil, Puts(Num(9))>>),
     IfElse(Is(X, 3), <<Set("x", Num(5))>>, <<Puts(Mul(X, Num(2)))>>),
     Sub(<<Let("y", Num(6)), Puts(Add(X, Ref("y")))>>),
     While(Bin("ILT", X, Num(4)), <<Set("x", Add(X, Num(1))), Puts(X)>>),
     Match(X, <<Lit(2, <<Set("x", Num(7))>>), LitDo(3, Apply("print", X)), Bind("w", <<>>)>>)}

Constants == {<<Main(<<Let("x", e)>> \o b \o <<Puts(Add(X, Num(0)))>>)>> :
                  e \in {Num(2), Add(Num(1), Num(1))}, b \in UpTo(Straight, 2)}

\* Constants that take an iteration each.
Chain(n) ==
    LET v(i) == "v" \o ToString(i)
    IN  <<Main([i \in 1 .. n |-> Let(v(i), IF i = 1 THEN Num(1) ELSE Add(Ref(v(i - 1)), Num(1)))]
                 \o <<When(Is(Ref(v(n)), n), <<Puts(Num(n))>>)>>)>>

Chains == {Chain(n) : n \in 2 .. 6}

\* Expressions on a parameter, and logic.
Operators == {"IADD", "ISUB", "IMUL", "IDIV", "IMOD", "IEQ", "ILE"}

Arithmetic ==
    {<<Main(<<Puts(Apply("f", Num(3))), Puts(Apply("f", Num(-5)))>>),
       One("f", <<"p">>, <<Let("z", Num(0)), r>>)>> :
        r \in {Give(Bin(o, e[1], e[2])) :
                  o \in Operators, e \in {P} \X {Num(0), Num(1), Num(2), P, Ref("z"), Apply("g", P)}
                                \cup {Num(0), Num(1), Num(-3)} \X {P, Num(0), Num(2), Apply("g", P)}}
              \cup {When(Bin(o, Bool(a), t), <<Puts(P), Give(P)>>) :
                       o \in {"AND", "OR"}, a \in BOOLEAN, t \in {Is(P, 3), Bool(TRUE)}}}

Helper == One("g", <<"p">>, <<Puts(P), Give(Add(P, Num(1)))>>)

ArithmeticG == {s \o <<Helper>> : s \in Arithmetic}

---------------------------------------------------------------------------
\* Loops over ranges.
RangeBodies == {<<Puts(Ref("i"))>>, <<When(Is(Ref("i"), 2), <<Break>>), Puts(Ref("i"))>>,
                <<When(Is(Ref("i"), 2), <<Continue>>), Puts(Ref("i"))>>,
                <<For("j", Num(1), Ref("i"), <<Puts(Ref("j"))>>)>>,
                <<Match(Ref("i"), <<Lit(1, <<Puts(Num(8))>>), Bind("w", <<Puts(Ref("w"))>>)>>)>>,
                <<Match(Ref("i"), <<LitDo(1, Apply("print", Num(8))), Bind("w", <<Puts(Ref("w"))>>)>>)>>,
                <<Set("i", Add(Ref("i"), Num(1))), Puts(Ref("i"))>>,
                <<When(Is(Ref("i"), 2), <<GiveNil>>)>>}

Ranges ==
    {<<Main(<<Let("x", Num(3)), For("i", Num(1), h, b)>> \o e)>> :
        h \in {X, Num(0), Bin("ISUB", X, Num(1))}, b \in RangeBodies,
        e \in {<<>>, <<Puts(X)>>, <<Puts(Ref("i"))>>, <<For("i", Num(4), Num(5), <<Puts(Ref("i"))>>)>>}}

---------------------------------------------------------------------------
\* Functions that call themselves last.
F(a, b) == Calling("f", <<a, b>>)
Less == Bin("ISUB", Q, Num(1))

TailEnds ==
    {<<Give(F(Add(P, Q), Less))>>, <<Give(F(Less, P))>>, <<Puts(P), Do(F(P, Less))>>,
     <<IfElse(Is(P, 1), <<Give(F(Num(2), Less))>>, <<Give(F(Num(1), Less))>>)>>,
     <<When(Is(P, 1), <<Give(F(Num(2), Less))>>), Puts(P)>>,
     <<When(Is(P, 1), <<Do(F(Num(2), Less))>>), Give(F(Num(4), Less))>>,
     <<Loop(<<When(Is(P, 1), <<Give(F(Num(2), Less))>>), Break>>), Give(F(Num(1), Less))>>,
     <<When(Is(P, 1), <<Give(F(Num(2), Less))>>), Puts(Q), Give(F(P, Less))>>,
     <<When(Is(P, 1), <<Give(F(Num(2), Less))>>)>>,
     <<Give(Add(F(P, Less), P))>>, <<Give(Calling("f", <<Less>>))>>,
     <<Let("p", Num(5)), Give(F(P, Less))>>,
     <<Try(<<Give(F(P, Less))>>, "e", <<Puts(Ref("e"))>>), Give(F(Num(9), Less))>>,
     <<Match(P, <<LitDo(1, Apply("print", P)), Bind("w", <<Puts(Ref("w"))>>)>>), Give(F(P, Less))>>}

TailCallers ==
    {<<Main(<<Puts(F(Num(1), Num(2))), Do(F(Num(3), Num(1)))>>),
       One("f", <<"p", "q">>, <<When(Bin("ILE", Q, Num(0)), c)>> \o d \o e)>> :
        c \in {<<Give(P)>>, <<Raise(P)>>}, d \in {<<>>, <<Puts(P)>>}, e \in TailEnds}

---------------------------------------------------------------------------
\* Functions that are one expression, declared before and after their callers.
Small == {Give(Add(P, Num(1))), Give(Mul(P, P)), Give(Apply("h", P)), Give(Add(Apply("h", P), P)),
          Give(Apply("g", P)), Puts(P), Give(Num(4))}

Inliners ==
    UNION {{<<Main(<<Puts(c)>>), One("g", <<"p">>, <<b>>), One("h", <<"p">>, <<d>>)>>,
            <<One("h", <<"p">>, <<d>>), One("g", <<"p">>, <<b>>), Main(<<Puts(c)>>)>>} :
        b \in Small, d \in {Give(Add(P, Num(2))), Give(Apply("g", P)), Puts(P)},
        c \in {Apply("g", Num(3)), Apply("g", Apply("h", Num(3))), Add(Apply("h", Num(3)), Apply("g", Num(1))),
               Calling("g", <<>>)}}

\* Code that is dead, and what only it calls.
DeadCode ==
    {<<Main(<<Try(b, "e", <<Puts(Ref("e")), GiveNil, Do(Calling("g", <<>>))>>), Puts(Num(1)),
              IfElse(Bool(t), <<Do(Calling("g", <<>>)), GiveNil>>, <<Puts(Num(7))>>), Puts(Calling("k", <<>>))>>),
       One("g", <<>>, <<Puts(Num(6)), Do(Calling("h", <<>>)), GiveNil, Puts(Num(4))>>),
       One("h", <<>>, <<While(Bool(FALSE), <<Puts(Num(3))>>)>>),
       One("k", <<>>, <<Do(Num(2)), While(Bool(FALSE), <<>>)>>)>> :
        t \in BOOLEAN, b \in {<<Raise(Num(2)), Do(Calling("g", <<>>))>>, <<Do(Calling("g", <<>>))>>, <<GiveNil>>}}

MCSources == Constants \cup Chains \cup ArithmeticG \cup Ranges \cup TailCallers \cup Inliners \cup DeadCode
==============================================================================
