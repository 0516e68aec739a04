--------------------------- MODULE MCExecutionModes ---------------------------
(* Families of programs for ExecutionModes. In all of them a name is bound      *)
(* before it is used, no block of its own, try or catch declares a variable,    *)
(* and a function that may throw is called as a statement.                      *)
EXTENDS ExecutionModes

CONSTANTS cMain, cF, cG    \* the closures of the functions

MCClosure == [main |-> cMain, f |-> cF, g |-> cG]

---------------------------------------------------------------------------
(* The shapes of a program. *)

Apply(f, a)   == Calling(f, <<a>>)
Add(a, b)     == Bin("IADD", a, b)
Is(v, n)      == Bin("IEQ", Ref(v), Num(n))
Puts(v)       == Do(Apply("print", Ref(v)))
Show(n)       == Do(Apply("print", Num(n)))
Inc(v)        == Set(v, Add(Ref(v), Num(1)))
When(c, b)    == Choose(<<[c |-> c, b |-> b]>>, <<>>)
IfElse(c, b, e) == Choose(<<[c |-> c, b |-> b]>>, <<e>>)
Elif(c, b, d, e, els) == Choose(<<[c |-> c, b |-> b], [c |-> d, b |-> e]>>, els)
Lit(n, b)     == [pat |-> "lit", n |-> n, v |-> "", block |-> TRUE, b |-> b]
LitDo(n, e)   == [pat |-> "lit", n |-> n, v |-> "", block |-> FALSE, b |-> <<Do(e)>>]
Bind(v, b)    == [pat |-> "var", n |-> 0, v |-> v, block |-> TRUE, b |-> b]

Main(body)       == [main |-> Fn(<<>>, body)]
MainAndF(body, f) == [main |-> Fn(<<>>, body), f |-> Fn(<<"p">>, f)]

\* The sequences of one to n members of S.
UpTo(S, n) == UNION {[1 .. k -> S] : k \in 1 .. n}

---------------------------------------------------------------------------
(* Loops of each kind around every short body, with every way to leave it. *)

Jumps == {Break, Continue, GiveNil}

LoopBodies(n) ==
    UpTo({Inc("x"), Puts("x")} \cup {When(Is("x", 1), <<j>>) : j \in Jumps}
               \cup {Break, Continue}, n)

Around(b) ==
    {While(Bin("ILT", Ref("x"), Num(3)), b), Loop(b), For("y", Num(1), Num(3), b)}

Loops(n) == {Main(<<Let("x", Num(0)), l, Puts("x")>>) :
                l \in UNION {Around(b) : b \in LoopBodies(n)}}

Inners == UpTo({Puts("y")} \cup {When(Is("y", 1), <<j>>) : j \in Jumps}, 2)

NestedLoops ==
    {Main(<<Let("x", Num(0)),
            While(Bin("ILT", Ref("x"), Num(2)),
                  <<Inc("x"), For("y", Num(n), Num(n + 1), b)>> \o o \o <<Puts("x")>>),
            Show(9)>>) :
        n \in 0 .. 1, b \in Inners,
        o \in {<<>>} \cup {<<When(Is("x", 1), <<j>>)>> : j \in Jumps}}

---------------------------------------------------------------------------
(* Functions with branches, in every combination of returning and completing. *)

Arms == {<<Give(Num(7))>>, <<GiveNil>>, <<Puts("p")>>, <<Inc("p")>>,
         <<Let("p", Num(5)), Puts("p")>>, <<When(Is("p", 1), <<Give(Num(8))>>)>>}

Ends == {<<>>, <<Puts("p")>>, <<Give(Ref("p"))>>}

Ask(f, n, valued) == IF valued THEN Do(Apply("print", Apply(f, Num(n))))
                     ELSE Do(Apply(f, Num(n)))

Branches ==
    {MainAndF(<<Ask("f", 0, e # <<>>), Ask("f", 1, e # <<>>), Ask("f", 2, e # <<>>)>>,
              <<i>> \o e) :
        i \in {Elif(Is("p", 0), a, Is("p", 1), b, c) :
                  a \in Arms, b \in Arms, c \in {<<>>} \cup {<<d>> : d \in Arms}},
        e \in Ends}

---------------------------------------------------------------------------
(* Calls: recursion that ends and that does not, calls in every position. *)

Down(rest) == <<When(Is("p", 0), <<Give(Num(0))>>), Puts("p")>> \o rest

Less == Bin("ISUB", Ref("p"), Num(1))

FBodies ==
    {Down(<<Give(Apply("f", Less))>>),
     Down(<<Give(Add(Apply("f", Less), Ref("p")))>>),
     Down(<<Give(Add(Ref("p"), Apply("f", Less)))>>),
     Down(<<Do(Apply("f", Less)), Do(Apply("f", Less)), Give(Ref("p"))>>),
     Down(<<Let("q", Apply("f", Less)), Give(Add(Ref("q"), Ref("p")))>>),
     <<Give(Apply("f", Ref("p")))>>,
     <<Let("q", Add(Ref("p"), Num(1))), Give(Ref("q"))>>,
     <<Do(Add(Ref("p"), Num(1)))>>,
     <<Inc("p")>>}

CallMains ==
    {<<Let("x", Num(2)), s, Puts("x")>> :
        s \in {Set("x", Apply("f", Ref("x"))),
               Set("x", Apply("f", Apply("f", Ref("x")))),
               Set("x", Add(Apply("f", Ref("x")), Ref("x"))),
               Set("x", Add(Ref("x"), Apply("f", Ref("x")))),
               Do(Apply("f", Ref("x"))),
               When(Apply("f", Num(1)), <<Inc("x")>>),
               For("y", Num(1), Num(2), <<Do(Apply("f", Ref("y")))>>),
               Do(Apply("print", Apply("f", Ref("x"))))}}

CallPrograms == {MainAndF(m, f) : m \in CallMains, f \in FBodies}

\* Calls while an operand or an argument is pending, of functions that print
\* nothing, or something.
Silent == {<<Give(Ref("p"))>>,
           <<When(Is("p", 0), <<Give(Num(0))>>), Give(Add(Ref("p"), Apply("f", Less)))>>,
           <<Let("q", Ref("p")), When(Is("q", 2), <<Inc("q")>>), Give(Bin("ISUB", Ref("p"), Ref("q")))>>}

Actuals == {Ref("x"), Num(1), Apply("f", Ref("x"))}

Pending ==
    {[main |-> Fn(<<>>, <<Let("x", Num(2)), Do(Apply("print", e)), Puts("x")>>),
      f |-> Fn(<<"p">>, f), g |-> Fn(<<"p", "q">>, g)] :
        e \in {Calling("g", <<a, b>>) : a \in Actuals, b \in Actuals}
             \cup {Add(a, Calling("g", <<Num(3), b>>)) : a \in Actuals, b \in Actuals},
        f \in Silent \cup {<<Puts("p"), Give(Num(5))>>},
        g \in {<<Give(Bin("ISUB", Ref("p"), Ref("q")))>>,
              <<Let("r", Ref("q")), Give(Add(Ref("p"), Apply("f", Ref("r"))))>>}}

---------------------------------------------------------------------------
(* Matches, scopes and exceptions. *)

CaseBodies == {<<>>, <<Inc("x")>>, <<Let("x", Num(4)), Puts("x")>>, <<GiveNil>>}

Cases == UNION {{Lit(0, b), Lit(1, b), Bind("z", b)} : b \in CaseBodies}
             \cup {LitDo(1, Apply("print", Ref("x"))), Bind("w", <<Puts("w")>>)}

Matches ==
    {MainAndF(<<Let("x", e), Match(Ref("x"), cs), Puts("x")>>, <<Give(Ref("p"))>>) :
        e \in {Num(1), Apply("f", Num(0)), Apply("f", Num(1))}, cs \in UpTo(Cases, 2)}
    \cup {Main(<<For("x", Num(0), Num(2),
                     <<Match(Ref("x"), <<Lit(1, <<j>>), Bind("z", <<Puts("z")>>)>>)>>),
                 Show(9)>>) : j \in Jumps}

ScopeBodies == UpTo({Let("x", Num(5)), Inc("x"), Puts("x"),
                       When(Is("x", 5), <<Let("x", Num(6)), Puts("x")>>)}, 3)

Scopes == {Main(<<Let("x", Num(4)), s, Puts("x")>>) :
              s \in UNION {{When(Num(1), b), IfElse(Num(0), <<>>, b),
                            For("y", Num(1), Num(2), b)} : b \in ScopeBodies}}

Throwers == {<<Raise(Ref("p")), Show(8)>>,
             <<When(Is("p", 1), <<Raise(Num(6))>>), Puts("p")>>,
             <<Try(<<When(Is("p", 1), <<Raise(Num(6))>>), Puts("p")>>, "e", <<Puts("e")>>)>>,
             <<Try(<<Raise(Num(5))>>, "e", <<Puts("e"), Raise(Ref("p"))>>), Show(8)>>}

Guarded == UpTo({Raise(Ref("x")), Do(Apply("f", Ref("x"))), Show(7),
                   Try(<<Do(Apply("f", Num(1)))>>, "", <<Show(3)>>),
                   Try(<<Raise(Num(2))>>, "d", <<Puts("d"), Raise(Num(4))>>)}, 2)

Handling == {<<Puts("e")>>, <<Puts("e"), Raise(Num(9))>>, <<Inc("x")>>}

Exceptions ==
    {MainAndF(m, f) :
        f \in Throwers,
        m \in UNION {{<<Let("x", Num(1)), Try(b, "e", h), Show(0)>>,
                      <<Let("x", Num(1)), Sub(b), Try(b, "e", h), Show(0)>>,
                      <<Let("x", Num(0)),
                        While(Bin("ILT", Ref("x"), Num(2)),
                              <<Inc("x"), Try(b, "e", h)>>), Show(0)>>} :
                     b \in Guarded, h \in Handling}}
    \cup {Main(<<For("x", Num(0), Num(2),
                     <<Try(<<When(Is("x", 1), <<j>>), Raise(Ref("x"))>>, "e", h)>>),
                 Show(0)>>) :
             j \in Jumps, h \in {<<Puts("e")>>, <<Puts("e"), Raise(Num(9))>>}}

\* What is thrown is caught in the same function.
Locally == UpTo({Raise(Ref("x")), Puts("x"), Do(Apply("f", Ref("x"))),
                   Try(<<Raise(Num(2))>>, "", <<Show(3)>>), When(Is("x", 2), <<Break>>)}, 2)

LocalExceptions ==
    {MainAndF(<<For("x", Num(1), Num(2), <<Try(b, "", h), Puts("x")>>), Show(9)>>, f) :
        b \in Locally,
        h \in {<<Show(5)>>, <<Show(5), Continue>>, <<Do(Apply("f", Ref("x")))>>},
        f \in {<<Try(<<When(Is("p", 1), <<Raise(Num(6))>>), Puts("p")>>, "", <<Show(4)>>)>>,
              <<Try(<<Try(<<Raise(Num(6))>>, "e", <<Puts("p")>>)>>, "", <<Show(4)>>), Show(8)>>}}

---------------------------------------------------------------------------
(* Functions the peephole pass shortens, of statements that the passes over the *)
(* tree leave alone: what they know of the parameter is nothing.                *)

Idle == {Set("p", Ref("p")), Do(Num(3))}

Plain == {Puts("p"), Inc("p"), When(Is("p", 1), <<Inc("p"), Puts("p")>>),
          IfElse(Is("p", 2), <<Set("p", Ref("p"))>>, <<Puts("p")>>),
          While(Bin("ILT", Ref("p"), Num(3)), <<Inc("p")>>),
          While(Bin("ILT", Ref("p"), Num(3)), <<Inc("p"), Do(Num(3))>>),
          Try(<<Puts("p"), Raise(Ref("p"))>>, "e", <<Puts("e")>>)}

ShortPrograms ==
    {MainAndF(<<Do(Apply("f", Num(1))), Show(9)>>, b) :
        b \in {c \in UpTo(Idle \cup Plain, 3) : Len(c) > 1}
             \cup {c \o <<Let("q", Ref("p")), Puts("q")>> : c \in UpTo(Idle \cup Plain, 2)}}

---------------------------------------------------------------------------
MCPrograms ==
    Loops(3) \cup NestedLoops \cup Branches \cup CallPrograms \cup Pending \cup Matches
        \cup Scopes \cup Exceptions \cup LocalExceptions

\* A sum whose right operand calls a function: print(1 + f(x)).
OperandPrograms ==
    {MainAndF(<<Let("x", Num(2)),
                Do(Apply("print", Add(Num(1), Apply("f", Ref("x")))))>>, f) :
        f \in {<<Give(Ref("p"))>>, <<Give(Add(Ref("p"), Num(1)))>>}}
===============================================================================
