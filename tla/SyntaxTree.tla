------------------------------ MODULE SyntaxTree ------------------------------
(* The syntax tree (ast/ast.h) of the sequential core of the language, as the   *)
(* bytecode compiler, the interpreter and the optimizer's passes share it.      *)
(*                                                                              *)
(* A program is a function from names to [params, body]; a body is a sequence   *)
(* of statements, records told apart by "op"; an expression is a record told    *)
(* apart by "k". A boolean literal keeps 0 or 1, the value its consumers read.  *)
EXTENDS Integers, SequencesExt

Num(n)        == [k |-> "num", n |-> n]
Bool(b)       == [k |-> "bool", n |-> IF b THEN 1 ELSE 0]
Ref(v)        == [k |-> "var", v |-> v]
Bin(o, a, b)  == [k |-> "bin", o |-> o, a |-> a, b |-> b]
Calling(f, args) == [k |-> "call", f |-> f, args |-> args]

Let(v, e)     == [op |-> "let", v |-> v, e |-> e]
Set(v, e)     == [op |-> "set", v |-> v, e |-> e]
Do(e)         == [op |-> "do", e |-> e]
Choose(arms, els) == [op |-> "if", arms |-> arms, els |-> els]
While(c, b)   == [op |-> "while", c |-> c, b |-> b]
Loop(b)       == [op |-> "loop", b |-> b]
For(v, lo, hi, b) == [op |-> "for", v |-> v, lo |-> lo, hi |-> hi, b |-> b]
Break         == [op |-> "break"]
Continue      == [op |-> "cont"]
Sub(b)        == [op |-> "block", b |-> b]
Give(e)       == [op |-> "ret", val |-> <<e>>]
GiveNil       == [op |-> "ret", val |-> <<>>]
Try(b, v, h)  == [op |-> "try", b |-> b, v |-> v, h |-> h]
Raise(e)      == [op |-> "throw", e |-> e]
Match(e, cs)  == [op |-> "match", e |-> e, cases |-> cs]

Fn(params, body) == [params |-> params, body |-> body]

---------------------------------------------------------------------------
(* The children of a node, in order, and a node with other children.            *)

LoopOps == {"while", "loop", "for"}

\* A case whose body is one expression, kept as the statement made of it.
Bare(case) == ~case.block

\* The blocks of a statement.
Bodies(s) ==
    CASE s.op = "if"    -> [i \in DOMAIN s.arms |-> s.arms[i].b] \o s.els
      [] s.op = "match" -> [i \in DOMAIN s.cases |-> s.cases[i].b]
      [] s.op = "try"   -> <<s.b, s.h>>
      [] s.op \in LoopOps \cup {"block"} -> <<s.b>>
      [] OTHER -> <<>>

\* The expressions of a statement itself.
ExprsOf(s) ==
    CASE s.op \in {"let", "set", "do", "throw", "match"} -> <<s.e>>
      [] s.op = "ret"   -> s.val
      [] s.op = "if"    -> [i \in DOMAIN s.arms |-> s.arms[i].c]
      [] s.op = "while" -> <<s.c>>
      [] s.op = "for"   -> <<s.lo, s.hi>>
      [] OTHER -> <<>>

WithBodies(s, bs) ==
    CASE s.op = "if"    -> [s EXCEPT !.arms = [i \in DOMAIN @ |-> [@[i] EXCEPT !.b = bs[i]]],
                                     !.els = SubSeq(bs, Len(s.arms) + 1, Len(bs))]
      [] s.op = "match" -> [s EXCEPT !.cases = [i \in DOMAIN @ |-> [@[i] EXCEPT !.b = bs[i]]]]
      [] s.op = "try"   -> [s EXCEPT !.b = bs[1], !.h = bs[2]]
      [] s.op \in LoopOps \cup {"block"} -> [s EXCEPT !.b = bs[1]]
      [] OTHER -> s

WithExprs(s, es) ==
    CASE s.op \in {"let", "set", "do", "throw", "match"} -> [s EXCEPT !.e = es[1]]
      [] s.op = "ret"   -> [s EXCEPT !.val = es]
      [] s.op = "if"    -> [s EXCEPT !.arms = [i \in DOMAIN @ |-> [@[i] EXCEPT !.c = es[i]]]]
      [] s.op = "while" -> [s EXCEPT !.c = es[1]]
      [] s.op = "for"   -> [s EXCEPT !.lo = es[1], !.hi = es[2]]
      [] OTHER -> s

RECURSIVE Within(_), SubExprs(_)

\* The statements of a block and of the blocks in it.
Within(b) ==
    ToSet(b) \cup UNION {Within(c) : c \in UNION {ToSet(Bodies(s)) : s \in ToSet(b)}}

SubExprs(e) ==
    {e} \cup (CASE e.k = "bin"  -> SubExprs(e.a) \cup SubExprs(e.b)
                [] e.k = "call" -> UNION {SubExprs(a) : a \in ToSet(e.args)}
                [] OTHER -> {})
===============================================================================
