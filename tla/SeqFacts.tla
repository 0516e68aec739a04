------------------------------ MODULE SeqFacts ------------------------------
(***************************************************************************)
(* Queues and stacks without repetitions: the vocabulary the modules use   *)
(* for ready_coroutines, call_frames and the lists of waiters, and what    *)
(* pushing, popping and splicing do to the set of elements of a sequence   *)
(* and to the absence of repetitions.                                      *)
(***************************************************************************)
EXTENDS Integers, Sequences, TLAPS

\* The values that occur in s.
Elements(s) == {s[i] : i \in 1..Len(s)}

\* No value occurs twice in s.
NoRepeats(s) == \A i, j \in 1..Len(s) : s[i] = s[j] => i = j

Last(s) == s[Len(s)]
Front(s) == SubSeq(s, 1, Len(s) - 1)

-----------------------------------------------------------------------------
\* Pushing x on a queue or a stack adds x to its elements.
LEMMA ElementsAppend ==
    ASSUME NEW S, NEW s \in Seq(S), NEW x \in S
    PROVE  /\ Append(s, x) \in Seq(S)
           /\ Elements(Append(s, x)) = Elements(s) \union {x}
  BY DEF Elements

\* Pushing a value that was not there keeps a sequence free of repetitions.
LEMMA NoRepeatsAppend ==
    ASSUME NEW S, NEW s \in Seq(S), NEW x \in S,
           NoRepeats(s), x \notin Elements(s)
    PROVE  NoRepeats(Append(s, x))
  BY DEF Elements, NoRepeats

\* Popping the top of a stack: what is left, and what left it.
LEMMA ElementsFront ==
    ASSUME NEW S, NEW s \in Seq(S), s # <<>>
    PROVE  /\ Last(s) \in S
           /\ Front(s) \in Seq(S)
           /\ Elements(s) = Elements(Front(s)) \union {Last(s)}
           /\ NoRepeats(s) => NoRepeats(Front(s)) /\ Last(s) \notin Elements(Front(s))
  BY DEF Elements, NoRepeats, Front, Last

\* Popping the front of a queue: what is left, and what left it.
LEMMA ElementsTail ==
    ASSUME NEW S, NEW s \in Seq(S), s # <<>>
    PROVE  /\ Head(s) \in S
           /\ Tail(s) \in Seq(S)
           /\ Elements(s) = Elements(Tail(s)) \union {Head(s)}
           /\ NoRepeats(s) => NoRepeats(Tail(s)) /\ Head(s) \notin Elements(Tail(s))
  BY DEF Elements, NoRepeats

\* Splicing one list behind another.
LEMMA ElementsConcat ==
    ASSUME NEW S, NEW s \in Seq(S), NEW t \in Seq(S)
    PROVE  /\ s \o t \in Seq(S)
           /\ Elements(s \o t) = Elements(s) \union Elements(t)
           /\ NoRepeats(s) /\ NoRepeats(t) /\ Elements(s) \intersect Elements(t) = {}
                => NoRepeats(s \o t)
<1>1. /\ s \o t \in Seq(S)
      /\ Len(s) \in Nat /\ Len(t) \in Nat
      /\ Len(s \o t) = Len(s) + Len(t)
      /\ \A i \in 1..Len(s) : (s \o t)[i] = s[i]
      /\ \A i \in Len(s) + 1 .. Len(s) + Len(t) : (s \o t)[i] = t[i - Len(s)]
  OBVIOUS
<1>2. \A i \in 1..Len(t) : (s \o t)[Len(s) + i] = t[i]
  BY <1>1
<1>3. Elements(s \o t) = Elements(s) \union Elements(t)
  <2>1. Elements(s \o t) \subseteq Elements(s) \union Elements(t)
    <3> SUFFICES ASSUME NEW i \in 1..Len(s \o t)
                 PROVE  (s \o t)[i] \in Elements(s) \union Elements(t)
      BY DEF Elements
    <3>1. CASE i <= Len(s)
      BY <1>1, <3>1 DEF Elements
    <3>2. CASE i > Len(s)
      <4>1. i - Len(s) \in 1..Len(t) /\ (s \o t)[i] = t[i - Len(s)]
        BY <1>1, <3>2
      <4> QED BY <4>1 DEF Elements
    <3> QED BY <1>1, <3>1, <3>2
  <2>2. Elements(s) \subseteq Elements(s \o t)
    <3> SUFFICES ASSUME NEW i \in 1..Len(s)
                 PROVE  s[i] \in Elements(s \o t)
      BY DEF Elements
    <3>1. i \in 1..Len(s \o t) /\ (s \o t)[i] = s[i]
      BY <1>1
    <3> QED BY <3>1 DEF Elements
  <2>3. Elements(t) \subseteq Elements(s \o t)
    <3> SUFFICES ASSUME NEW i \in 1..Len(t)
                 PROVE  t[i] \in Elements(s \o t)
      BY DEF Elements
    <3>1. Len(s) + i \in 1..Len(s \o t) /\ (s \o t)[Len(s) + i] = t[i]
      BY <1>1, <1>2
    <3> QED BY <3>1 DEF Elements
  <2> QED BY <2>1, <2>2, <2>3
<1>4. ASSUME NoRepeats(s), NoRepeats(t), Elements(s) \intersect Elements(t) = {}
      PROVE  NoRepeats(s \o t)
  <2> SUFFICES ASSUME NEW i \in 1..Len(s \o t), NEW j \in 1..Len(s \o t),
                      (s \o t)[i] = (s \o t)[j]
               PROVE  i = j
    BY DEF NoRepeats
  <2>1. ASSUME NEW a \in 1..Len(s), NEW b \in 1..Len(t)
        PROVE  s[a] # t[b]
    BY <1>4 DEF Elements
  <2>2. CASE i <= Len(s) /\ j <= Len(s)
    BY <1>1, <1>4, <2>2 DEF NoRepeats
  <2>3. CASE i <= Len(s) /\ j > Len(s)
    <3>1. i \in 1..Len(s) /\ j - Len(s) \in 1..Len(t)
      BY <1>1, <2>3
    <3>2. (s \o t)[i] = s[i] /\ (s \o t)[j] = t[j - Len(s)]
      BY <1>1, <2>3
    <3> QED BY <2>1, <3>1, <3>2
  <2>4. CASE i > Len(s) /\ j <= Len(s)
    <3>1. j \in 1..Len(s) /\ i - Len(s) \in 1..Len(t)
      BY <1>1, <2>4
    <3>2. (s \o t)[j] = s[j] /\ (s \o t)[i] = t[i - Len(s)]
      BY <1>1, <2>4
    <3> QED BY <2>1, <3>1, <3>2
  <2>5. CASE i > Len(s) /\ j > Len(s)
    <3>1. /\ i - Len(s) \in 1..Len(t) /\ j - Len(s) \in 1..Len(t)
          /\ t[i - Len(s)] = t[j - Len(s)]
      BY <1>1, <2>5
    <3>2. i - Len(s) = j - Len(s)
      BY <1>4, <3>1 DEF NoRepeats
    <3> QED BY <1>1, <3>2
  <2> QED BY <1>1, <2>2, <2>3, <2>4, <2>5
<1> QED BY <1>1, <1>3, <1>4

\* An empty sequence has no elements and no repetitions.
LEMMA ElementsEmpty ==
    /\ Elements(<<>>) = {}
    /\ NoRepeats(<<>>)
  BY DEF Elements, NoRepeats

\* Sequences with the same items are the same.
LEMMA SameItems ==
    ASSUME NEW S, NEW s \in Seq(S), NEW t \in Seq(S), Len(s) = Len(t),
           \A i \in 1..Len(s) : s[i] = t[i]
    PROVE  s = t
  OBVIOUS

\* The items of two sequences put together.
LEMMA ConcatItems ==
    ASSUME NEW S, NEW s \in Seq(S), NEW t \in Seq(S)
    PROVE  /\ s \o t \in Seq(S) /\ Len(s \o t) = Len(s) + Len(t)
           /\ Len(s) \in Nat /\ Len(t) \in Nat
           /\ \A i \in 1..Len(s) : (s \o t)[i] = s[i]
           /\ \A i \in 1..Len(t) : (s \o t)[Len(s) + i] = t[i]
  OBVIOUS

\* What leaves the front of one sequence for the end of another keeps their order.
LEMMA HeadMoves ==
    ASSUME NEW S, NEW s \in Seq(S), NEW t \in Seq(S), t # <<>>
    PROVE  Append(s, Head(t)) \o Tail(t) = s \o t
<1> DEFINE a == Append(s, Head(t))
           b == Tail(t)
           m == Len(s)
           n == Len(t)
<1>1. m \in Nat /\ n \in Nat \ {0} /\ Head(t) = t[1] /\ t[1] \in S
  OBVIOUS
<1>2. /\ a \in Seq(S) /\ Len(a) = m + 1 /\ a[m + 1] = t[1]
      /\ \A i \in 1..m : a[i] = s[i]
  BY <1>1
<1>3. b \in Seq(S) /\ Len(b) = n - 1 /\ \A i \in 1..n - 1 : b[i] = t[i + 1]
  BY <1>1
<1> HIDE DEF a, b
<1>4. /\ a \o b \in Seq(S) /\ Len(a \o b) = m + n
      /\ \A i \in 1..m + 1 : (a \o b)[i] = a[i]
      /\ \A i \in 1..n - 1 : (a \o b)[m + 1 + i] = b[i]
  <2>1. (m + 1) + (n - 1) = m + n
    BY <1>1
  <2>2. /\ a \o b \in Seq(S) /\ Len(a \o b) = Len(a) + Len(b)
        /\ \A i \in 1..Len(a) : (a \o b)[i] = a[i]
        /\ \A i \in 1..Len(b) : (a \o b)[Len(a) + i] = b[i]
    <3>1. a \in Seq(S) /\ b \in Seq(S)
      BY <1>2, <1>3
    <3> QED BY <3>1, ConcatItems
  <2>3. Len(a) = m + 1 /\ Len(b) = n - 1
    BY <1>2, <1>3
  <2> HIDE DEF m, n
  <2> QED BY <2>1, <2>2, <2>3
<1>5. /\ s \o t \in Seq(S) /\ Len(s \o t) = m + n
      /\ \A i \in 1..m : (s \o t)[i] = s[i]
      /\ \A i \in 1..n : (s \o t)[m + i] = t[i]
  BY ConcatItems
<1> HIDE DEF m, n
<1>6. ASSUME NEW i \in 1..m + n PROVE (a \o b)[i] = (s \o t)[i]
  <2>1. CASE i \in 1..m
    <3>1. i \in 1..m + 1
      BY <1>1, <2>1
    <3> QED BY <1>2, <1>4, <1>5, <2>1, <3>1
  <2>2. CASE i = m + 1
    <3>1. m + 1 \in 1..m + 1 /\ 1 \in 1..n
      BY <1>1
    <3> QED BY <1>2, <1>4, <1>5, <2>2, <3>1
  <2>3. CASE i > m + 1
    <3> DEFINE j == i - (m + 1)
    <3>1. /\ j \in 1..n - 1 /\ j + 1 \in 1..n
          /\ m + 1 + j = i /\ m + (j + 1) = i
      BY <1>1, <2>3
    <3> HIDE DEF j
    <3>2. (a \o b)[i] = b[j]
      BY <1>4, <3>1
    <3>3. (s \o t)[i] = t[j + 1]
      BY <1>5, <3>1
    <3>4. b[j] = t[j + 1]
      BY <1>3, <3>1
    <3> QED BY <3>2, <3>3, <3>4
  <2>4. i \in 1..m \/ i = m + 1 \/ i > m + 1
    BY <1>1
  <2> QED BY <2>1, <2>2, <2>3, <2>4
<1>7. a \o b = s \o t
  <2> DEFINE x == a \o b
             y == s \o t
  <2>1. x \in Seq(S) /\ y \in Seq(S) /\ Len(x) = Len(y) /\ Len(x) = m + n
        /\ \A i \in 1..Len(x) : x[i] = y[i]
    BY <1>4, <1>5, <1>6
  <2> HIDE DEF x, y
  <2>2. x = y
    BY <2>1, SameItems
  <2> QED BY <2>2 DEF x, y
<1> QED BY <1>7 DEF a, b

\* The items of a sequence after a push.
LEMMA AppendItems ==
    ASSUME NEW S, NEW s \in Seq(S), NEW x \in S
    PROVE  /\ Append(s, x) \in Seq(S)
           /\ Len(Append(s, x)) = Len(s) + 1 /\ Len(s) \in Nat
           /\ \A i \in 1..Len(s) : Append(s, x)[i] = s[i]
           /\ Append(s, x)[Len(s) + 1] = x
  OBVIOUS

\* The items of a queue after a pop.
LEMMA TailItems ==
    ASSUME NEW S, NEW s \in Seq(S), s # <<>>
    PROVE  /\ Head(s) = s[1] /\ s[1] \in S /\ Len(s) \in Nat \ {0}
           /\ Tail(s) \in Seq(S) /\ Len(Tail(s)) = Len(s) - 1
           /\ \A i \in 1..Len(s) - 1 : Tail(s)[i] = s[i + 1]
  OBVIOUS

\* A sequence whose items are the first ones of another is its prefix.
LEMMA PrefixItems ==
    ASSUME NEW S, NEW s \in Seq(S), NEW t \in Seq(S), Len(s) <= Len(t),
           \A i \in 1..Len(s) : s[i] = t[i]
    PROVE  s = SubSeq(t, 1, Len(s))
  OBVIOUS
=============================================================================
