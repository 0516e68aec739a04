----------------------------- MODULE CachesProofs -----------------------------
(* What the caches that several processes or threads share keep: those of the   *)
(* compiler driver, for any processes, requests, size of a file and number of   *)
(* kills, and that of the evaluator of schedules, for any threads and calls.    *)
EXTENDS CompileCaches, MLEvaluator, AutoScheduler, FiniteSetTheorems, WellFoundedInduction,
        TLAPS

USE CachesAssumption, MarksAssumption

-----------------------------------------------------------------------------
(* The files.                                                                   *)

\* The blocks that are there are where they should be, and of this key.
Placed(kind, key) ==
    LET f == disk[kind][key]
    IN  \A i \in 1 .. Len(f) :
            f[i] # Hole => f[i].n = i /\ KeyOf(kind, f[i].of.req) = key

\* The first n blocks are there.
UpTo(f, n) == Len(f) >= n /\ \A i \in 1 .. n : f[i] # Hole

\* The process that opened the file last is still writing it.
Attended(kind, key) ==
    \E p \in Procs : Writing(p, kind, key) /\ UpTo(disk[kind][key], proc[p].at - 1)

FilesKept ==
    \A kind \in EntryKinds : \A key \in Keys(kind) :
        disk[kind][key] # NoFile =>
            /\ Placed(kind, key)
            /\ \/ <<kind, key>> \in abandoned
               \/ Attended(kind, key)
               \/ UpTo(disk[kind][key], Blocks)

-----------------------------------------------------------------------------
(* The processes.                                                               *)

BusyPcs == {"hasTokens", "loadTokens", "openTokens", "writeTokens", "parse", "lookup", "load",
            "open", "write", "done", "failed"}

Busy == [pc : BusyPcs, req : Requests, tokens : Files, art : Files, at : 0 .. Blocks + 1]

Shapes ==
    /\ proc \in [Procs -> Busy \cup {AtRest}]
    /\ risk \subseteq {p \in Procs : proc[p].pc # "idle"}
    /\ starts \in 0 .. MaxStarts /\ kills \in 0 .. MaxKills
    /\ DOMAIN disk = EntryKinds
    /\ disk = [kind \in EntryKinds |-> disk[kind]]
    /\ \A kind \in EntryKinds : disk[kind] \in [Keys(kind) -> Files \cup {NoFile}]
    /\ \A e \in abandoned : e[1] \in EntryKinds /\ e[2] \in Keys(e[1])

\* Until it is at risk a process has the tokens of its text and the program of its
\* request; what it saves is complete.
Says(p) ==
    LET pr == proc[p]
        tokensRight == p \notin risk => RightFor("tokens", pr.req, pr.tokens)
    IN  /\ pr.pc \in {"hasTokens", "loadTokens"} => p \notin risk
        /\ pr.pc \in {"loadTokens", "load", "writeTokens", "write"} => File(pr) # NoFile
        /\ pr.pc \in {"openTokens", "writeTokens"} =>
              p \notin risk /\ pr.tokens = Whole([req |-> pr.req, clean |-> TRUE])
        /\ pr.pc \in {"parse", "lookup", "load", "open", "write"} => tokensRight
        /\ pr.pc \in {"open", "write"} =>
              \E d \in Data : /\ pr.art = Whole(d) /\ d.req = pr.req
                              /\ p \notin risk => d.clean
        /\ pr.pc \in {"writeTokens", "write"} => pr.at \in 1 .. Blocks
        /\ pr.pc = "done" /\ p \notin risk => RightFor(KindOf(pr), pr.req, pr.art)

CachesInv == Shapes /\ FilesKept /\ \A p \in Procs : Says(p)

-----------------------------------------------------------------------------
\* A file is a sequence of blocks that is no longer than a complete one.
LEMMA FileItems ==
    ASSUME NEW f \in Files
    PROVE  /\ Len(f) \in 0 .. Blocks /\ DOMAIN f = 1 .. Len(f)
           /\ f \in [1 .. Len(f) -> DataBlock \cup {Hole}]
<1> PICK n \in 0 .. Blocks : f \in [1 .. n -> DataBlock \cup {Hole}]
  BY DEF Files
<1>1. Len(f) = n
  OBVIOUS
<1> QED BY <1>1

\* A function on the first n numbers is a file.
LEMMA IsFile ==
    ASSUME NEW n \in 0 .. Blocks, NEW f \in [1 .. n -> DataBlock \cup {Hole}]
    PROVE  f \in Files /\ Len(f) = n
<1>1. Len(f) = n
  OBVIOUS
<1> QED BY <1>1 DEF Files

\* What is made at once is complete.
LEMMA WholeItems ==
    ASSUME NEW d \in Data
    PROVE  /\ Whole(d) \in Files /\ Len(Whole(d)) = Blocks
           /\ \A i \in 1 .. Blocks : /\ Whole(d)[i] \in DataBlock /\ Whole(d)[i] # Hole
                                     /\ Whole(d)[i].of = d /\ Whole(d)[i].n = i
<1>1. \A i \in 1 .. Blocks : [of |-> d, n |-> i] \in DataBlock
  BY DEF DataBlock
<1>2. Whole(d) \in [1 .. Blocks -> DataBlock \cup {Hole}]
  BY <1>1 DEF Whole
<1>3. Whole(d) \in Files /\ Len(Whole(d)) = Blocks
  BY <1>2, IsFile
<1>4. \A i \in 1 .. Blocks : Whole(d)[i] = [of |-> d, n |-> i]
  BY DEF Whole
<1> QED BY <1>1, <1>3, <1>4

\* What is made of a request's own text, without risk, is right for it.
LEMMA WholeIsRight ==
    ASSUME NEW d \in Data, d.clean, NEW kind
    PROVE  RightFor(kind, d.req, Whole(d))
  BY WholeItems DEF RightFor

\* A block written at its place leaves the others where they are.
LEMMA PutItems ==
    ASSUME NEW f \in Files, NEW i \in 1 .. Blocks, NEW b \in DataBlock
    PROVE  /\ Put(f, i, b) \in Files /\ Len(Put(f, i, b)) >= i
           /\ Len(Put(f, i, b)) >= Len(f) /\ Put(f, i, b)[i] = b
           /\ \A j \in 1 .. Len(Put(f, i, b)) :
                j # i => Put(f, i, b)[j] = IF j <= Len(f) THEN f[j] ELSE Hole
<1> DEFINE n == IF i > Len(f) THEN i ELSE Len(f)
<1>1. Len(f) \in 0 .. Blocks /\ f \in [1 .. Len(f) -> DataBlock \cup {Hole}]
  BY FileItems
<1>2. n \in 0 .. Blocks /\ n >= i /\ n >= Len(f)
  BY <1>1
<1>3. Put(f, i, b) =
        [j \in 1 .. n |-> IF j = i THEN b ELSE IF j <= Len(f) THEN f[j] ELSE Hole]
  BY DEF Put
<1>4. ASSUME NEW j \in 1 .. n
      PROVE  (IF j = i THEN b ELSE IF j <= Len(f) THEN f[j] ELSE Hole) \in DataBlock \cup {Hole}
  BY <1>1, <1>2
<1> HIDE DEF n
<1>5. Put(f, i, b) \in [1 .. n -> DataBlock \cup {Hole}]
  BY <1>3, <1>4
<1>6. Put(f, i, b) \in Files /\ Len(Put(f, i, b)) = n
  BY <1>2, <1>5, IsFile
<1> QED BY <1>2, <1>3, <1>6

\* The file a process looks at is one of the disk, and so is its key.
LEMMA ItsFile ==
    ASSUME Shapes, NEW p \in Procs, proc[p].pc # "idle"
    PROVE  /\ proc[p] \in Busy /\ KindOf(proc[p]) \in EntryKinds
           /\ KeyOf(KindOf(proc[p]), proc[p].req) \in Keys(KindOf(proc[p]))
           /\ File(proc[p]) \in Files \cup {NoFile}
<1>1. proc[p] \in Busy
  BY DEF Shapes, AtRest
<1>2. KindOf(proc[p]) \in EntryKinds /\ proc[p].req \in Requests
  BY <1>1 DEF KindOf, EntryKinds, Busy
<1>3. KeyOf(KindOf(proc[p]), proc[p].req) \in Keys(KindOf(proc[p]))
  BY <1>2 DEF Keys
<1> QED BY <1>1, <1>2, <1>3 DEF File, Shapes

\* What a process reads without a risk is what it asked for: the file is complete,
\* and its key leaves out nothing that the blocks depend on.
LEMMA SafeRead ==
    ASSUME CachesInv, NEW p \in Procs, proc[p].pc # "idle",
           File(proc[p]) # NoFile, ~Risky(proc[p])
    PROVE  RightFor(KindOf(proc[p]), proc[p].req, File(proc[p]))
<1> DEFINE pr == proc[p]
           kind == KindOf(pr)
           key == KeyOf(kind, pr.req)
           f == disk[kind][key]
<1>1. /\ kind \in EntryKinds /\ key \in Keys(kind) /\ f = File(pr) /\ f \in Files
      /\ pr.req \in Requests
  BY ItsFile DEF CachesInv, File, Busy
<1>2. /\ ~InFlight(kind, key) /\ <<kind, key>> \notin abandoned
      /\ \A b \in ToSet(f) \ {Hole} : ~Ambiguous(kind, b.of.req, pr.req) /\ b.of.clean
  BY DEF Risky
<1>3. Placed(kind, key) /\ UpTo(f, Blocks)
  BY <1>1, <1>2 DEF CachesInv, FilesKept, Attended, InFlight
<1>4. Len(f) = Blocks /\ f \in [1 .. Blocks -> DataBlock \cup {Hole}]
  BY <1>1, <1>3, FileItems DEF UpTo
<1>5. ASSUME NEW i \in 1 .. Blocks
      PROVE  /\ f[i] # Hole /\ f[i].n = i
             /\ Needs(kind, f[i].of.req) = Needs(kind, pr.req) /\ f[i].of.clean
  <2>1. f[i] # Hole /\ f[i].n = i /\ KeyOf(kind, f[i].of.req) = key
    BY <1>3, <1>4 DEF UpTo, Placed
  <2>2. f[i] \in ToSet(f) \ {Hole}
    BY <1>4, <2>1 DEF ToSet
  <2>3. ~Ambiguous(kind, f[i].of.req, pr.req) /\ f[i].of.clean
    BY <1>2, <2>2
  <2>4. Needs(kind, f[i].of.req) = Needs(kind, pr.req)
    <3> DEFINE q == f[i].of.req
               r == pr.req
    <3>1. CASE kind = "tokens"
      <4>1. TokensKey(q) = TokensKey(r)
        BY <2>1, <3>1 DEF KeyOf
      <4>2. Joined(kind, q) = Joined(kind, r)
        BY <3>1, <4>1 DEF Joined, TokensKey
      <4> QED BY <2>3, <4>2 DEF Ambiguous
    <3>2. CASE kind = "module"
      <4>1. ModuleKey(q) = ModuleKey(r)
        BY <2>1, <3>2 DEF KeyOf
      <4>2. Joined(kind, q) = Joined(kind, r)
        BY <3>2, <4>1 DEF Joined, ModuleKey
      <4> QED BY <2>3, <4>2 DEF Ambiguous
    <3>3. CASE kind = "binary"
      <4>1. BinaryKey(q) = BinaryKey(r)
        BY <2>1, <3>3 DEF KeyOf
      <4> QED BY <3>3, <4>1 DEF Needs, BinaryKey
    <3> QED BY <1>1, <3>1, <3>2, <3>3 DEF EntryKinds
  <2> QED BY <2>1, <2>3, <2>4
<1> HIDE DEF f, key
<1>6. RightFor(kind, pr.req, f)
  BY <1>4, <1>5 DEF RightFor
<1> QED BY <1>1, <1>6

-----------------------------------------------------------------------------
\* A process that takes no step says what it said, as long as no file goes away.
LEMMA OthersSay ==
    ASSUME Shapes, NEW q \in Procs, Says(q), proc'[q] = proc[q], q \in risk' <=> q \in risk,
           \A kind \in EntryKinds : \A key \in Keys(kind) :
               disk[kind][key] # NoFile => disk'[kind][key] # NoFile
    PROVE  Says(q)'
<1>1. proc[q].pc \in {"loadTokens", "load", "writeTokens", "write"} => File(proc[q])' # NoFile
  BY ItsFile DEF File, Says
<1> QED BY <1>1 DEF Says

\* What a step of p makes of the state, when it touches no file.
LEMMA OneSteps ==
    ASSUME CachesInv, NEW p \in Procs, NEW r \in Busy \cup {AtRest},
           proc' = [proc EXCEPT ![p] = r], disk' = disk, abandoned' = abandoned,
           proc[p].pc \notin {"writeTokens", "write"},
           risk' \in {risk, risk \cup {p}, risk \ {p}}, p \in risk' => r.pc # "idle",
           starts' \in 0 .. MaxStarts, kills' \in 0 .. MaxKills, Says(p)'
    PROVE  CachesInv'
<1>1. proc' \in [Procs -> Busy \cup {AtRest}] /\ proc'[p] = r
      /\ \A q \in Procs \ {p} : proc'[q] = proc[q]
  BY DEF CachesInv, Shapes
<1>2. Shapes'
  <2>1. risk' \subseteq {q \in Procs : proc'[q].pc # "idle"}
    BY <1>1 DEF CachesInv, Shapes
  <2> QED BY <1>1, <2>1 DEF CachesInv, Shapes
<1>3. FilesKept'
  <2>1. \A kind, key : \A q \in Procs :
            Writing(q, kind, key) => Writing(q, kind, key)' /\ proc'[q] = proc[q]
    BY <1>1 DEF Writing
  <2>2. \A kind, key : Attended(kind, key) => Attended(kind, key)'
    BY <2>1 DEF Attended
  <2> QED BY <2>2 DEF CachesInv, FilesKept, Placed
<1>4. \A q \in Procs : Says(q)'
  BY <1>1, OthersSay DEF CachesInv
<1> QED BY <1>2, <1>3, <1>4 DEF CachesInv

\* lex() begins.
LEMMA StartStep ==
    ASSUME CachesInv, NEW p \in Procs, NEW r \in Requests, Start(p, r) PROVE CachesInv'
<1> DEFINE b == [pc |-> "hasTokens", req |-> r, tokens |-> <<>>, art |-> <<>>, at |-> 0]
<1>1. /\ proc[p].pc = "idle" /\ starts < MaxStarts /\ starts' = starts + 1
      /\ proc' = [proc EXCEPT ![p] = b] /\ UNCHANGED <<disk, kills, abandoned, risk>>
  BY DEF Start
<1>2. <<>> \in Files
  <2>1. 0 \in 0 .. Blocks /\ <<>> \in [1 .. 0 -> DataBlock \cup {Hole}]
    OBVIOUS
  <2> QED BY <2>1, IsFile
<1>3. b \in Busy
  BY <1>2 DEF Busy, BusyPcs
<1>4. p \notin risk /\ proc'[p] = b
  BY <1>1 DEF CachesInv, Shapes
<1>5. Says(p)'
  BY <1>1, <1>4 DEF Says
<1>6. starts' \in 0 .. MaxStarts /\ kills' \in 0 .. MaxKills
  BY <1>1 DEF CachesInv, Shapes
<1> HIDE DEF b
<1> QED BY <1>1, <1>3, <1>4, <1>5, <1>6, OneSteps

\* The token cache is asked: without a file, the source is lexed.
LEMMA HasTokensStep == ASSUME CachesInv, NEW p \in Procs, HasTokens(p) PROVE CachesInv'
<1> DEFINE pr == proc[p]
           d == [req |-> pr.req, clean |-> TRUE]
           found == [pr EXCEPT !.pc = "loadTokens"]
           lexed == [pr EXCEPT !.pc = "openTokens", !.tokens = Whole(d)]
<1>1. /\ pr.pc = "hasTokens" /\ pr \in Busy /\ p \notin risk /\ d \in Data
      /\ UNCHANGED <<disk, starts, kills, abandoned, risk>>
  <2>1. pr.pc = "hasTokens" /\ UNCHANGED <<disk, starts, kills, abandoned, risk>>
    BY DEF HasTokens
  <2>2. pr \in Busy
    BY <2>1, ItsFile DEF CachesInv
  <2>3. p \notin risk
    BY <2>1 DEF CachesInv, Says
  <2> QED BY <2>1, <2>2, <2>3 DEF Busy, Data
<1>2. \/ File(pr) # NoFile /\ proc' = [proc EXCEPT ![p] = found]
      \/ proc' = [proc EXCEPT ![p] = lexed]
  <2>1. Made(p) = d
    BY <1>1 DEF Made
  <2>2. p \in DOMAIN proc
    BY DEF CachesInv, Shapes
  <2> QED BY <2>1, <2>2 DEF HasTokens
<1>3. found \in Busy /\ lexed \in Busy
  BY <1>1, WholeItems DEF Busy, BusyPcs
<1>4. /\ found.pc = "loadTokens" /\ found.req = pr.req
      /\ lexed.pc = "openTokens" /\ lexed.req = pr.req /\ lexed.tokens = Whole(d)
  BY <1>1 DEF Busy
<1>5. /\ proc \in [Procs -> Busy \cup {AtRest}]
      /\ starts' \in 0 .. MaxStarts /\ kills' \in 0 .. MaxKills
  BY <1>1 DEF CachesInv, Shapes
<1> HIDE DEF found, lexed
<1>6. CASE File(pr) # NoFile /\ proc' = [proc EXCEPT ![p] = found]
  <2>1. proc'[p] = found
    BY <1>5, <1>6
  <2>2. File(proc[p])' # NoFile
    BY <1>1, <1>4, <1>6, <2>1 DEF File, KindOf
  <2>3. Says(p)'
    BY <1>1, <1>4, <2>1, <2>2 DEF Says
  <2> QED BY <1>1, <1>3, <1>4, <1>5, <1>6, <2>3, OneSteps
<1>7. CASE proc' = [proc EXCEPT ![p] = lexed]
  <2>1. proc'[p] = lexed
    BY <1>5, <1>7
  <2>2. Says(p)'
    BY <1>1, <1>4, <2>1 DEF Says
  <2> QED BY <1>1, <1>3, <1>4, <1>5, <1>7, <2>2, OneSteps
<1> QED BY <1>2, <1>6, <1>7

\* What the token cache holds is used as it is.
LEMMA LoadTokensStep == ASSUME CachesInv, NEW p \in Procs, LoadTokens(p) PROVE CachesInv'
<1> DEFINE pr == proc[p]
           r == [pr EXCEPT !.pc = "parse", !.tokens = File(pr)]
<1>1. /\ pr.pc = "loadTokens" /\ proc' = [proc EXCEPT ![p].pc = "parse", ![p].tokens = File(pr)]
      /\ risk' = IF Risky(pr) THEN risk \cup {p} ELSE risk
      /\ UNCHANGED <<disk, starts, kills, abandoned>>
  BY DEF LoadTokens
<1>2. pr \in Busy /\ File(pr) \in Files /\ File(pr) # NoFile /\ p \notin risk
  <2>1. File(pr) # NoFile /\ p \notin risk
    BY <1>1 DEF CachesInv, Says
  <2> QED BY <1>1, <2>1, ItsFile DEF CachesInv
<1>3. /\ proc \in [Procs -> Busy \cup {AtRest}]
      /\ starts' \in 0 .. MaxStarts /\ kills' \in 0 .. MaxKills
  BY <1>1 DEF CachesInv, Shapes
<1>4. /\ r \in Busy /\ r.pc = "parse" /\ r.req = pr.req /\ r.tokens = File(pr)
      /\ proc' = [proc EXCEPT ![p] = r] /\ proc'[p] = r
  BY <1>1, <1>2, <1>3 DEF Busy, BusyPcs
<1> HIDE DEF r
<1>5. p \notin risk' => RightFor("tokens", r.req, r.tokens)
  <2>1. KindOf(pr) = "tokens"
    BY <1>1 DEF KindOf
  <2> QED BY <1>1, <1>2, <1>4, <2>1, SafeRead
<1>6. Says(p)'
  BY <1>4, <1>5 DEF Says
<1> QED BY <1>1, <1>3, <1>4, <1>6, OneSteps

\* A step that only moves a process on, to a place about which it says nothing new.
LEMMA Moves ==
    ASSUME CachesInv, NEW p \in Procs, NEW pc \in BusyPcs, Goto(p, pc),
           proc[p].pc \notin {"idle", "writeTokens", "write"},
           UNCHANGED <<disk, starts, kills, abandoned, risk>>,
           \/ pc = "failed"
           \/ pc \in {"parse", "lookup"}
                /\ (p \notin risk => RightFor("tokens", proc[p].req, proc[p].tokens))
           \/ /\ pc = "done"
              /\ p \notin risk =>
                    RightFor(IF proc[p].req.mode = "bytecode" THEN "module" ELSE "binary",
                             proc[p].req, proc[p].art)
    PROVE  CachesInv'
<1> DEFINE pr == proc[p]
           r == [pr EXCEPT !.pc = pc]
<1>1. pr \in Busy
  BY ItsFile DEF CachesInv
<1>2. /\ proc \in [Procs -> Busy \cup {AtRest}]
      /\ starts' \in 0 .. MaxStarts /\ kills' \in 0 .. MaxKills
  BY DEF CachesInv, Shapes
<1>3. /\ r \in Busy /\ r.pc = pc /\ r.req = pr.req /\ r.tokens = pr.tokens /\ r.art = pr.art
      /\ proc' = [proc EXCEPT ![p] = r] /\ proc'[p] = r
  BY <1>1, <1>2 DEF Busy, Goto
<1>4. pc # "idle"
  BY DEF BusyPcs
<1> HIDE DEF r
<1>5. Says(p)'
  BY <1>3 DEF Says, KindOf
<1> QED BY <1>2, <1>3, <1>4, <1>5, OneSteps

\* Wrong tokens may end a process, and need not.
LEMMA ParseStep == ASSUME CachesInv, NEW p \in Procs, Parse(p) PROVE CachesInv'
<1>1. /\ proc[p].pc = "parse" /\ UNCHANGED <<disk, starts, kills, abandoned, risk>>
      /\ Goto(p, "lookup") \/ Goto(p, "failed")
  BY DEF Parse
<1>2. p \notin risk => RightFor("tokens", proc[p].req, proc[p].tokens)
  BY <1>1 DEF CachesInv, Says
<1> QED BY <1>1, <1>2, Moves DEF BusyPcs

\* A program is compiled from the tokens at hand.
LEMMA CompiledSays ==
    ASSUME CachesInv, NEW p \in Procs, proc[p].pc \in {"lookup", "load"},
           proc' = Compiled(p), UNCHANGED <<disk, starts, kills, abandoned, risk>>
    PROVE  CachesInv'
<1> DEFINE pr == proc[p]
           d == Translated(p)
           r == [pr EXCEPT !.pc = "open", !.art = Whole(d)]
<1>1. pr \in Busy /\ (p \notin risk => RightFor("tokens", pr.req, pr.tokens))
  <2>1. pr.pc # "idle"
    OBVIOUS
  <2> QED BY <2>1, ItsFile DEF CachesInv, Says
<1>2. d \in Data /\ d.req = pr.req /\ (p \notin risk => d.clean)
  BY <1>1 DEF Translated, Data, Busy
<1> HIDE DEF d
<1>3. /\ proc \in [Procs -> Busy \cup {AtRest}]
      /\ starts' \in 0 .. MaxStarts /\ kills' \in 0 .. MaxKills
  BY DEF CachesInv, Shapes
<1>4. Whole(d) \in Files
  BY <1>2, WholeItems
<1>5. proc' = [proc EXCEPT ![p].pc = "open", ![p].art = Whole(d)]
  BY DEF Compiled, d
<1>6. /\ r \in Busy /\ r.pc = "open" /\ r.req = pr.req /\ r.tokens = pr.tokens
      /\ r.art = Whole(d) /\ proc' = [proc EXCEPT ![p] = r] /\ proc'[p] = r
  BY <1>1, <1>3, <1>4, <1>5 DEF Busy, BusyPcs
<1> HIDE DEF r
<1>7. Says(p)'
  BY <1>1, <1>2, <1>6 DEF Says
<1> QED BY <1>3, <1>6, <1>7, OneSteps

\* The cache of what was compiled is asked.
LEMMA LookupStep == ASSUME CachesInv, NEW p \in Procs, Lookup(p) PROVE CachesInv'
<1> DEFINE pr == proc[p]
           r == [pr EXCEPT !.pc = "load"]
<1>1. /\ pr.pc = "lookup" /\ UNCHANGED <<disk, starts, kills, abandoned, risk>>
      /\ \/ File(pr) # NoFile /\ proc' = [proc EXCEPT ![p].pc = "load"]
         \/ proc' = Compiled(p)
  BY DEF Lookup
<1>2. CASE proc' = Compiled(p)
  BY <1>1, <1>2, CompiledSays
<1>3. CASE File(pr) # NoFile /\ proc' = [proc EXCEPT ![p].pc = "load"]
  <2>1. pr \in Busy /\ (p \notin risk => RightFor("tokens", pr.req, pr.tokens))
    BY <1>1, ItsFile DEF CachesInv, Says
  <2>2. /\ proc \in [Procs -> Busy \cup {AtRest}]
        /\ starts' \in 0 .. MaxStarts /\ kills' \in 0 .. MaxKills
    BY <1>1 DEF CachesInv, Shapes
  <2>3. /\ r \in Busy /\ r.pc = "load" /\ r.req = pr.req /\ r.tokens = pr.tokens
        /\ proc' = [proc EXCEPT ![p] = r] /\ proc'[p] = r
    BY <1>3, <2>1, <2>2 DEF Busy, BusyPcs
  <2> HIDE DEF r
  <2>4. File(proc[p])' # NoFile
    BY <1>1, <1>3, <2>3 DEF File, KindOf
  <2>5. Says(p)'
    BY <1>1, <2>1, <2>3, <2>4 DEF Says
  <2> QED BY <1>1, <2>2, <2>3, <2>5, OneSteps
<1> QED BY <1>1, <1>2, <1>3

\* A file that is accepted is run; without a risk it is the right one.
LEMMA LoadStep == ASSUME CachesInv, NEW p \in Procs, Load(p) PROVE CachesInv'
<1> DEFINE pr == proc[p]
           r == [pr EXCEPT !.pc = "done", !.art = File(pr)]
<1>1. /\ pr.pc = "load" /\ UNCHANGED <<disk, starts, kills, abandoned>>
      /\ \/ /\ risk' = IF Risky(pr) THEN risk \cup {p} ELSE risk
            /\ proc' = [proc EXCEPT ![p].pc = "done", ![p].art = File(pr)]
         \/ risk' = risk /\ proc' = Compiled(p)
  BY DEF Load
<1>2. CASE risk' = risk /\ proc' = Compiled(p)
  BY <1>1, <1>2, CompiledSays
<1>3. CASE /\ risk' = IF Risky(pr) THEN risk \cup {p} ELSE risk
           /\ proc' = [proc EXCEPT ![p].pc = "done", ![p].art = File(pr)]
  <2>1. pr \in Busy /\ File(pr) \in Files /\ File(pr) # NoFile
    <3>1. File(pr) # NoFile
      BY <1>1 DEF CachesInv, Says
    <3> QED BY <1>1, <3>1, ItsFile DEF CachesInv
  <2>2. /\ proc \in [Procs -> Busy \cup {AtRest}]
        /\ starts' \in 0 .. MaxStarts /\ kills' \in 0 .. MaxKills
    BY <1>1 DEF CachesInv, Shapes
  <2>3. /\ r \in Busy /\ r.pc = "done" /\ r.req = pr.req /\ r.art = File(pr)
        /\ proc' = [proc EXCEPT ![p] = r] /\ proc'[p] = r
    BY <1>3, <2>1, <2>2 DEF Busy, BusyPcs
  <2> HIDE DEF r
  <2>4. p \notin risk' => RightFor(KindOf(r), r.req, r.art)
    <3>1. KindOf(r) = KindOf(pr)
      BY <1>1, <2>3 DEF KindOf
    <3> QED BY <1>1, <1>3, <2>1, <2>3, <3>1, SafeRead
  <2>5. Says(p)'
    BY <2>3, <2>4 DEF Says
  <2> QED BY <1>1, <1>3, <2>2, <2>3, <2>5, OneSteps
<1> QED BY <1>1, <1>2, <1>3

\* Nothing is saved, and nobody is told.
LEMMA CannotSaveStep == ASSUME CachesInv, NEW p \in Procs, CannotSave(p) PROVE CachesInv'
<1> DEFINE pr == proc[p]
<1>1. /\ pr.pc \in {"openTokens", "open"} /\ Goto(p, AfterSave(pr.pc))
      /\ UNCHANGED <<disk, starts, kills, abandoned, risk>>
  BY DEF CannotSave
<1>2. pr \in Busy
  BY <1>1, ItsFile DEF CachesInv
<1>3. CASE pr.pc = "openTokens"
  <2>1. RightFor("tokens", pr.req, pr.tokens)
    <3> DEFINE d == [req |-> pr.req, clean |-> TRUE]
    <3>1. d \in Data /\ d.clean /\ d.req = pr.req /\ pr.tokens = Whole(d)
      BY <1>2, <1>3 DEF CachesInv, Says, Data, Busy
    <3> HIDE DEF d
    <3>2. RightFor("tokens", d.req, Whole(d))
      BY <3>1, WholeIsRight
    <3> QED BY <3>1, <3>2
  <2>2. Goto(p, "parse")
    BY <1>1, <1>3 DEF AfterSave
  <2> QED BY <1>1, <1>3, <2>1, <2>2, Moves DEF BusyPcs
<1>4. CASE pr.pc = "open"
  <2>1. PICK d \in Data : pr.art = Whole(d) /\ d.req = pr.req /\ (p \notin risk => d.clean)
    BY <1>4 DEF CachesInv, Says
  <2>2. \A kind : p \notin risk => RightFor(kind, pr.req, pr.art)
    BY <2>1, WholeIsRight
  <2>3. Goto(p, "done")
    BY <1>1, <1>4 DEF AfterSave
  <2> QED BY <1>1, <1>4, <2>2, <2>3, Moves DEF BusyPcs
<1> QED BY <1>1, <1>3, <1>4

\* A process ends.
LEMMA ExitStep == ASSUME CachesInv, NEW p \in Procs, Exit(p) PROVE CachesInv'
<1>1. /\ proc[p].pc \in {"done", "failed"} /\ proc' = [proc EXCEPT ![p] = AtRest]
      /\ risk' = risk \ {p} /\ UNCHANGED <<disk, starts, kills, abandoned>>
  BY DEF Exit
<1>2. proc'[p] = AtRest /\ starts' \in 0 .. MaxStarts /\ kills' \in 0 .. MaxKills
  BY <1>1 DEF CachesInv, Shapes
<1>3. Says(p)'
  BY <1>2 DEF Says, AtRest
<1> QED BY <1>1, <1>2, <1>3, OneSteps

\* The file of a process that is killed while it writes is left to the next one.
LEMMA KillStep == ASSUME CachesInv, NEW p \in Procs, Kill(p) PROVE CachesInv'
<1> DEFINE pr == proc[p]
<1>1. /\ pr.pc \notin {"idle", "done", "failed"} /\ kills < MaxKills /\ kills' = kills + 1
      /\ abandoned' = IF pr.pc \in {"writeTokens", "write"}
                      THEN abandoned \cup {<<KindOf(pr), KeyOf(KindOf(pr), pr.req)>>}
                      ELSE abandoned
      /\ proc' = [proc EXCEPT ![p] = AtRest] /\ risk' = risk \ {p}
      /\ UNCHANGED <<disk, starts>>
  BY DEF Kill
<1>2. /\ proc' \in [Procs -> Busy \cup {AtRest}] /\ proc'[p] = AtRest
      /\ \A q \in Procs \ {p} : proc'[q] = proc[q]
  BY <1>1 DEF CachesInv, Shapes
<1>3. Says(p)'
  BY <1>2 DEF Says, AtRest
<1>4. Shapes'
  <2>1. KindOf(pr) \in EntryKinds /\ KeyOf(KindOf(pr), pr.req) \in Keys(KindOf(pr))
    BY <1>1, ItsFile DEF CachesInv
  <2>2. \A e \in abandoned' : e[1] \in EntryKinds /\ e[2] \in Keys(e[1])
    BY <1>1, <2>1 DEF CachesInv, Shapes
  <2>3. risk' \subseteq {q \in Procs : proc'[q].pc # "idle"}
    BY <1>1, <1>2 DEF CachesInv, Shapes
  <2> QED BY <1>1, <1>2, <2>2, <2>3 DEF CachesInv, Shapes
<1>5. FilesKept'
  <2>1. \A kind, key : Attended(kind, key) => Attended(kind, key)' \/ <<kind, key>> \in abandoned'
    <3> SUFFICES ASSUME NEW kind, NEW key, NEW q \in Procs, Writing(q, kind, key),
                        UpTo(disk[kind][key], proc[q].at - 1)
                 PROVE  Attended(kind, key)' \/ <<kind, key>> \in abandoned'
      BY DEF Attended
    <3>1. CASE q = p
      BY <1>1, <3>1 DEF Writing
    <3>2. CASE q # p
      BY <1>1, <1>2, <3>2 DEF Attended, Writing
    <3> QED BY <3>1, <3>2
  <2>2. abandoned \subseteq abandoned' /\ disk' = disk
    BY <1>1
  <2> QED BY <2>1, <2>2 DEF CachesInv, FilesKept, Placed
<1>6. \A q \in Procs : Says(q)'
  BY <1>1, <1>2, <1>3, OthersSay DEF CachesInv
<1> QED BY <1>4, <1>5, <1>6 DEF CachesInv

\* One file of the disk gets new contents.
FileBecomes(kind, key, f) == disk' = [disk EXCEPT ![kind][key] = f]

\* What that does to the disk.
LEMMA DiskWrite ==
    ASSUME Shapes, NEW kind \in EntryKinds, NEW key \in Keys(kind), NEW f \in Files,
           FileBecomes(kind, key, f)
    PROVE  /\ DOMAIN disk' = EntryKinds /\ disk' = [k \in EntryKinds |-> disk'[k]]
           /\ \A k \in EntryKinds : disk'[k] \in [Keys(k) -> Files \cup {NoFile}]
           /\ disk'[kind][key] = f
           /\ \A k \in EntryKinds : \A x \in Keys(k) :
                <<k, x>> # <<kind, key>> => disk'[k][x] = disk[k][x]
<1>1. /\ DOMAIN disk = EntryKinds /\ disk = [k \in EntryKinds |-> disk[k]]
      /\ \A k \in EntryKinds : disk[k] \in [Keys(k) -> Files \cup {NoFile}]
  BY DEF Shapes
<1>2. disk' = [k \in EntryKinds |-> IF k = kind THEN [disk[k] EXCEPT ![key] = f] ELSE disk[k]]
  BY <1>1 DEF FileBecomes
<1>3. /\ disk'[kind] = [disk[kind] EXCEPT ![key] = f]
      /\ \A k \in EntryKinds \ {kind} : disk'[k] = disk[k]
  BY <1>2
<1>4. [disk[kind] EXCEPT ![key] = f] \in [Keys(kind) -> Files \cup {NoFile}]
  BY <1>1
<1>5. \A k \in EntryKinds : disk'[k] \in [Keys(k) -> Files \cup {NoFile}]
  BY <1>1, <1>3, <1>4
<1>6. disk'[kind][key] = f /\ \A x \in Keys(kind) \ {key} : disk'[kind][x] = disk[kind][x]
  BY <1>1, <1>3
<1>7. disk' = [k \in EntryKinds |-> disk'[k]]
  BY <1>2
<1> QED BY <1>2, <1>3, <1>5, <1>6, <1>7

\* The blocks of f are in place and of this key.
BlocksOf(kind, key, f) ==
    \A i \in 1 .. Len(f) : f[i] # Hole => f[i].n = i /\ KeyOf(kind, f[i].of.req) = key

\* p writes this file or none.
OnlyFile(p, kind, key) == \A k, x : Writing(p, k, x) => k = kind /\ x = key

\* Once p has become r somebody attends to what f has become, or f is complete.
StillAttended(p, r, kind, key, f) ==
    \/ <<kind, key>> \in abandoned'
    \/ Writing(p, kind, key)' /\ UpTo(f, r.at - 1)
    \/ \E q \in Procs \ {p} : Writing(q, kind, key) /\ UpTo(f, proc[q].at - 1)
    \/ UpTo(f, Blocks)

\* What a step of p that writes to its file makes of the state.
LEMMA WriteSteps ==
    ASSUME CachesInv, NEW p \in Procs, NEW r \in Busy,
           NEW kind \in EntryKinds, NEW key \in Keys(kind), NEW f \in Files,
           proc' = [proc EXCEPT ![p] = r], FileBecomes(kind, key, f),
           abandoned' \in {abandoned, abandoned \ {<<kind, key>>}},
           UNCHANGED <<starts, kills, risk>>,
           OnlyFile(p, kind, key), BlocksOf(kind, key, f), StillAttended(p, r, kind, key, f),
           Says(p)'
    PROVE  CachesInv'
<1>1. /\ proc' \in [Procs -> Busy \cup {AtRest}] /\ proc'[p] = r
      /\ \A q \in Procs \ {p} : proc'[q] = proc[q]
  BY DEF CachesInv, Shapes
<1>2. /\ DOMAIN disk' = EntryKinds /\ disk' = [k \in EntryKinds |-> disk'[k]]
      /\ \A k \in EntryKinds : disk'[k] \in [Keys(k) -> Files \cup {NoFile}]
      /\ disk'[kind][key] = f
      /\ \A k \in EntryKinds : \A x \in Keys(k) :
            <<k, x>> # <<kind, key>> => disk'[k][x] = disk[k][x]
  BY DiskWrite DEF CachesInv
<1>3. Shapes'
  <2>1. r.pc # "idle"
    BY DEF Busy, BusyPcs
  <2>2. risk' \subseteq {q \in Procs : proc'[q].pc # "idle"}
    BY <1>1, <2>1 DEF CachesInv, Shapes
  <2>3. abandoned' \subseteq abandoned
    OBVIOUS
  <2> QED BY <1>1, <1>2, <2>2, <2>3 DEF CachesInv, Shapes
<1>4. \A k, x : \A q \in Procs \ {p} : Writing(q, k, x) => Writing(q, k, x)'
  BY <1>1 DEF Writing
<1>5. FilesKept'
  <2> SUFFICES ASSUME NEW k \in EntryKinds, NEW x \in Keys(k), disk'[k][x] # NoFile
               PROVE  /\ Placed(k, x)'
                      /\ \/ <<k, x>> \in abandoned' \/ Attended(k, x)'
                         \/ UpTo(disk'[k][x], Blocks)
    BY DEF FilesKept
  <2>1. CASE k = kind /\ x = key
    <3>1. Placed(kind, key)'
      BY <1>2 DEF Placed, BlocksOf
    <3>2. ASSUME Writing(p, kind, key)', UpTo(f, r.at - 1) PROVE Attended(kind, key)'
      <4>1. Writing(p, kind, key)' /\ UpTo(disk'[kind][key], proc'[p].at - 1)
        BY <1>1, <1>2, <3>2
      <4> QED BY <4>1 DEF Attended
    <3>3. ASSUME NEW q \in Procs \ {p}, Writing(q, kind, key), UpTo(f, proc[q].at - 1)
          PROVE  Attended(kind, key)'
      <4>1. Writing(q, kind, key)' /\ UpTo(disk'[kind][key], proc'[q].at - 1)
        BY <1>1, <1>2, <1>4, <3>3
      <4> QED BY <4>1 DEF Attended
    <3>4. <<kind, key>> \in abandoned' \/ Attended(kind, key)' \/ UpTo(disk'[kind][key], Blocks)
      BY <1>2, <3>2, <3>3 DEF StillAttended
    <3> QED BY <2>1, <3>1, <3>4
  <2>2. CASE k # kind \/ x # key
    <3>1. <<k, x>> # <<kind, key>>
      BY <2>2
    <3>2. disk'[k][x] = disk[k][x] /\ (<<k, x>> \in abandoned => <<k, x>> \in abandoned')
      BY <1>2, <3>1
    <3>3. ASSUME NEW q \in Procs, Writing(q, k, x), UpTo(disk[k][x], proc[q].at - 1)
          PROVE  Attended(k, x)'
      <4>1. q # p
        BY <2>2, <3>3 DEF OnlyFile
      <4>2. Writing(q, k, x)' /\ UpTo(disk'[k][x], proc'[q].at - 1)
        BY <1>1, <1>4, <3>2, <3>3, <4>1
      <4> QED BY <4>2 DEF Attended
    <3>4. Attended(k, x) => Attended(k, x)'
      BY <3>3 DEF Attended
    <3>5. Placed(k, x) /\ (<<k, x>> \in abandoned \/ Attended(k, x) \/ UpTo(disk[k][x], Blocks))
      BY <3>2 DEF CachesInv, FilesKept
    <3>6. Placed(k, x)'
      BY <3>2, <3>5 DEF Placed
    <3> QED BY <3>2, <3>4, <3>5, <3>6
  <2> QED BY <2>1, <2>2
<1>6. \A q \in Procs : Says(q)'
  <2>1. ASSUME NEW k \in EntryKinds, NEW x \in Keys(k), disk[k][x] # NoFile
        PROVE  disk'[k][x] # NoFile
    <3>1. f # NoFile
      BY MarksAssumption
    <3> QED BY <1>2, <2>1, <3>1
  <2>2. \A q \in Procs \ {p} : Says(q)'
    BY <1>1, <2>1, OthersSay DEF CachesInv
  <2> QED BY <2>2
<1> QED BY <1>3, <1>5, <1>6 DEF CachesInv

\* A file that is opened is empty, and p attends to it.
LEMMA OpenSaveStep == ASSUME CachesInv, NEW p \in Procs, OpenSave(p) PROVE CachesInv'
<1> DEFINE pr == proc[p]
           kind == KindOf(pr)
           key == KeyOf(kind, pr.req)
           pc == IF pr.pc = "open" THEN "write" ELSE "writeTokens"
           r == [pr EXCEPT !.pc = pc, !.at = 1]
           none == <<>>
<1>1. /\ pr.pc \in {"openTokens", "open"}
      /\ proc' = [proc EXCEPT ![p].pc = IF @ = "open" THEN "write" ELSE "writeTokens",
                              ![p].at = 1]
      /\ FileBecomes(kind, key, none) /\ abandoned' = abandoned \ {<<kind, key>>}
      /\ UNCHANGED <<starts, kills, risk>>
  BY DEF OpenSave, FileBecomes
<1>2. pr \in Busy /\ kind \in EntryKinds /\ key \in Keys(kind)
  BY <1>1, ItsFile DEF CachesInv
<1>3. proc \in [Procs -> Busy \cup {AtRest}] /\ 1 \in 1 .. Blocks
  BY DEF CachesInv, Shapes
<1>4. pc \in {"write", "writeTokens"} /\ (pc = "write" <=> pr.pc = "open")
  OBVIOUS
<1>5. proc' = [proc EXCEPT ![p].pc = pc, ![p].at = 1]
  BY <1>1
<1> HIDE DEF pc
<1>6. /\ r \in Busy /\ r.req = pr.req /\ r.tokens = pr.tokens
      /\ r.art = pr.art /\ r.at = 1 /\ r.pc = pc
  <2>1. pc \in BusyPcs /\ 1 \in 0 .. Blocks + 1
    BY <1>4 DEF BusyPcs
  <2> QED BY <1>2, <2>1 DEF Busy
<1>7. proc' = [proc EXCEPT ![p] = r] /\ proc'[p] = r
  BY <1>3, <1>5
<1> HIDE DEF r
<1>8. none \in Files /\ none # NoFile /\ Len(none) = 0
  <2>1. 0 \in 0 .. Blocks /\ none \in [1 .. 0 -> DataBlock \cup {Hole}]
    OBVIOUS
  <2> QED BY <2>1, IsFile
<1> HIDE DEF none
<1>9. KindOf(r) = kind
  BY <1>1, <1>4, <1>6 DEF KindOf
<1>10. StillAttended(p, r, kind, key, none)
  BY <1>4, <1>6, <1>7, <1>8, <1>9 DEF Writing, UpTo, StillAttended
<1>11. disk'[kind][key] = none
  BY <1>1, <1>2, <1>8, DiskWrite DEF CachesInv
<1>12. Says(p)'
  <2>1. File(proc[p])' # NoFile
    BY <1>6, <1>7, <1>8, <1>9, <1>11 DEF File
  <2>2. Says(p)
    BY DEF CachesInv
  <2> QED BY <1>1, <1>3, <1>4, <1>6, <1>7, <2>1, <2>2 DEF Says
<1>13. OnlyFile(p, kind, key)
  BY <1>1 DEF OnlyFile, Writing
<1>14. BlocksOf(kind, key, none)
  BY <1>8 DEF BlocksOf
<1>15. abandoned' \in {abandoned, abandoned \ {<<kind, key>>}}
  BY <1>1
<1> HIDE DEF kind, key
<1> QED BY <1>1, <1>2, <1>6, <1>7, <1>8, <1>10, <1>12, <1>13, <1>14, <1>15, WriteSteps

\* Writing a block keeps what is there, and adds one.
LEMMA PutKeeps ==
    ASSUME NEW f \in Files, NEW i \in 1 .. Blocks, NEW b \in DataBlock, NEW n \in 0 .. Blocks,
           UpTo(f, n)
    PROVE  UpTo(Put(f, i, b), n) /\ (n = i - 1 => UpTo(Put(f, i, b), i))
<1> DEFINE g == Put(f, i, b)
<1>1. /\ Len(g) \in Nat /\ Len(f) \in Nat /\ Len(g) >= i /\ Len(g) >= Len(f) /\ g[i] = b
      /\ \A j \in 1 .. Len(g) : j # i => g[j] = IF j <= Len(f) THEN f[j] ELSE Hole
  BY PutItems, FileItems
<1>2. b # Hole
  BY MarksAssumption
<1> HIDE DEF g
<1>3. \A j \in 1 .. n : g[j] # Hole
  BY <1>1, <1>2 DEF UpTo
<1>4. UpTo(g, n) /\ (n = i - 1 => UpTo(g, i))
  BY <1>1, <1>2, <1>3 DEF UpTo
<1> QED BY <1>4 DEF g

\* A block of what p saves is written where it belongs; others may be writing too.
LEMMA WriteBlockStep == ASSUME CachesInv, NEW p \in Procs, WriteBlock(p) PROVE CachesInv'
<1> DEFINE pr == proc[p]
           kind == KindOf(pr)
           key == KeyOf(kind, pr.req)
           src == IF pr.pc = "writeTokens" THEN pr.tokens ELSE pr.art
           f == disk[kind][key]
           g == Put(f, pr.at, src[pr.at])
           pc == IF pr.at = Blocks THEN AfterSave(pr.pc) ELSE pr.pc
           at == pr.at + 1
           r == [pr EXCEPT !.at = at, !.pc = pc]
<1>1. /\ pr.pc \in {"writeTokens", "write"}
      /\ disk' = [disk EXCEPT ![kind][key] = Put(@, pr.at, src[pr.at])]
      /\ proc' = [proc EXCEPT ![p].at = @ + 1,
                              ![p].pc = IF LastBlock(pr.at) THEN AfterSave(@) ELSE @]
      /\ UNCHANGED <<starts, kills, abandoned, risk>>
  BY DEF WriteBlock
<1>2. pr \in Busy /\ kind \in EntryKinds /\ key \in Keys(kind) /\ f = File(pr)
  BY <1>1, ItsFile DEF CachesInv, File
<1>3. pr.at \in 1 .. Blocks /\ f \in Files /\ f # NoFile
  BY <1>1, <1>2, ItsFile DEF CachesInv, Says
<1>4. PICK d \in Data : src = Whole(d) /\ d.req = pr.req /\ (p \notin risk => d.clean)
  <2>1. CASE pr.pc = "writeTokens"
    <3> DEFINE e == [req |-> pr.req, clean |-> TRUE]
    <3>1. e \in Data /\ e.req = pr.req /\ e.clean
      BY <1>2 DEF Data, Busy
    <3>2. src = Whole(e)
      BY <2>1 DEF CachesInv, Says
    <3> HIDE DEF e
    <3> QED BY <3>1, <3>2
  <2>2. CASE pr.pc = "write"
    BY <2>2 DEF CachesInv, Says
  <2> QED BY <1>1, <2>1, <2>2
<1> DEFINE b == src[pr.at]
<1>5. b \in DataBlock /\ b # Hole /\ b.of = d /\ b.n = pr.at
  BY <1>3, <1>4, WholeItems
<1>6. proc \in [Procs -> Busy \cup {AtRest}] /\ at \in 2 .. Blocks + 1
  BY <1>3 DEF CachesInv, Shapes
<1>7. /\ pc \in {"writeTokens", "write", "parse", "done"}
      /\ pr.at # Blocks => pc = pr.pc
      /\ pr.at = Blocks => pc = IF pr.pc = "writeTokens" THEN "parse" ELSE "done"
  BY <1>1 DEF AfterSave
<1>8. proc' = [proc EXCEPT ![p] = r]
  <2>1. proc' = [proc EXCEPT ![p] = [[pr EXCEPT !.at = @ + 1] EXCEPT
                    !.pc = IF LastBlock(pr.at) THEN AfterSave(@) ELSE @]]
    BY <1>1, <1>6
  <2>2. [pr EXCEPT !.at = @ + 1].pc = pr.pc
    BY <1>2 DEF Busy
  <2> QED BY <2>1, <2>2 DEF LastBlock
<1>9. FileBecomes(kind, key, g)
  BY <1>1 DEF FileBecomes
<1> HIDE DEF pc, at
<1>10. /\ r \in Busy /\ r.req = pr.req /\ r.tokens = pr.tokens /\ r.art = pr.art
       /\ r.at = at /\ r.pc = pc
  <2>1. pc \in BusyPcs /\ at \in 0 .. Blocks + 1
    BY <1>6, <1>7 DEF BusyPcs
  <2> QED BY <1>2, <2>1 DEF Busy
<1>11. proc'[p] = r
  BY <1>6, <1>8
<1> HIDE DEF r, b, src
<1> HIDE DEF f
<1>12. g = Put(f, pr.at, b)
  BY DEF b
<1> HIDE DEF g
<1>13. /\ g = Put(f, pr.at, b) /\ g \in Files /\ g[pr.at] = b
       /\ \A i \in 1 .. Len(g) : i # pr.at => g[i] = IF i <= Len(f) THEN f[i] ELSE Hole
  <2> DEFINE i == pr.at
  <2>1. i \in 1 .. Blocks
    BY <1>3
  <2> HIDE DEF i
  <2>2. /\ Put(f, i, b) \in Files /\ Put(f, i, b)[i] = b
        /\ \A j \in 1 .. Len(Put(f, i, b)) :
              j # i => Put(f, i, b)[j] = IF j <= Len(f) THEN f[j] ELSE Hole
    <3>1. f \in Files /\ b \in DataBlock
      BY <1>3, <1>5
    <3>2. Put(f, i, b) \in Files
      BY <2>1, <3>1, PutItems
    <3>3. Put(f, i, b)[i] = b
      BY <2>1, <3>1, PutItems
    <3>4. \A j \in 1 .. Len(Put(f, i, b)) :
            j # i => Put(f, i, b)[j] = IF j <= Len(f) THEN f[j] ELSE Hole
      BY <2>1, <3>1, PutItems
    <3> QED BY <3>2, <3>3, <3>4
  <2> QED BY <1>12, <2>2 DEF i
<1>14. g # NoFile
  BY <1>13, MarksAssumption
<1>15. BlocksOf(kind, key, g)
  <2> SUFFICES ASSUME NEW i \in 1 .. Len(g), g[i] # Hole
               PROVE  g[i].n = i /\ KeyOf(kind, g[i].of.req) = key
    BY DEF BlocksOf
  <2>1. CASE i = pr.at
    <3>1. g[i] = b
      BY <1>13, <2>1
    <3> QED BY <1>4, <1>5, <2>1, <3>1
  <2>2. CASE i # pr.at
    <3>1. g[i] = IF i <= Len(f) THEN f[i] ELSE Hole
      BY <1>13, <2>2
    <3>2. i \in 1 .. Len(f) /\ g[i] = f[i]
      BY <1>3, <1>13, <3>1, FileItems
    <3>3. \A j \in 1 .. Len(f) : f[j] # Hole => f[j].n = j /\ KeyOf(kind, f[j].of.req) = key
      BY <1>2, <1>3 DEF CachesInv, FilesKept, Placed, f
    <3> QED BY <3>2, <3>3
  <2> QED BY <2>1, <2>2
<1>16. disk'[kind][key] = g
  BY <1>2, <1>9, <1>13, DiskWrite DEF CachesInv
<1>17. pr.at # Blocks => KindOf(r) = kind /\ Writing(p, kind, key)'
  <2> SUFFICES ASSUME pr.at # Blocks PROVE KindOf(r) = kind /\ Writing(p, kind, key)'
    OBVIOUS
  <2>1. r.pc = pr.pc /\ r.req = pr.req
    BY <1>7, <1>10
  <2>2. KindOf(r) = kind
    BY <2>1 DEF KindOf
  <2> QED BY <1>1, <1>11, <2>1, <2>2 DEF Writing
<1>18. StillAttended(p, r, kind, key, g)
  <2>1. <<kind, key>> \in abandoned \/ Attended(kind, key) \/ UpTo(f, Blocks)
    BY <1>2, <1>3 DEF CachesInv, FilesKept, f
  <2>2. \A n \in 0 .. Blocks :
          UpTo(f, n) => UpTo(g, n) /\ (n = pr.at - 1 => UpTo(g, pr.at))
    BY <1>3, <1>5, <1>13, PutKeeps
  <2>3. CASE <<kind, key>> \in abandoned
    BY <1>1, <2>3 DEF StillAttended
  <2>4. CASE UpTo(f, Blocks)
    <3>1. Blocks \in 0 .. Blocks
      OBVIOUS
    <3> QED BY <2>2, <2>4, <3>1 DEF StillAttended
  <2>5. CASE Attended(kind, key)
    <3> PICK q \in Procs : Writing(q, kind, key) /\ UpTo(f, proc[q].at - 1)
      BY <2>5 DEF Attended, f
    <3>1. CASE q # p
      <4>1. proc[q].at \in 1 .. Blocks
        BY DEF Writing, CachesInv, Says
      <4>2. proc[q].at - 1 \in 0 .. Blocks
        BY <4>1
      <4> QED BY <2>2, <3>1, <4>2 DEF StillAttended
    <3>2. CASE q = p
      <4>1. pr.at - 1 \in 0 .. Blocks
        BY <1>3
      <4>2. UpTo(g, pr.at)
        BY <2>2, <3>2, <4>1
      <4>3. r.at - 1 = pr.at
        BY <1>3, <1>10 DEF at
      <4> QED BY <1>17, <4>2, <4>3 DEF StillAttended
    <3> QED BY <3>1, <3>2
  <2> QED BY <2>1, <2>3, <2>4, <2>5
<1>19. Says(p)'
  <2>1. Says(p)
    BY DEF CachesInv
  <2>2. CASE pr.at # Blocks
    <3>1. File(proc[p])' # NoFile
      BY <1>10, <1>11, <1>14, <1>16, <1>17, <2>2 DEF File
    <3>2. r.at \in 1 .. Blocks
      BY <1>3, <1>10, <2>2 DEF at
    <3>3. r.pc = pr.pc
      BY <1>7, <1>10, <2>2
    <3> QED BY <1>1, <1>10, <1>11, <2>1, <3>1, <3>2, <3>3 DEF Says
  <2>3. CASE pr.at = Blocks /\ pr.pc = "writeTokens"
    <3>1. r.pc = "parse"
      BY <1>7, <1>10, <2>3
    <3>2. p \notin risk => RightFor("tokens", pr.req, pr.tokens)
      BY <1>4, <2>3, WholeIsRight DEF src
    <3> QED BY <1>1, <1>10, <1>11, <3>1, <3>2 DEF Says
  <2>4. CASE pr.at = Blocks /\ pr.pc = "write"
    <3>1. r.pc = "done"
      BY <1>7, <1>10, <2>4
    <3>2. \A k : p \notin risk => RightFor(k, pr.req, pr.art)
      BY <1>4, <2>4, WholeIsRight DEF src
    <3> QED BY <1>1, <1>10, <1>11, <3>1, <3>2 DEF Says
  <2> QED BY <1>1, <2>2, <2>3, <2>4
<1>20. OnlyFile(p, kind, key)
  BY DEF OnlyFile, Writing
<1>21. abandoned' \in {abandoned, abandoned \ {<<kind, key>>}}
  BY <1>1
<1> HIDE DEF kind, key
<1> QED BY <1>1, <1>2, <1>8, <1>9, <1>10, <1>13, <1>15, <1>18, <1>19, <1>20, <1>21, WriteSteps

-----------------------------------------------------------------------------
\* At first there is no file and nobody is at work.
LEMMA CachesStart == CacheInit => CachesInv
<1> SUFFICES ASSUME CacheInit PROVE CachesInv
  OBVIOUS
<1>1. \A kind \in EntryKinds : \A key \in Keys(kind) : disk[kind][key] = NoFile
  BY DEF CacheInit
<1>2. \A p \in Procs : proc[p].pc = "idle"
  BY DEF CacheInit, AtRest
<1>3. Shapes
  BY DEF CacheInit, Shapes
<1>4. FilesKept
  BY <1>1 DEF FilesKept
<1>5. \A p \in Procs : Says(p)
  BY <1>2 DEF Says
<1> QED BY <1>3, <1>4, <1>5 DEF CachesInv

\* Every step keeps it.
LEMMA CachesStep == CachesInv /\ [CacheNext]_cacheVars => CachesInv'
<1> SUFFICES ASSUME CachesInv, [CacheNext]_cacheVars PROVE CachesInv'
  OBVIOUS
<1>1. CASE CacheNext
  <2> PICK p \in Procs : CacheStep(p)
    BY <1>1 DEF CacheNext
  <2>1. CASE \E r \in Requests : Start(p, r)
    BY <2>1, StartStep
  <2>2. CASE HasTokens(p)
    BY <2>2, HasTokensStep
  <2>3. CASE LoadTokens(p)
    BY <2>3, LoadTokensStep
  <2>4. CASE Parse(p)
    BY <2>4, ParseStep
  <2>5. CASE Lookup(p)
    BY <2>5, LookupStep
  <2>6. CASE Load(p)
    BY <2>6, LoadStep
  <2>7. CASE OpenSave(p)
    BY <2>7, OpenSaveStep
  <2>8. CASE CannotSave(p)
    BY <2>8, CannotSaveStep
  <2>9. CASE WriteBlock(p)
    BY <2>9, WriteBlockStep
  <2>10. CASE Kill(p)
    BY <2>10, KillStep
  <2>11. CASE Exit(p)
    BY <2>11, ExitStep
  <2> QED BY <2>1, <2>2, <2>3, <2>4, <2>5, <2>6, <2>7, <2>8, <2>9, <2>10, <2>11 DEF CacheStep
<1>2. CASE UNCHANGED cacheVars
  <2>1. \A kind, key : Attended(kind, key) <=> Attended(kind, key)'
    BY <1>2 DEF cacheVars, Attended, Writing
  <2>2. FilesKept'
    BY <1>2, <2>1 DEF cacheVars, CachesInv, FilesKept, Placed
  <2>3. Shapes'
    BY <1>2 DEF cacheVars, CachesInv, Shapes
  <2>4. \A p \in Procs : Says(p)'
    BY <1>2 DEF cacheVars, CachesInv, Says, File
  <2> QED BY <2>2, <2>3, <2>4 DEF CachesInv
<1> QED BY <1>1, <1>2

\* Whatever processes run, are killed and write over each other: every block is in its
\* place, every file that is not complete was left by a killed process or is still
\* attended to by one that wrote all of it so far, and a process that took no risk holds
\* what belongs to its own request (parse_cache.cpp, compilation_cache.cpp, main.cpp).
THEOREM CachesInvariance == CacheSpec => []CachesInv
<1> QED BY CachesStart, CachesStep, PTL DEF CacheSpec

\* A file nobody writes and no killed process left is complete, every block in its place,
\* for any number of processes, requests and blocks.
THEOREM FilesInOrder == CacheSpec => []CachesInOrder
<1>1. CachesInv => CachesInOrder
  <2> SUFFICES ASSUME CachesInv PROVE CachesInOrder
    OBVIOUS
  <2>1. CacheTypeOK
    <3>1. \A k \in EntryKinds : DOMAIN disk[k] = Keys(k)
                                /\ disk[k] \in [Keys(k) -> Files \cup {NoFile}]
      BY DEF CachesInv, Shapes
    <3>2. \A p \in Procs : proc[p] # AtRest => proc[p] \in Busy
      BY DEF CachesInv, Shapes
    <3>3. risk \subseteq Procs /\ starts \in 0 .. MaxStarts /\ kills \in 0 .. MaxKills
          /\ \A e \in abandoned : e[1] \in EntryKinds /\ e[2] \in Keys(e[1])
      BY DEF CachesInv, Shapes
    <3> QED BY <3>1, <3>2, <3>3 DEF CacheTypeOK, Busy
  <2>2. QuietFileComplete
    <3> SUFFICES ASSUME NEW k \in EntryKinds, NEW key \in DOMAIN disk[k],
                        disk[k][key] # NoFile, ~InFlight(k, key), <<k, key>> \notin abandoned
                 PROVE  /\ Len(disk[k][key]) = Blocks
                        /\ \A i \in 1 .. Blocks :
                              disk[k][key][i] # Hole /\ disk[k][key][i].n = i
      BY DEF QuietFileComplete
    <3> DEFINE f == disk[k][key]
    <3>1. key \in Keys(k) /\ f \in Files
      BY DEF CachesInv, Shapes
    <3>2. Placed(k, key) /\ UpTo(f, Blocks)
      BY <3>1 DEF CachesInv, FilesKept, Attended, InFlight
    <3>3. Len(f) = Blocks
      BY <3>1, <3>2, FileItems DEF UpTo
    <3> QED BY <3>2, <3>3 DEF UpTo, Placed
  <2> QED BY <2>1, <2>2 DEF CachesInOrder
<1> QED BY <1>1, CachesInvariance, PTL

\* A run of the driver that read no file at a bad time ends with the program of its own
\* request, at its own level, whatever the other runs did to the caches.
THEOREM OwnSource == CacheSpec => []RunsItsOwnSource
<1>1. CachesInv => RunsItsOwnSource
  BY DEF CachesInv, Says, RunsItsOwnSource
<1> QED BY <1>1, CachesInvariance, PTL

-----------------------------------------------------------------------------
(* The evaluator of auto_scheduler/ml_evaluator, its cache and statistics.      *)

EvalPcs == {"idle", "lookup", "hit", "features", "predict", "total", "store"}

\* The calls that are not in the total yet, and those counted only as predictions.
Uncounted == {t \in Threads : evalPc[t] \in EvalPcs \ {"idle", "store"}}
Predicted == {t \in Threads : At(t, "total")}

EvaluatorInv ==
    /\ evalPc \in [Threads -> EvalPcs]
    /\ owner \in [Mutexes -> Threads \cup {NoThread}]
    /\ stats \in [Counters -> Nat] /\ evals \in Nat
    /\ MutexesHeld
    /\ ~wasReset =>
          /\ stats["total"] + Cardinality(Uncounted) = evals
          /\ stats["total"] + Cardinality(Predicted) =
                stats["hits"] + stats["errors"] + stats["predictions"]

\* A thread that goes to pc is among those that are not counted as pc says.
LEMMA Moved ==
    ASSUME evalPc \in [Threads -> EvalPcs], NEW t \in Threads, NEW pc \in EvalPcs, To(t, pc)
    PROVE  /\ evalPc' \in [Threads -> EvalPcs] /\ evalPc'[t] = pc
           /\ \A u \in Threads \ {t} : evalPc'[u] = evalPc[u]
           /\ Uncounted' = IF pc \in {"idle", "store"} THEN Uncounted \ {t} ELSE Uncounted \cup {t}
           /\ Predicted' = IF pc = "total" THEN Predicted \cup {t} ELSE Predicted \ {t}
<1>1. /\ evalPc' \in [Threads -> EvalPcs] /\ evalPc'[t] = pc
      /\ \A u \in Threads \ {t} : evalPc'[u] = evalPc[u]
  BY DEF To
<1>2. Uncounted' = IF pc \in {"idle", "store"} THEN Uncounted \ {t} ELSE Uncounted \cup {t}
  BY <1>1 DEF Uncounted
<1>3. Predicted' = IF pc = "total" THEN Predicted \cup {t} ELSE Predicted \ {t}
  BY <1>1 DEF Predicted, At
<1> QED BY <1>1, <1>2, <1>3

\* How many they are then.
LEMMA HowMany ==
    /\ IsFiniteSet(Uncounted) /\ IsFiniteSet(Predicted)
    /\ Cardinality(Uncounted) \in Nat /\ Cardinality(Predicted) \in Nat
    /\ \A t : /\ Cardinality(Uncounted \cup {t}) =
                    IF t \in Uncounted THEN Cardinality(Uncounted) ELSE Cardinality(Uncounted) + 1
              /\ Cardinality(Uncounted \ {t}) =
                    IF t \in Uncounted THEN Cardinality(Uncounted) - 1 ELSE Cardinality(Uncounted)
              /\ Cardinality(Predicted \cup {t}) =
                    IF t \in Predicted THEN Cardinality(Predicted) ELSE Cardinality(Predicted) + 1
              /\ Cardinality(Predicted \ {t}) =
                    IF t \in Predicted THEN Cardinality(Predicted) - 1 ELSE Cardinality(Predicted)
<1>1. Uncounted \in SUBSET Threads /\ Predicted \in SUBSET Threads
  BY DEF Uncounted, Predicted
<1>2. IsFiniteSet(Uncounted) /\ IsFiniteSet(Predicted)
  BY <1>1, EvaluatorAssumption, FS_Subset
<1>3. Cardinality(Uncounted) \in Nat /\ Cardinality(Predicted) \in Nat
  BY <1>2, FS_CardinalityType
<1> QED BY <1>2, <1>3, FS_AddElement, FS_RemoveElement

\* What a thread's step does to the mutexes: it takes or gives back one as it comes to
\* or leaves the place where it holds it.
LEMMA MutexesKept ==
    ASSUME EvaluatorInv, NEW t \in Threads, NEW pc \in EvalPcs, To(t, pc),
           \/ owner' = owner /\ pc \notin {"hit", "store"} /\ ~At(t, "hit") /\ ~At(t, "store")
           \/ /\ owner' = [owner EXCEPT !["cache"] = t] /\ pc = "hit"
              /\ Free("cache") /\ ~At(t, "store")
           \/ /\ owner' = [owner EXCEPT !["cache"] = NoThread]
              /\ pc \notin {"hit", "store"} /\ At(t, "hit")
           \/ /\ owner' = [owner EXCEPT !["stats"] = t] /\ pc = "store"
              /\ Free("stats") /\ ~At(t, "hit")
           \/ /\ owner' = [owner EXCEPT !["stats"] = NoThread]
              /\ pc \notin {"hit", "store"} /\ At(t, "store")
    PROVE  MutexesHeld' /\ owner' \in [Mutexes -> Threads \cup {NoThread}]
<1>1. /\ evalPc'[t] = pc /\ \A u \in Threads \ {t} : evalPc'[u] = evalPc[u]
      /\ owner \in [Mutexes -> Threads \cup {NoThread}] /\ MutexesHeld
  BY Moved DEF EvaluatorInv
<1>2. NoThread \notin Threads
  BY EvaluatorAssumption
<1>3. owner' \in [Mutexes -> Threads \cup {NoThread}]
  BY <1>1 DEF Mutexes
<1>4. \A m \in Mutexes : \/ owner'[m] = owner[m]
                         \/ owner'[m] = t
                         \/ owner'[m] = NoThread
  BY <1>1 DEF Mutexes
<1>5. ASSUME NEW u \in Threads PROVE owner'["cache"] = u <=> evalPc'[u] = "hit"
  BY <1>1, <1>2 DEF MutexesHeld, Mutexes, Held, At, Free
<1>6. ASSUME NEW u \in Threads PROVE owner'["stats"] = u <=> evalPc'[u] = "store"
  BY <1>1, <1>2 DEF MutexesHeld, Mutexes, Held, At, Free
<1> QED BY <1>3, <1>5, <1>6 DEF MutexesHeld, Held, At

\* What counting does to the statistics.
LEMMA Counts ==
    ASSUME stats \in [Counters -> Nat], NEW cs \in SUBSET Counters, Count(cs)
    PROVE  /\ stats' \in [Counters -> Nat]
           /\ \A c \in Counters : stats'[c] = IF c \in cs THEN stats[c] + 1 ELSE stats[c]
  BY DEF Count

\* A thread's step keeps the invariant.
LEMMA EvaluatingKeeps ==
    ASSUME EvaluatorInv, NEW t \in Threads,
           (\E k \in Schedules : Call(t, k)) \/ Evaluating(t)
    PROVE  EvaluatorInv'
<1>1. /\ evalPc \in [Threads -> EvalPcs] /\ stats \in [Counters -> Nat] /\ evals \in Nat
      /\ {"total", "hits", "predictions", "errors"} = Counters
      /\ stats["total"] \in Nat /\ stats["hits"] \in Nat
      /\ stats["errors"] \in Nat /\ stats["predictions"] \in Nat
      /\ Cardinality(Uncounted) \in Nat /\ Cardinality(Predicted) \in Nat
      /\ t \in Uncounted <=> evalPc[t] \notin {"idle", "store"}
      /\ t \in Predicted <=> evalPc[t] = "total"
  BY HowMany DEF EvaluatorInv, Counters, Uncounted, Predicted, At, EvalPcs
<1> DEFINE S(st) == st["hits"] + st["errors"] + st["predictions"]
<1>2. ASSUME NEW pc \in EvalPcs, To(t, pc), MutexesHeld',
             owner' \in [Mutexes -> Threads \cup {NoThread}],
             stats' \in [Counters -> Nat], evals' \in Nat, wasReset' = wasReset,
             stats'["total"] + Cardinality(Uncounted') + evals =
                stats["total"] + Cardinality(Uncounted) + evals',
             stats'["total"] + Cardinality(Predicted') + S(stats) =
                stats["total"] + Cardinality(Predicted) + S(stats')
      PROVE  EvaluatorInv'
  <2>1. evalPc' \in [Threads -> EvalPcs]
    BY <1>1, <1>2, Moved
  <2>2. Cardinality(Uncounted') \in Nat /\ Cardinality(Predicted') \in Nat
    <3>1. Uncounted' \in SUBSET Threads /\ Predicted' \in SUBSET Threads
      BY DEF Uncounted, Predicted
    <3> QED BY <3>1, EvaluatorAssumption, FS_Subset, FS_CardinalityType
  <2>3. /\ stats["total"] \in Nat /\ S(stats) \in Nat
        /\ stats'["total"] \in Nat /\ S(stats') \in Nat
    BY <1>1, <1>2
  <2>4. ~wasReset => stats["total"] + Cardinality(Uncounted) = evals /\
                     stats["total"] + Cardinality(Predicted) = S(stats)
    BY DEF EvaluatorInv
  <2>5. ASSUME ~wasReset
        PROVE  /\ stats'["total"] + Cardinality(Uncounted') = evals'
               /\ stats'["total"] + Cardinality(Predicted') = S(stats')
    <3> DEFINE T == stats["total"]   s == S(stats)
               U == Cardinality(Uncounted)   V == Cardinality(Predicted)
               n == evals   n2 == evals'
               T2 == stats'["total"]   s2 == S(stats')
               U2 == Cardinality(Uncounted')   V2 == Cardinality(Predicted')
    <3>1. /\ T \in Nat /\ s \in Nat /\ U \in Nat /\ V \in Nat /\ n \in Nat
          /\ T2 \in Nat /\ s2 \in Nat /\ U2 \in Nat /\ V2 \in Nat /\ n2 \in Nat
      BY <1>1, <1>2, <2>2, <2>3
    <3>2. T + U = n /\ T + V = s
      BY <2>4, <2>5
    <3>3. T2 + U2 + n = T + U + n2 /\ T2 + V2 + s = T + V + s2
      BY <1>2
    <3> HIDE DEF T, U, V, n, T2, U2, V2, n2, s, s2
    <3>4. T2 + U2 = n2 /\ T2 + V2 = s2
      BY <3>1, <3>2, <3>3
    <3> QED BY <3>4 DEF T2, U2, V2, n2, s2
  <2> QED BY <1>2, <2>1, <2>5 DEF EvaluatorInv
<1>3. ASSUME NEW k \in Schedules, Call(t, k) PROVE EvaluatorInv'
  <2>1. /\ evalPc[t] = "idle" /\ evals' = evals + 1 /\ To(t, "lookup")
        /\ UNCHANGED <<owner, stats, wasReset>> /\ "lookup" \in EvalPcs
    BY <1>3 DEF Call, At, EvalPcs
  <2>2. MutexesHeld' /\ owner' \in [Mutexes -> Threads \cup {NoThread}]
    BY <2>1, MutexesKept DEF At
  <2>3. Uncounted' = Uncounted \cup {t} /\ Predicted' = Predicted \ {t}
    BY <1>1, <2>1, Moved
  <2>4. /\ Cardinality(Uncounted') = Cardinality(Uncounted) + 1
        /\ Cardinality(Predicted') = Cardinality(Predicted)
    BY <1>1, <2>1, <2>3, HowMany
  <2>5. stats'["total"] + Cardinality(Uncounted') + evals =
            stats["total"] + Cardinality(Uncounted) + evals'
    <3> DEFINE T == stats["total"]   U == Cardinality(Uncounted)
               n == evals   n2 == evals'   U2 == Cardinality(Uncounted')
    <3>1. T \in Nat /\ U \in Nat /\ n \in Nat /\ n2 = n + 1 /\ U2 = U + 1
      BY <1>1, <2>1, <2>4
    <3> HIDE DEF T, U, n, n2, U2
    <3>2. T + U2 + n = T + U + n2
      BY <3>1
    <3> QED BY <2>1, <3>2 DEF T, U, n, n2, U2
  <2>6. evals' \in Nat /\ stats' \in [Counters -> Nat]
    BY <1>1, <2>1
  <2>7. stats'["total"] + Cardinality(Predicted') + S(stats) =
            stats["total"] + Cardinality(Predicted) + S(stats')
    BY <2>1, <2>4
  <2> QED BY <1>2, <2>1, <2>2, <2>5, <2>6, <2>7
<1>4. CASE CacheLookup(t)
  <2>1. PICK pc \in {"hit", "features"} :
          /\ evalPc[t] = "lookup" /\ Free("cache") /\ To(t, pc)
          /\ UNCHANGED <<evals, stats, wasReset>>
          /\ pc = "hit" => owner' = [owner EXCEPT !["cache"] = t]
          /\ pc = "features" => owner' = owner
    BY <1>4 DEF CacheLookup, At
  <2>2. pc \in EvalPcs
    BY DEF EvalPcs
  <2>3. MutexesHeld' /\ owner' \in [Mutexes -> Threads \cup {NoThread}]
    BY <2>1, <2>2, MutexesKept DEF At
  <2>4. Uncounted' = Uncounted \cup {t} /\ Predicted' = Predicted \ {t}
    BY <1>1, <2>1, <2>2, Moved
  <2>5. /\ Cardinality(Uncounted') = Cardinality(Uncounted)
        /\ Cardinality(Predicted') = Cardinality(Predicted)
    BY <1>1, <2>1, <2>4, HowMany
  <2> QED BY <1>1, <1>2, <2>1, <2>2, <2>3, <2>5, HowMany
<1>5. CASE Hit(t)
  <2>1. /\ evalPc[t] = "hit" /\ To(t, "idle") /\ UNCHANGED <<evals, wasReset>> /\ "idle" \in EvalPcs
        /\ Count({"hits", "total"}) /\ owner' = [owner EXCEPT !["cache"] = NoThread]
    BY <1>5 DEF Hit, At, EvalPcs
  <2>2. MutexesHeld' /\ owner' \in [Mutexes -> Threads \cup {NoThread}]
    BY <2>1, MutexesKept DEF At
  <2>3. Uncounted' = Uncounted \ {t} /\ Predicted' = Predicted \ {t}
    BY <1>1, <2>1, Moved
  <2>4. /\ Cardinality(Uncounted') = Cardinality(Uncounted) - 1
        /\ Cardinality(Predicted') = Cardinality(Predicted)
    BY <1>1, <2>1, <2>3, HowMany
  <2>5. /\ stats' \in [Counters -> Nat] /\ stats'["total"] = stats["total"] + 1
        /\ stats'["hits"] = stats["hits"] + 1 /\ stats'["errors"] = stats["errors"]
        /\ stats'["predictions"] = stats["predictions"]
    BY <1>1, <2>1, Counts
  <2>6. /\ stats'["total"] + Cardinality(Uncounted') + evals =
                stats["total"] + Cardinality(Uncounted) + evals'
        /\ stats'["total"] + Cardinality(Predicted') + S(stats) =
                stats["total"] + Cardinality(Predicted) + S(stats')
    BY <1>1, <2>1, <2>4, <2>5
  <2> QED BY <1>1, <1>2, <2>1, <2>2, <2>5, <2>6
<1>6. CASE Features(t)
  <2>1. CASE To(t, "predict") /\ UNCHANGED stats
    <3>1. /\ evalPc[t] = "features" /\ UNCHANGED <<owner, evals, wasReset>> /\ "predict" \in EvalPcs
      BY <1>6 DEF Features, At, EvalPcs
    <3>2. MutexesHeld' /\ owner' \in [Mutexes -> Threads \cup {NoThread}]
      BY <2>1, <3>1, MutexesKept DEF At
    <3>3. Uncounted' = Uncounted \cup {t} /\ Predicted' = Predicted \ {t}
      BY <1>1, <2>1, <3>1, Moved
    <3>4. /\ Cardinality(Uncounted') = Cardinality(Uncounted)
          /\ Cardinality(Predicted') = Cardinality(Predicted)
      BY <1>1, <3>1, <3>3, HowMany
    <3> QED BY <1>1, <1>2, <2>1, <3>1, <3>2, <3>4, HowMany
  <2>2. CASE Count({"errors", "total"}) /\ To(t, "idle")
    <3>1. /\ evalPc[t] = "features" /\ UNCHANGED <<owner, evals, wasReset>> /\ "idle" \in EvalPcs
      BY <1>6 DEF Features, At, EvalPcs
    <3>2. MutexesHeld' /\ owner' \in [Mutexes -> Threads \cup {NoThread}]
      BY <2>2, <3>1, MutexesKept DEF At
    <3>3. Uncounted' = Uncounted \ {t} /\ Predicted' = Predicted \ {t}
      BY <1>1, <2>2, <3>1, Moved
    <3>4. /\ Cardinality(Uncounted') = Cardinality(Uncounted) - 1
          /\ Cardinality(Predicted') = Cardinality(Predicted)
      BY <1>1, <3>1, <3>3, HowMany
    <3>5. /\ stats' \in [Counters -> Nat] /\ stats'["total"] = stats["total"] + 1
          /\ stats'["hits"] = stats["hits"] /\ stats'["errors"] = stats["errors"] + 1
          /\ stats'["predictions"] = stats["predictions"]
      BY <1>1, <2>2, Counts
    <3>6. /\ stats'["total"] + Cardinality(Uncounted') + evals =
                  stats["total"] + Cardinality(Uncounted) + evals'
          /\ stats'["total"] + Cardinality(Predicted') + S(stats) =
                  stats["total"] + Cardinality(Predicted) + S(stats')
      BY <1>1, <3>1, <3>4, <3>5
    <3> QED BY <1>1, <1>2, <2>2, <3>1, <3>2, <3>5, <3>6
  <2> QED BY <1>6, <2>1, <2>2 DEF Features
<1>7. CASE Predict(t)
  <2>1. /\ evalPc[t] = "predict" /\ To(t, "total") /\ UNCHANGED <<owner, evals, wasReset>>
        /\ Count({"predictions"}) /\ "total" \in EvalPcs
    BY <1>7 DEF Predict, At, EvalPcs
  <2>2. MutexesHeld' /\ owner' \in [Mutexes -> Threads \cup {NoThread}]
    BY <2>1, MutexesKept DEF At
  <2>3. Uncounted' = Uncounted \cup {t} /\ Predicted' = Predicted \cup {t}
    BY <1>1, <2>1, Moved
  <2>4. /\ Cardinality(Uncounted') = Cardinality(Uncounted)
        /\ Cardinality(Predicted') = Cardinality(Predicted) + 1
    BY <1>1, <2>1, <2>3, HowMany
  <2>5. /\ stats' \in [Counters -> Nat] /\ stats'["total"] = stats["total"]
        /\ stats'["hits"] = stats["hits"] /\ stats'["errors"] = stats["errors"]
        /\ stats'["predictions"] = stats["predictions"] + 1
    BY <1>1, <2>1, Counts
  <2>6. /\ stats'["total"] + Cardinality(Uncounted') + evals =
                stats["total"] + Cardinality(Uncounted) + evals'
        /\ stats'["total"] + Cardinality(Predicted') + S(stats) =
                stats["total"] + Cardinality(Predicted) + S(stats')
    BY <1>1, <2>1, <2>4, <2>5
  <2> QED BY <1>1, <1>2, <2>1, <2>2, <2>5, <2>6
<1>8. CASE Total(t)
  <2>1. /\ evalPc[t] = "total" /\ Free("stats") /\ To(t, "store") /\ UNCHANGED <<evals, wasReset>>
        /\ Count({"total"}) /\ owner' = [owner EXCEPT !["stats"] = t] /\ "store" \in EvalPcs
    BY <1>8 DEF Total, At, EvalPcs
  <2>2. MutexesHeld' /\ owner' \in [Mutexes -> Threads \cup {NoThread}]
    BY <2>1, MutexesKept DEF At
  <2>3. Uncounted' = Uncounted \ {t} /\ Predicted' = Predicted \ {t}
    BY <1>1, <2>1, Moved
  <2>4. /\ Cardinality(Uncounted') = Cardinality(Uncounted) - 1
        /\ Cardinality(Predicted') = Cardinality(Predicted) - 1
    BY <1>1, <2>1, <2>3, HowMany
  <2>5. /\ stats' \in [Counters -> Nat] /\ stats'["total"] = stats["total"] + 1
        /\ stats'["hits"] = stats["hits"] /\ stats'["errors"] = stats["errors"]
        /\ stats'["predictions"] = stats["predictions"]
    BY <1>1, <2>1, Counts
  <2>6. /\ stats'["total"] + Cardinality(Uncounted') + evals =
                stats["total"] + Cardinality(Uncounted) + evals'
        /\ stats'["total"] + Cardinality(Predicted') + S(stats) =
                stats["total"] + Cardinality(Predicted) + S(stats')
    BY <1>1, <2>1, <2>4, <2>5
  <2> QED BY <1>1, <1>2, <2>1, <2>2, <2>5, <2>6
<1>9. CASE Store(t)
  <2>1. /\ evalPc[t] = "store" /\ To(t, "idle") /\ UNCHANGED <<stats, evals, wasReset>>
        /\ owner' = [owner EXCEPT !["stats"] = NoThread] /\ "idle" \in EvalPcs
    BY <1>9 DEF Store, At, EvalPcs
  <2>2. MutexesHeld' /\ owner' \in [Mutexes -> Threads \cup {NoThread}]
    BY <2>1, MutexesKept DEF At
  <2>3. Uncounted' = Uncounted \ {t} /\ Predicted' = Predicted \ {t}
    BY <1>1, <2>1, Moved
  <2>4. /\ Cardinality(Uncounted') = Cardinality(Uncounted)
        /\ Cardinality(Predicted') = Cardinality(Predicted)
    BY <1>1, <2>1, <2>3, HowMany
  <2> QED BY <1>1, <1>2, <2>1, <2>2, <2>4, HowMany
<1> QED BY <1>3, <1>4, <1>5, <1>6, <1>7, <1>8, <1>9 DEF Evaluating

\* No thread is forgotten and no call counted twice, whatever threads evaluate at once
\* and however the cache is cleared and the statistics are reset among them.
THEOREM EvaluatorInvariance == MlSpec => []EvaluatorInv
<1>1. MlInit => EvaluatorInv
  <2> SUFFICES ASSUME MlInit PROVE EvaluatorInv
    OBVIOUS
  <2>1. Uncounted = {} /\ Predicted = {}
    BY DEF MlInit, Uncounted, Predicted, At
  <2>2. Cardinality(Uncounted) = 0 /\ Cardinality(Predicted) = 0
    BY <2>1, FS_EmptySet
  <2>3. MutexesHeld
    BY EvaluatorAssumption DEF MlInit, MutexesHeld, Held, At, Mutexes
  <2> QED BY <2>2, <2>3 DEF MlInit, EvaluatorInv, EvalPcs, NoStats, Counters, Mutexes
<1>2. EvaluatorInv /\ [MlNext]_mlVars => EvaluatorInv'
  <2> SUFFICES ASSUME EvaluatorInv, [MlNext]_mlVars PROVE EvaluatorInv'
    OBVIOUS
  <2>1. ASSUME NEW t \in Threads, (\E k \in Schedules : Call(t, k)) \/ Evaluating(t)
        PROVE  EvaluatorInv'
    BY <2>1, EvaluatingKeeps
  <2>2. CASE ClearCache \/ UNCHANGED mlVars
    BY <2>2 DEF ClearCache, mlVars, EvaluatorInv, MutexesHeld, Held, At, Uncounted, Predicted
  <2>3. CASE ResetStats
    BY <2>3 DEF ResetStats, NoStats, EvaluatorInv, MutexesHeld, Held, At
  <2> QED BY <2>1, <2>2, <2>3 DEF MlNext
<1> QED BY <1>1, <1>2, PTL DEF MlSpec

\* The two mutexes are held by whom they should be, and the counters account for every
\* call of evaluate (ml_evaluator.cpp), for any number of threads, schedules and calls.
THEOREM EvaluatorCounts == MlSpec => []EvaluatorSound
<1>1. EvaluatorInv => EvaluatorSound
  <2> SUFFICES ASSUME EvaluatorInv PROVE EvaluatorSound
    OBVIOUS
  <2>1. Cardinality(Uncounted) \in Nat /\ Predicted = {t \in Threads : At(t, "total")}
    BY HowMany DEF Predicted
  <2>2. stats["total"] \in Nat
    BY DEF EvaluatorInv, Counters
  <2> QED BY <2>1, <2>2 DEF EvaluatorInv, EvaluatorSound, StatsAddUp
<1> QED BY <1>1, EvaluatorInvariance, PTL

-----------------------------------------------------------------------------
(* The search of auto_scheduler/ and the cache of schedules: what the proof      *)
(* keeps of the state.                                                           *)

Results == [g : Configs, t : Times]

Given == Times \cup {Placeholder}

SearchRecords ==
    [pc : {"random", "evolve", "insert", "done"}, op : Ops, best : Times \cup {Failed},
     known : SUBSET Given, top : Seq(Results), found : Times \cup {Failed},
     round : Nat, dull : Nat, left : Nat, gen : SUBSET Times, seen : [Times -> Nat]]

\* The cache holds times and placeholders, none stamped later than now.
CacheShape(c, now) ==
    /\ DOMAIN c \subseteq Ops \X Configs /\ IsFiniteSet(DOMAIN c)
    /\ \A k \in DOMAIN c : c[k].time \in Given /\ c[k].stamp \in 0 .. now

FileShape(f) ==
    /\ DOMAIN f \subseteq Ops \X Configs /\ IsFiniteSet(DOMAIN f)
    /\ \A k \in DOMAIN f : f[k] \in Given

\* No call, or a search whose parts have their types.
SearchShape(s) == s = Quiet \/ s \in SearchRecords

\* Every time that is kept goes back to a measurement: m holds those it may be, which
\* for the cache and the search are Traces and for the file Rounded.
TimesMeasured(c, m) ==
    \A k \in DOMAIN c : c[k].time # Placeholder => <<k[1], k[2], c[k].time>> \in m

FileMeasured(f, m) == \A k \in DOMAIN f : f[k] # Placeholder => <<k[1], k[2], f[k]>> \in m

TopMeasured(s, m) ==
    s.pc # "idle" => \A i \in DOMAIN s.top : <<s.op, s.top[i].g, s.top[i].t>> \in m

\* The results of a search are all valid ones while it evolves, else the best of them.
Ranked(s) ==
    /\ s.pc = "evolve" => \A u \in Times : NoSlower(s.top, u) = s.seen[u]
    /\ s.pc \in {"random", "insert", "done"} =>
        /\ BestFirst(s.top) /\ Len(s.top) <= TopK
        /\ \A u \in Times : NoSlower(s.top, u) = AtMost(s.seen[u])

\* The best time starts from what the cache knew and ends with the first result.
Informed(s) ==
    /\ s.pc # "idle" /\ Placeholder \notin s.known =>
        \A t \in s.known : s.best # Failed /\ s.best <= t
    /\ s.pc = "done" /\ s.top # <<>> => s.best # Failed /\ s.best <= s.top[1].t

SearchSound(s, m) == SearchShape(s) /\ TopMeasured(s, m) /\ Ranked(s) /\ Informed(s)

StoreSound(c, f, now, m, written) ==
    /\ CacheShape(c, now) /\ TimesMeasured(c, m)
    /\ FileShape(f) /\ FileMeasured(f, written)

SchedInv ==
    /\ clock \in 0 .. MaxClock /\ calls \in 0 .. MaxCalls /\ searches \in 0 .. MaxSearches
    /\ overfull \in BOOLEAN /\ loaded \in BOOLEAN /\ measured \subseteq Ops \X Configs \X Times
    /\ StoreSound(cache, file, clock, Traces, Rounded) /\ CacheBounded
    /\ SearchSound(search, Traces)

-----------------------------------------------------------------------------
(* The search of auto_scheduler/ and the cache of schedules.                     *)

\* Where the results that are no slower than u are.
Places(results, u) == {i \in DOMAIN results : results[i].t <= u}

\* The results of a sequence and their times.
LEMMA ResultItems ==
    ASSUME NEW s \in Seq(Results)
    PROVE  /\ DOMAIN s = 1 .. Len(s) /\ Len(s) \in Nat
           /\ \A i \in 1 .. Len(s) : s[i] \in Results /\ s[i].t \in Nat /\ s[i].g \in Configs
<1>1. \A i \in 1 .. Len(s) : s[i] \in Results
  OBVIOUS
<1>2. Times \subseteq Nat
  BY SchedulerAssumption
<1>3. DOMAIN s = 1 .. Len(s) /\ Len(s) \in Nat
  OBVIOUS
<1>4. \A r \in Results : r.t \in Times /\ r.g \in Configs
  BY DEF Results
<1> QED BY <1>1, <1>2, <1>3, <1>4

\* There are finitely many, no more than the sequence has.
LEMMA HowManyPlaces ==
    ASSUME NEW s \in Seq(Results), NEW u
    PROVE  /\ IsFiniteSet(Places(s, u)) /\ NoSlower(s, u) = Cardinality(Places(s, u))
           /\ NoSlower(s, u) \in Nat
<1>1. IsFiniteSet(DOMAIN s)
  <2>1. DOMAIN s = 1 .. Len(s) /\ 1 \in Int /\ Len(s) \in Int
    BY ResultItems
  <2>2. IsFiniteSet(1 .. Len(s))
    BY <2>1, FS_Interval
  <2> QED BY <2>1, <2>2
<1>2. IsFiniteSet(Places(s, u))
  BY <1>1, FS_Subset DEF Places
<1>3. NoSlower(s, u) = Cardinality(Places(s, u))
  BY DEF NoSlower, Places
<1> QED BY <1>2, <1>3, FS_CardinalityType

\* A result more is counted where it is no slower.
LEMMA OneResultMore ==
    ASSUME NEW s \in Seq(Results), NEW r \in Results, NEW u \in Times
    PROVE  NoSlower(Append(s, r), u) = NoSlower(s, u) + IF r.t <= u THEN 1 ELSE 0
<1> DEFINE t == Append(s, r)
           n == Len(s) + 1
<1>1. /\ t \in Seq(Results) /\ Len(t) = n /\ t[n] = r
      /\ \A i \in 1 .. Len(s) : t[i] = s[i]
  OBVIOUS
<1> HIDE DEF t
<1>2. DOMAIN s = 1 .. Len(s) /\ DOMAIN t = 1 .. n /\ n \in Nat \ 1 .. Len(s)
  BY <1>1, ResultItems
<1>3. Places(t, u) = IF r.t <= u THEN Places(s, u) \cup {n} ELSE Places(s, u)
  BY <1>1, <1>2 DEF Places
<1>4. n \notin Places(s, u)
  BY <1>2 DEF Places
<1>5. NoSlower(t, u) = Cardinality(Places(t, u))
  BY <1>1, HowManyPlaces
<1>6. Cardinality(Places(s, u) \cup {n}) = Cardinality(Places(s, u)) + 1
  BY <1>4, HowManyPlaces, FS_AddElement
<1>7. NoSlower(s, u) = Cardinality(Places(s, u)) /\ NoSlower(s, u) \in Nat
  BY HowManyPlaces
<1> QED BY <1>3, <1>5, <1>6, <1>7 DEF t

\* The results in another order are the same, and as many are no slower.
LEMMA Reordered ==
    ASSUME NEW s \in Seq(Results), NEW t \in Arrangements(s)
    PROVE  /\ t \in Seq(Results) /\ Len(t) = Len(s)
           /\ \A i \in DOMAIN t : \E j \in DOMAIN s : t[i] = s[j]
           /\ \A u : NoSlower(t, u) = NoSlower(s, u)
<1>1. PICK p \in Bijection(DOMAIN s, DOMAIN s) : t = Arranged(s, p)
  BY DEF Arrangements
<1>2. /\ p \in [DOMAIN s -> DOMAIN s] /\ \A i, j \in DOMAIN s : p[i] = p[j] => i = j
      /\ \A j \in DOMAIN s : \E i \in DOMAIN s : p[i] = j
  BY DEF Bijection, Injection, Surjection, IsInjective
<1>3. DOMAIN s = 1 .. Len(s) /\ Len(s) \in Nat
  BY ResultItems
<1>4. DOMAIN t = DOMAIN s /\ \A i \in DOMAIN s : t[i] = s[p[i]]
  BY <1>1 DEF Arranged
<1>5. t \in Seq(Results) /\ Len(t) = Len(s)
  <2>1. t \in [1 .. Len(s) -> Results]
    <3>1. \A i \in 1 .. Len(s) : s[p[i]] \in Results
      BY <1>2, <1>3, ResultItems
    <3>2. t = [i \in 1 .. Len(s) |-> s[p[i]]]
      BY <1>1, <1>3 DEF Arranged
    <3> QED BY <3>1, <3>2
  <2> QED BY <2>1, <1>3
<1>6. ASSUME NEW u PROVE NoSlower(t, u) = NoSlower(s, u)
  <2> DEFINE q == [i \in Places(t, u) |-> p[i]]
  <2>1. Places(t, u) = {i \in DOMAIN s : s[p[i]].t <= u}
    BY <1>4 DEF Places
  <2>2. q \in [Places(t, u) -> Places(s, u)]
    BY <1>2, <2>1 DEF Places
  <2>3. \A i, j \in Places(t, u) : q[i] = q[j] => i = j
    BY <1>2, <2>1
  <2>4. \A j \in Places(s, u) : \E i \in Places(t, u) : q[i] = j
    BY <1>2, <2>1 DEF Places
  <2>5. ExistsBijection(Places(t, u), Places(s, u))
    <3> HIDE DEF q
    <3>1. q \in Bijection(Places(t, u), Places(s, u))
      BY <2>2, <2>3, <2>4 DEF Bijection, Injection, Surjection, IsInjective
    <3> QED BY <3>1 DEF ExistsBijection
  <2>6. IsFiniteSet(Places(t, u)) /\ NoSlower(t, u) = Cardinality(Places(t, u))
        /\ NoSlower(s, u) = Cardinality(Places(s, u))
    BY <1>5, HowManyPlaces
  <2> QED BY <2>5, <2>6, FS_Bijection
<1> QED BY <1>2, <1>4, <1>5, <1>6

\* A set of natural numbers that has no gaps from 1 on is an interval.
LEMMA NoGaps ==
    ASSUME NEW n \in Nat, NEW S \in SUBSET (1 .. n),
           \A j \in S : \A i \in 1 .. j : i \in S
    PROVE  IsFiniteSet(S) /\ S = 1 .. Cardinality(S) /\ Cardinality(S) \in 0 .. n
<1> DEFINE T == {m \in Nat : m + 1 \notin S}
<1>1. PICK m \in T : \A k \in T : <<k, m>> \notin OpToRel(<, Nat)
  <2>1. n \in T
    OBVIOUS
  <2> QED BY <2>1, WFMin, NatLessThanWellFounded, Zenon
<1>2. m \in Nat /\ m + 1 \notin S /\ \A k \in T : ~(k < m)
  BY <1>1 DEF OpToRel
<1>3. \A i \in 1 .. m : i \in S
  <2> SUFFICES ASSUME NEW i \in 1 .. m, i \notin S PROVE FALSE
    OBVIOUS
  <2>1. i - 1 \in Nat /\ (i - 1) + 1 = i /\ i - 1 < m
    BY <1>2
  <2>2. i - 1 \in T
    BY <2>1
  <2> QED BY <1>2, <2>1, <2>2
<1>4. S = 1 .. m
  <2>1. ASSUME NEW j \in S PROVE j \in 1 .. m
    <3>1. j \in 1 .. n /\ (j > m => m + 1 \in 1 .. j)
      BY <1>2
    <3> QED BY <1>2, <3>1
  <2> QED BY <1>3, <2>1
<1>5. IsFiniteSet(1 .. m) /\ Cardinality(1 .. m) = m
  BY <1>2, FS_Interval
<1>6. m \in 0 .. n
  BY <1>2, <1>4
<1> QED BY <1>4, <1>5, <1>6

\* Of results that are sorted, the first top_k hold all that are no slower, or top_k.
LEMMA CutCounts ==
    ASSUME NEW s \in Seq(Results), BestFirst(s)
    PROVE  /\ Cut(s) \in Seq(Results) /\ Len(Cut(s)) <= TopK /\ BestFirst(Cut(s))
           /\ \A i \in DOMAIN Cut(s) : i \in DOMAIN s /\ Cut(s)[i] = s[i]
           /\ \A u \in Times : NoSlower(Cut(s), u) = AtMost(NoSlower(s, u))
<1> DEFINE c == Cut(s)
           k == AtMost(Len(s))
<1>1. TopK \in Nat \ {0} /\ Len(s) \in Nat /\ DOMAIN s = 1 .. Len(s)
  BY SchedulerAssumption, ResultItems
<1>2. k \in Nat /\ k <= Len(s) /\ k <= TopK
  BY <1>1 DEF AtMost
<1>3. k = Len(s) \/ k = TopK
  BY DEF AtMost
<1> HIDE DEF k
<1>4. c \in Seq(Results) /\ Len(c) = k /\ \A i \in 1 .. k : c[i] = s[i]
  BY <1>1, <1>2 DEF Cut, k
<1> HIDE DEF c
<1>5. DOMAIN c = 1 .. k
  BY <1>4
<1>6. BestFirst(c)
  BY <1>1, <1>2, <1>4, <1>5 DEF BestFirst
<1>7. ASSUME NEW u \in Times PROVE NoSlower(c, u) = AtMost(NoSlower(s, u))
  <2> DEFINE S == Places(s, u)
             m == Cardinality(S)
  <2>1. u \in Nat
    BY SchedulerAssumption
  <2>2. S \in SUBSET (1 .. Len(s))
    BY <1>1 DEF Places
  <2>3. \A j \in S : \A i \in 1 .. j : i \in S
    <3> SUFFICES ASSUME NEW j \in S, NEW i \in 1 .. j PROVE i \in S
      OBVIOUS
    <3>1. i \in DOMAIN s /\ j \in DOMAIN s /\ i <= j /\ i \in 1 .. Len(s) /\ j \in 1 .. Len(s)
      BY <1>1, <2>2
    <3>2. s[i].t \in Nat /\ s[j].t \in Nat /\ s[j].t <= u
      BY <3>1, ResultItems DEF Places
    <3>3. s[i].t <= s[j].t
      BY <3>1, <3>2 DEF BestFirst
    <3> QED BY <2>1, <3>1, <3>2, <3>3 DEF Places
  <2>4. S = 1 .. m /\ m \in 0 .. Len(s)
    BY <1>1, <2>2, <2>3, NoGaps
  <2>5. Places(c, u) = S \cap 1 .. k
    BY <1>1, <1>2, <1>4, <1>5 DEF Places
  <2> HIDE DEF S
  <2>6. NoSlower(s, u) = m
    BY HowManyPlaces DEF S
  <2> HIDE DEF m
  <2>7. S \cap 1 .. k = 1 .. IF m < k THEN m ELSE k
    BY <1>1, <1>2, <2>4
  <2>8. NoSlower(c, u) = IF m < k THEN m ELSE k
    <3> DEFINE x == IF m < k THEN m ELSE k
    <3>1. NoSlower(c, u) = Cardinality(1 .. x)
      BY <1>4, <2>5, <2>7, HowManyPlaces
    <3>2. x \in Nat
      BY <1>1, <1>2, <2>4
    <3> HIDE DEF x
    <3>3. Cardinality(1 .. x) = x
      BY <3>2, FS_Interval
    <3> QED BY <3>1, <3>3 DEF x
  <2>9. (IF m < k THEN m ELSE k) = IF m < TopK THEN m ELSE TopK
    <3>1. m \in Nat /\ m <= Len(s)
      BY <1>1, <2>4
    <3>2. CASE m < k
      BY <1>1, <1>2, <3>1, <3>2
    <3>3. CASE ~(m < k) /\ k = TopK
      BY <1>1, <1>2, <3>1, <3>3
    <3>4. CASE ~(m < k) /\ k = Len(s)
      <4>1. m <= k
        BY <3>1, <3>4
      <4>2. m = k
        BY <1>2, <3>1, <3>4, <4>1
      <4> QED BY <1>1, <1>2, <4>2
    <3> QED BY <1>3, <3>2, <3>3, <3>4
  <2> QED BY <2>6, <2>8, <2>9 DEF AtMost
<1> QED BY <1>1, <1>2, <1>4, <1>5, <1>6, <1>7 DEF c

\* What sorting and cutting keeps.
LEMMA TopKept ==
    ASSUME NEW s \in Seq(Results), NEW t \in KeepTop(s)
    PROVE  /\ t \in Seq(Results) /\ Len(t) <= TopK /\ BestFirst(t)
           /\ \A i \in DOMAIN t : \E j \in DOMAIN s : t[i] = s[j]
           /\ \A u \in Times : NoSlower(t, u) = AtMost(NoSlower(s, u))
<1>1. PICK r \in Arrangements(s) : BestFirst(r) /\ t = Cut(r)
  BY DEF KeepTop
<1>2. /\ r \in Seq(Results) /\ \A i \in DOMAIN r : \E j \in DOMAIN s : r[i] = s[j]
      /\ \A u : NoSlower(r, u) = NoSlower(s, u)
  BY Reordered
<1>3. /\ t \in Seq(Results) /\ Len(t) <= TopK /\ BestFirst(t)
      /\ \A i \in DOMAIN t : i \in DOMAIN r /\ t[i] = r[i]
      /\ \A u \in Times : NoSlower(t, u) = AtMost(NoSlower(r, u))
  BY <1>1, <1>2, CutCounts
<1> QED BY <1>2, <1>3

-----------------------------------------------------------------------------
(* The cache.                                                                    *)

\* Times are numbers, 0 for none.
LEMMA TimesAreNumbers ==
    ASSUME NEW t \in Times \cup {Failed}
    PROVE  t \in Nat /\ (t \in Times <=> t # 0)
<1>1. Times \subseteq Nat \ {0}
  BY SchedulerAssumption
<1>2. CASE t \in Times
  BY <1>1, <1>2
<1>3. CASE t = 0
  BY <1>1, <1>3
<1> QED BY <1>2, <1>3 DEF Failed

\* Entries that are stamped now keep the cache in shape.
LEMMA StampedShape ==
    ASSUME CacheShape(cache, clock), clock \in Nat, NEW f, FileShape(f)
    PROVE  /\ CacheShape(Stamped(f), clock)
           /\ \A m : TimesMeasured(cache, m) /\ FileMeasured(f, m) => TimesMeasured(Stamped(f), m)
<1> DEFINE c == Stamped(f)
<1>1. /\ DOMAIN c = DOMAIN f \cup DOMAIN cache
      /\ \A k \in DOMAIN f : c[k].time = f[k] /\ c[k].stamp = clock
      /\ \A k \in DOMAIN cache \ DOMAIN f : c[k] = cache[k]
  BY DEF Stamped, Entries
<1> HIDE DEF c
<1>2. DOMAIN c \subseteq Ops \X Configs /\ IsFiniteSet(DOMAIN c)
  BY <1>1, FS_Union DEF CacheShape, FileShape
<1>3. clock \in 0 .. clock
  OBVIOUS
<1>4. \A k \in DOMAIN c : c[k].time \in Given /\ c[k].stamp \in 0 .. clock
  BY <1>1, <1>3 DEF CacheShape, FileShape
<1>5. ASSUME NEW m, TimesMeasured(cache, m), FileMeasured(f, m) PROVE TimesMeasured(c, m)
  BY <1>1, <1>5 DEF TimesMeasured, FileMeasured
<1> QED BY <1>2, <1>4, <1>5 DEF CacheShape, c

\* What an eviction leaves is in shape and within the bound, but for the latest entries.
LEMMA EvictedShape ==
    ASSUME NEW now \in {clock, clock + 1}, clock \in Nat,
           NEW c, CacheShape(c, clock), NEW d \in Evicted(c, now)
    PROVE  /\ CacheShape(d, now)
           /\ \A m : TimesMeasured(c, m) => TimesMeasured(d, m)
           /\ Cardinality(DOMAIN d) > MaxSize => \A k \in DOMAIN d : d[k].stamp >= now
<1>1. PICK T \in SUBSET DOMAIN c :
         /\ Cardinality(T) <= MaxSize \/ \A j \in T : c[j].stamp >= now
         /\ d = [k \in T |-> c[k]]
  BY DEF Evicted
<1>2. DOMAIN d = T /\ \A k \in T : d[k] = c[k]
  BY <1>1
<1>3. IsFiniteSet(T) /\ T \subseteq Ops \X Configs
  BY <1>1, FS_Subset DEF CacheShape
<1>4. \A n \in 0 .. clock : n \in 0 .. now
  OBVIOUS
<1>5. CacheShape(d, now)
  BY <1>2, <1>3, <1>4 DEF CacheShape
<1>6. ASSUME NEW m, TimesMeasured(c, m) PROVE TimesMeasured(d, m)
  BY <1>2, <1>6 DEF TimesMeasured
<1>7. ASSUME Cardinality(DOMAIN d) > MaxSize PROVE \A k \in DOMAIN d : d[k].stamp >= now
  <2>1. Cardinality(T) \in Nat /\ MaxSize \in Nat
    BY <1>3, FS_CardinalityType, SchedulerAssumption
  <2> QED BY <1>1, <1>2, <1>7, <2>1
<1> QED BY <1>5, <1>6, <1>7

\* What an insertion keeps.
LEMMA InsertKeeps ==
    ASSUME NEW o \in Ops, NEW g \in Configs, NEW t \in Given, NEW m,
           clock \in 0 .. MaxClock, CacheShape(cache, clock), TimesMeasured(cache, m),
           t # Placeholder => <<o, g, t>> \in m, Insert(o, g, t)
    PROVE  /\ clock' \in 0 .. MaxClock /\ CacheShape(cache', clock')
           /\ TimesMeasured(cache', m) /\ CacheBounded' /\ overfull' \in BOOLEAN
<1> DEFINE f == [k \in {<<o, g>>} |-> t]
           c == Stamped(f)
<1>1. PICK now \in {clock, clock + 1} :
         now <= MaxClock /\ clock' = now /\ cache' \in Evicted(c, now) /\ overfull' = FALSE
  BY DEF Insert
<1>2. DOMAIN f = {<<o, g>>} /\ f[<<o, g>>] = t
  OBVIOUS
<1> HIDE DEF f
<1>3. FileShape(f)
  <2>1. IsFiniteSet({<<o, g>>})
    BY FS_Singleton
  <2> QED BY <1>2, <2>1 DEF FileShape
<1>4. FileMeasured(f, m)
  BY <1>2 DEF FileMeasured
<1>5. clock \in Nat /\ MaxClock \in Nat
  BY SchedulerAssumption
<1>6. CacheShape(c, clock) /\ TimesMeasured(c, m)
  BY <1>3, <1>4, <1>5, StampedShape
<1> HIDE DEF c
<1>7. /\ CacheShape(cache', now) /\ TimesMeasured(cache', m)
      /\ Cardinality(DOMAIN cache') > MaxSize => \A k \in DOMAIN cache' : cache'[k].stamp >= now
  BY <1>1, <1>5, <1>6, EvictedShape
<1>8. CacheBounded'
  BY <1>1, <1>7 DEF CacheBounded, Entries
<1>9. now \in 0 .. MaxClock
  BY <1>1, <1>5
<1> QED BY <1>1, <1>7, <1>8, <1>9

Known(o) == {cache[k].time : k \in OfOp(o)}

\* The best time of an operation: none, or one of its entries' and no slower than any.
LEMMA BestCached ==
    ASSUME NEW o \in Ops, CacheShape(cache, clock)
    PROVE  /\ Known(o) \subseteq Given /\ CachedBest(o) \in Times \cup {Failed}
           /\ Placeholder \notin Known(o) =>
                  \A t \in Known(o) : CachedBest(o) # Failed /\ CachedBest(o) <= t
<1> DEFINE known == Known(o)
           T == {n \in Nat : n - 1 \in known}
           Least(t) == t \in known /\ \A k \in OfOp(o) : t <= cache[k].time
<1>1. OfOp(o) \subseteq DOMAIN cache
  BY DEF OfOp, Entries
<1>2. known \subseteq Given
  BY <1>1 DEF CacheShape, Known
<1>3. Given \subseteq Int /\ Times \subseteq Nat \ {0}
      /\ \A t \in Given : t + 1 \in Nat /\ (t + 1) - 1 = t
  BY SchedulerAssumption DEF Given, Placeholder
<1>4. CASE OfOp(o) = {}
  BY <1>2, <1>4 DEF CachedBest, GetBest, Failed, Known
<1>5. CASE OfOp(o) # {}
  <2>1. PICK k \in OfOp(o) : TRUE
    BY <1>5
  <2>2. cache[k].time + 1 \in T
    BY <1>2, <1>3, <2>1 DEF Known
  <2>3. PICK n \in T : \A j \in T : <<j, n>> \notin OpToRel(<, Nat)
    BY <2>2, WFMin, NatLessThanWellFounded, Zenon
  <2>4. n \in Nat /\ n - 1 \in known /\ \A j \in T : ~(j < n)
    BY <2>3 DEF OpToRel
  <2>5. Least(n - 1)
    <3> SUFFICES ASSUME NEW j \in OfOp(o) PROVE n - 1 <= cache[j].time
      BY <2>4 DEF Known
    <3>1. cache[j].time \in known
      BY DEF Known
    <3>2. cache[j].time \in Int /\ cache[j].time + 1 \in T
      BY <3>1, <1>2, <1>3
    <3>3. ~(cache[j].time + 1 < n)
      BY <2>4, <3>2
    <3> QED BY <2>4, <3>2, <3>3
  <2>6. GetBest(o) = CHOOSE t : Least(t)
    BY <1>5 DEF GetBest, Known
  <2>7. Least(GetBest(o))
    BY <2>5, <2>6
  <2>8. GetBest(o) \in known /\ \A t \in known : GetBest(o) <= t
    BY <2>7 DEF Known
  <2> DEFINE b == GetBest(o)
  <2> HIDE DEF known, b
  <2>9. b \in Times \cup {Placeholder} /\ (b = Placeholder => Placeholder \in known)
    BY <1>2, <2>8 DEF Given, b
  <2>10. CachedBest(o) = IF b > 0 THEN b ELSE Failed
    BY DEF CachedBest, b
  <2>11. CASE b = Placeholder
    BY <1>2, <2>9, <2>10, <2>11 DEF Placeholder, Failed, known
  <2>12. CASE b \in Times
    <3>1. CachedBest(o) = b /\ b # Failed
      BY <1>3, <2>10, <2>12 DEF Failed
    <3> QED BY <1>2, <2>8, <2>12, <3>1 DEF b, known
  <2> QED BY <2>9, <2>11, <2>12
<1> QED BY <1>4, <1>5

-----------------------------------------------------------------------------
(* The search.                                                                   *)

\* With more measurements there is more a time may go back to.
LEMMA TracesGrow ==
    ASSUME measured \subseteq measured', loaded' = loaded
    PROVE  Traces \subseteq Traces' /\ Rounded \subseteq Rounded'
<1>1. Rounded \subseteq Rounded'
  BY DEF Rounded
<1> QED BY <1>1 DEF Traces

\* Without one, and without a load, it stays what it is.
LEMMA TracesStay ==
    ASSUME measured' = measured, loaded' = loaded
    PROVE  Traces' = Traces /\ Rounded' = Rounded
BY DEF Traces, Rounded

\* A step of the search that leaves the cache alone.
LEMMA SearchKeeps ==
    ASSUME SchedInv, Untouched, measured \subseteq measured',
           measured' \subseteq Ops \X Configs \X Times, SearchSound(search', Traces')
    PROVE  SchedInv'
<1>0. Traces \subseteq Traces' /\ Rounded \subseteq Rounded'
  BY TracesGrow DEF Untouched
<1>1. TimesMeasured(cache, Traces') /\ FileMeasured(file, Rounded')
  BY <1>0 DEF SchedInv, StoreSound, TimesMeasured, FileMeasured
<1>2. CacheBounded'
  BY DEF SchedInv, CacheBounded, Entries, Untouched
<1> QED BY <1>1, <1>2 DEF SchedInv, StoreSound, Untouched

\* A step of the search that leaves the cache and the measurements alone.
LEMMA SearchGoesOn ==
    ASSUME SchedInv, Untouched, measured' = measured, SearchSound(search', Traces)
    PROVE  SchedInv'
<1>1. Traces' = Traces /\ measured \subseteq Ops \X Configs \X Times
  BY TracesStay DEF Untouched, SchedInv
<1> QED BY <1>1, SearchKeeps

\* A search under way is a search record.
LEMMA UnderWay ==
    ASSUME SchedInv, search.pc # "idle"
    PROVE  search \in SearchRecords
BY DEF SchedInv, SearchSound, SearchShape, Quiet

\* A time that counts as a result goes back to a measurement, of now or before.
LEMMA MeasureKnown ==
    ASSUME SchedInv, NEW g \in Configs, NEW t \in Times \cup {Failed}, Measure(g, t),
           search.pc # "idle", loaded' = loaded
    PROVE  /\ measured \subseteq measured' /\ measured' \subseteq Ops \X Configs \X Times
           /\ Traces \subseteq Traces' /\ (t # Failed => <<search.op, g, t>> \in Traces')
<1>1. measured \subseteq Ops \X Configs \X Times /\ search.op \in Ops
  BY UnderWay DEF SchedInv, SearchRecords
<1>2. CASE CachedTimes(search.op, g) # {}
  <2>1. t \in CachedTimes(search.op, g) /\ measured' = measured
    BY <1>2 DEF Measure
  <2>2. /\ t # Placeholder /\ <<search.op, g>> \in DOMAIN cache
        /\ t = cache[<<search.op, g>>].time
    BY <2>1 DEF CachedTimes, Entries
  <2>3. <<search.op, g, t>> \in Traces
    BY <2>2 DEF SchedInv, StoreSound, TimesMeasured
  <2> QED BY <1>1, <2>1, <2>3, TracesStay
<1>3. CASE CachedTimes(search.op, g) = {}
  <2>1. measured' = IF t = Failed THEN measured ELSE measured \cup {<<search.op, g, t>>}
    BY <1>3 DEF Measure
  <2>2. measured \subseteq measured' /\ measured' \subseteq Ops \X Configs \X Times
    BY <1>1, <2>1
  <2>3. measured' \subseteq Traces'
    BY DEF Traces
  <2> QED BY <2>1, <2>2, <2>3, TracesGrow
<1> QED BY <1>2, <1>3

\* The results that are counted after one more measurement.
LEMMA SeenCounts ==
    ASSUME search \in SearchRecords, NEW t \in Times \cup {Failed}
    PROVE  /\ Seen(t) \in [Times -> Nat]
           /\ \A u \in Times : /\ t = Failed => Seen(t)[u] = search.seen[u]
                               /\ t # Failed => Seen(t)[u] =
                                      search.seen[u] + IF t <= u THEN 1 ELSE 0
<1>1. search.seen \in [Times -> Nat]
  BY DEF SearchRecords
<1>2. \A u \in Times : search.seen[u] \in Nat /\ search.seen[u] + 0 = search.seen[u]
                       /\ search.seen[u] + 1 \in Nat
  BY <1>1
<1> QED BY <1>2 DEF Seen

\* Cutting twice is cutting once.
LEMMA CutAgain ==
    ASSUME NEW n \in Nat, NEW d \in {0, 1}
    PROVE  AtMost(AtMost(n) + d) = AtMost(n + d)
<1>1. TopK \in Nat \ {0}
  BY SchedulerAssumption
<1>2. CASE n < TopK
  BY <1>1, <1>2 DEF AtMost
<1>3. CASE ~(n < TopK)
  <2>1. AtMost(n) = TopK /\ AtMost(n + d) = TopK
    BY <1>1, <1>3 DEF AtMost
  <2>2. ~(TopK + d < TopK)
    BY <1>1
  <2> QED BY <2>1, <2>2 DEF AtMost
<1> QED BY <1>2, <1>3

\* A trial of the random search.
LEMMA TrialStep ==
    ASSUME SchedInv, NEW g \in Configs, NEW t \in Times \cup {Failed}, Trial(g, t)
    PROVE  SchedInv'
<1> DEFINE m == Traces'
           s == search
           z == search'
           more == Append(s.top, [g |-> g, t |-> t])
<1>1. s.pc = "random" /\ s \in SearchRecords
  BY UnderWay DEF Trial
<1>2. Untouched /\ Measure(g, t) /\ loaded' = loaded
  BY DEF Trial, Untouched
<1>2a. /\ measured \subseteq measured' /\ measured' \subseteq Ops \X Configs \X Times
       /\ Traces \subseteq m /\ (t # Failed => <<s.op, g, t>> \in m)
  BY <1>1, <1>2, MeasureKnown
<1>3. PICK top \in IF t = Failed THEN {s.top} ELSE KeepTop(more) :
         z = [s EXCEPT !.round = @ + 1, !.seen = Seen(t), !.top = top,
                 !.found = IF Better(t, @) THEN t ELSE @,
                 !.dull = IF t = Failed THEN @ ELSE IF Better(t, s.found) THEN 0 ELSE @ + 1]
  BY DEF Trial
<1>4. /\ z.pc = "random" /\ z.op = s.op /\ z.best = s.best /\ z.known = s.known
      /\ z.top = top /\ z.seen = Seen(t)
  BY <1>1, <1>3 DEF SearchRecords
<1>5. /\ s.top \in Seq(Results) /\ BestFirst(s.top) /\ Len(s.top) <= TopK
      /\ \A u \in Times : NoSlower(s.top, u) = AtMost(s.seen[u])
      /\ \A i \in DOMAIN s.top : <<s.op, s.top[i].g, s.top[i].t>> \in m
  BY <1>1, <1>2a DEF SchedInv, SearchSound, Ranked, TopMeasured, SearchRecords
<1>6. /\ top \in Seq(Results) /\ BestFirst(top) /\ Len(top) <= TopK
      /\ \A u \in Times : NoSlower(top, u) = AtMost(Seen(t)[u])
      /\ \A i \in DOMAIN top : <<s.op, top[i].g, top[i].t>> \in m
  <2>1. CASE t = Failed
    BY <1>1, <1>3, <1>5, <2>1, SeenCounts
  <2>2. CASE t # Failed
    <3>1. [g |-> g, t |-> t] \in Results /\ t \in Times
      BY <2>2 DEF Results
    <3>2. more \in Seq(Results)
      BY <1>5, <3>1
    <3>3. /\ top \in Seq(Results) /\ BestFirst(top) /\ Len(top) <= TopK
          /\ \A i \in DOMAIN top : \E j \in DOMAIN more : top[i] = more[j]
          /\ \A u \in Times : NoSlower(top, u) = AtMost(NoSlower(more, u))
      BY <1>3, <2>2, <3>2, TopKept
    <3>4. ASSUME NEW u \in Times PROVE NoSlower(top, u) = AtMost(Seen(t)[u])
      <4> DEFINE d == IF t <= u THEN 1 ELSE 0
                 n == s.seen[u]
      <4>1. NoSlower(more, u) = AtMost(n) + d
        BY <1>5, <3>1, OneResultMore
      <4>2. Seen(t)[u] = n + d
        BY <1>1, <2>2, SeenCounts
      <4>3. n \in Nat /\ d \in {0, 1}
        BY <1>1 DEF SearchRecords
      <4>4. NoSlower(top, u) = AtMost(NoSlower(more, u))
        BY <3>3
      <4> HIDE DEF n, d
      <4>5. AtMost(AtMost(n) + d) = AtMost(n + d)
        BY <4>3, CutAgain
      <4> QED BY <4>1, <4>2, <4>4, <4>5
    <3>5. \A j \in DOMAIN more : <<s.op, more[j].g, more[j].t>> \in m
      <4>1. /\ DOMAIN more = 1 .. Len(s.top) + 1 /\ DOMAIN s.top = 1 .. Len(s.top)
            /\ more[Len(s.top) + 1] = [g |-> g, t |-> t] /\ Len(s.top) \in Nat
            /\ \A j \in 1 .. Len(s.top) : more[j] = s.top[j]
        BY <1>5
      <4>2. \A j \in 1 .. Len(s.top) : <<s.op, more[j].g, more[j].t>> \in m
        BY <1>5, <4>1
      <4>3. ASSUME NEW j \in DOMAIN more PROVE j \in 1 .. Len(s.top) \/ j = Len(s.top) + 1
        BY <4>1
      <4>4. <<s.op, more[Len(s.top) + 1].g, more[Len(s.top) + 1].t>> \in m
        BY <1>2a, <2>2, <4>1
      <4> HIDE DEF more, m
      <4> QED BY <4>2, <4>3, <4>4
    <3> QED BY <3>3, <3>4, <3>5
  <2> QED BY <2>1, <2>2
<1>7. z \in SearchRecords
  <2>0. s.round \in Nat /\ s.dull \in Nat
    BY <1>1 DEF SearchRecords
  <2>1. Seen(t) \in [Times -> Nat] /\ s.round + 1 \in Nat /\ s.dull + 1 \in Nat
    BY <1>1, <2>0, SeenCounts
  <2>2. (IF Better(t, s.found) THEN t ELSE s.found) \in Times \cup {Failed}
    BY <1>1 DEF SearchRecords
  <2> QED BY <1>1, <1>3, <1>6, <2>1, <2>2 DEF SearchRecords
<1>8. Ranked(z) /\ TopMeasured(z, m)
  BY <1>4, <1>6 DEF Ranked, TopMeasured
<1>9. Informed(z)
  BY <1>1, <1>4 DEF SchedInv, SearchSound, Informed
<1> QED BY <1>2, <1>2a, <1>7, <1>8, <1>9, SearchKeeps DEF SearchSound, SearchShape

\* An individual of a generation.
LEMMA IndividualStep ==
    ASSUME SchedInv, NEW g \in Configs, NEW t \in Times \cup {Failed}, Individual(g, t)
    PROVE  SchedInv'
<1> DEFINE m == Traces'
           s == search
           z == search'
           more == Append(s.top, [g |-> g, t |-> t])
           top == IF t = Failed THEN s.top ELSE more
<1>1. s.pc = "evolve" /\ s \in SearchRecords /\ s.left > 0
  BY UnderWay DEF Individual
<1>2. Untouched /\ Measure(g, t) /\ loaded' = loaded
  BY DEF Individual, Untouched
<1>2a. /\ measured \subseteq measured' /\ measured' \subseteq Ops \X Configs \X Times
       /\ Traces \subseteq m /\ (t # Failed => <<s.op, g, t>> \in m)
  BY <1>1, <1>2, MeasureKnown
<1>3. z = [s EXCEPT !.left = @ - 1, !.seen = Seen(t),
             !.top = IF t = Failed THEN @ ELSE Append(@, [g |-> g, t |-> t]),
             !.gen = IF t = Failed THEN @ ELSE @ \cup {t}]
  BY DEF Individual
<1>4. /\ z.pc = "evolve" /\ z.op = s.op /\ z.best = s.best /\ z.known = s.known
      /\ z.top = top /\ z.seen = Seen(t)
  BY <1>1, <1>3 DEF SearchRecords
<1>5. /\ s.top \in Seq(Results) /\ \A u \in Times : NoSlower(s.top, u) = s.seen[u]
      /\ \A i \in DOMAIN s.top : <<s.op, s.top[i].g, s.top[i].t>> \in m
  BY <1>1, <1>2a DEF SchedInv, SearchSound, Ranked, TopMeasured, SearchRecords
<1>6. /\ top \in Seq(Results) /\ \A u \in Times : NoSlower(top, u) = Seen(t)[u]
      /\ \A i \in DOMAIN top : <<s.op, top[i].g, top[i].t>> \in m
  <2>1. CASE t = Failed
    BY <1>1, <1>5, <2>1, SeenCounts
  <2>2. CASE t # Failed
    <3>1. [g |-> g, t |-> t] \in Results /\ t \in Times /\ top = more
      BY <2>2 DEF Results
    <3>2. more \in Seq(Results)
      BY <1>5, <3>1
    <3>3. ASSUME NEW u \in Times PROVE NoSlower(more, u) = Seen(t)[u]
      <4>1. NoSlower(more, u) = s.seen[u] + IF t <= u THEN 1 ELSE 0
        BY <1>5, <3>1, OneResultMore
      <4> QED BY <1>1, <2>2, <4>1, SeenCounts
    <3>4. \A j \in DOMAIN more : <<s.op, more[j].g, more[j].t>> \in m
      <4>1. /\ DOMAIN more = 1 .. Len(s.top) + 1 /\ DOMAIN s.top = 1 .. Len(s.top)
            /\ more[Len(s.top) + 1] = [g |-> g, t |-> t] /\ Len(s.top) \in Nat
            /\ \A j \in 1 .. Len(s.top) : more[j] = s.top[j]
        BY <1>5
      <4>2. \A j \in 1 .. Len(s.top) : <<s.op, more[j].g, more[j].t>> \in m
        BY <1>5, <4>1
      <4>3. ASSUME NEW j \in DOMAIN more PROVE j \in 1 .. Len(s.top) \/ j = Len(s.top) + 1
        BY <4>1
      <4>4. <<s.op, more[Len(s.top) + 1].g, more[Len(s.top) + 1].t>> \in m
        BY <1>2a, <2>2, <4>1
      <4> HIDE DEF more, m
      <4> QED BY <4>2, <4>3, <4>4
    <3> QED BY <3>1, <3>2, <3>3, <3>4
  <2> QED BY <2>1, <2>2
<1>7. z \in SearchRecords
  <2>0. s.left \in Nat
    BY <1>1 DEF SearchRecords
  <2>1. Seen(t) \in [Times -> Nat] /\ s.left - 1 \in Nat
    BY <1>1, <2>0, SeenCounts
  <2>2. (IF t = Failed THEN s.gen ELSE s.gen \cup {t}) \in SUBSET Times
    BY <1>1 DEF SearchRecords
  <2>3. top \in Seq(Results) /\ z = [s EXCEPT !.left = @ - 1, !.seen = Seen(t),
                                   !.top = top, !.gen = IF t = Failed THEN @ ELSE @ \cup {t}]
    BY <1>3, <1>6
  <2> HIDE DEF top
  <2> QED BY <1>1, <2>1, <2>2, <2>3 DEF SearchRecords
<1>8. Ranked(z) /\ TopMeasured(z, m)
  BY <1>4, <1>6 DEF Ranked, TopMeasured
<1>9. Informed(z)
  BY <1>1, <1>4 DEF SchedInv, SearchSound, Informed
<1> QED BY <1>2, <1>2a, <1>7, <1>8, <1>9, SearchKeeps DEF SearchSound, SearchShape

\* A trial that the cost model spares.
LEMMA SkipStep ==
    ASSUME SchedInv, SkipTrial
    PROVE  SchedInv'
<1> DEFINE s == search
           z == search'
<1>1. s.pc = "random" /\ s \in SearchRecords
  BY UnderWay DEF SkipTrial
<1>2. z = [s EXCEPT !.round = @ + 1] /\ Untouched /\ measured' = measured
  BY DEF SkipTrial
<1>3. z \in SearchRecords
  <2>1. s.round + 1 \in Nat
    BY <1>1 DEF SearchRecords
  <2> QED BY <1>1, <1>2, <2>1 DEF SearchRecords
<1>4. /\ z.pc = "random" /\ z.op = s.op /\ z.best = s.best /\ z.known = s.known
      /\ z.top = s.top /\ z.seen = s.seen
  BY <1>1, <1>2 DEF SearchRecords
<1>5. Ranked(z) /\ TopMeasured(z, Traces) /\ Informed(z)
  BY <1>1, <1>2, <1>4 DEF SchedInv, SearchSound, Ranked, TopMeasured, Informed
<1> QED BY <1>2, <1>3, <1>5, SearchGoesOn DEF SearchSound, SearchShape

\* The results of an evolutionary search when it ends.
LEMMA SortedAtEnd ==
    ASSUME SchedInv, search.pc = "evolve", NEW top \in KeepTop(search.top)
    PROVE  /\ top \in Seq(Results) /\ BestFirst(top) /\ Len(top) <= TopK
           /\ \A u \in Times : NoSlower(top, u) = AtMost(search.seen[u])
           /\ \A i \in DOMAIN top : <<search.op, top[i].g, top[i].t>> \in Traces
<1> DEFINE s == search
<1>1. s \in SearchRecords
  BY UnderWay
<1>2. /\ s.top \in Seq(Results) /\ \A u \in Times : NoSlower(s.top, u) = s.seen[u]
      /\ \A i \in DOMAIN s.top : <<s.op, s.top[i].g, s.top[i].t>> \in Traces
  BY <1>1 DEF SchedInv, SearchSound, Ranked, TopMeasured, SearchRecords
<1>3. /\ top \in Seq(Results) /\ Len(top) <= TopK /\ BestFirst(top)
      /\ \A i \in DOMAIN top : \E j \in DOMAIN s.top : top[i] = s.top[j]
      /\ \A u \in Times : NoSlower(top, u) = AtMost(NoSlower(s.top, u))
  BY <1>2, TopKept
<1> QED BY <1>2, <1>3

\* The smallest of some times is one of them.
LEMMA LeastTime ==
    ASSUME NEW S \in SUBSET Times, S # {}
    PROVE  (CHOOSE t \in S : \A u \in S : t <= u) \in S
<1>1. Times \subseteq Nat
  BY SchedulerAssumption
<1>2. PICK t \in S : \A u \in S : <<u, t>> \notin OpToRel(<, Nat)
  BY <1>1, WFMin, NatLessThanWellFounded, Zenon
<1>3. \A u \in S : ~(u < t)
  BY <1>1, <1>2 DEF OpToRel
<1>4. \A u \in S : t <= u
  BY <1>1, <1>3
<1> QED BY <1>4

\* The end of a generation.
LEMMA GenerationStep ==
    ASSUME SchedInv, NextGeneration
    PROVE  SchedInv'
<1> DEFINE s == search
           z == search'
           best == CHOOSE t \in s.gen : \A u \in s.gen : t <= u
           improves == s.gen # {} /\ Better(best, s.found)
           dull == IF s.gen = {} THEN s.dull ELSE IF improves THEN 0 ELSE s.dull + 1
           stops == Counted(s.round) = Generations \/ (s.gen # {} /\ dull >= GenPatience)
           found == IF improves THEN best ELSE s.found
           left == IF stops THEN 0 ELSE PopulationSize
           pc == IF stops THEN "insert" ELSE s.pc
<1>1. s.pc = "evolve" /\ s \in SearchRecords /\ Untouched /\ measured' = measured
  BY UnderWay DEF NextGeneration
<1>2. PICK top \in IF stops THEN KeepTop(s.top) ELSE {s.top} :
         z = [s EXCEPT !.round = Counted(@), !.dull = dull, !.gen = {}, !.found = found,
                       !.left = left, !.pc = pc, !.top = top]
  BY DEF NextGeneration
<1>3. /\ Counted(s.round) \in Nat /\ dull \in Nat /\ found \in Times \cup {Failed}
      /\ left \in Nat /\ pc \in {"evolve", "insert"}
  <2>1. s.gen \in SUBSET Times /\ s.round \in Nat /\ s.dull \in Nat /\ PopulationSize \in Nat
        /\ s.found \in Times \cup {Failed}
    BY <1>1, SchedulerAssumption DEF SearchRecords
  <2>2. s.gen # {} => best \in Times
    BY <2>1, LeastTime
  <2> QED BY <1>1, <2>1, <2>2 DEF Counted
<1>4. /\ top \in Seq(Results)
      /\ \A i \in DOMAIN top : <<s.op, top[i].g, top[i].t>> \in Traces
      /\ pc = "evolve" => \A u \in Times : NoSlower(top, u) = s.seen[u]
      /\ pc = "insert" => /\ BestFirst(top) /\ Len(top) <= TopK
                          /\ \A u \in Times : NoSlower(top, u) = AtMost(s.seen[u])
  <2>1. CASE stops
    BY <1>1, <1>2, <2>1, SortedAtEnd
  <2>2. CASE ~stops
    BY <1>1, <1>2, <2>2 DEF SchedInv, SearchSound, Ranked, TopMeasured, SearchRecords
  <2> QED BY <2>1, <2>2
<1> HIDE DEF dull, found, left, pc, stops
<1>5. /\ z.pc = pc /\ z.op = s.op /\ z.best = s.best /\ z.known = s.known
      /\ z.top = top /\ z.seen = s.seen
  BY <1>1, <1>2 DEF SearchRecords
<1>6. z \in SearchRecords
  BY <1>1, <1>2, <1>3, <1>4 DEF SearchRecords
<1>7. Ranked(z) /\ TopMeasured(z, Traces)
  BY <1>1, <1>3, <1>4, <1>5 DEF Ranked, TopMeasured
<1>8. Informed(z)
  BY <1>1, <1>3, <1>5 DEF SchedInv, SearchSound, Informed
<1> QED BY <1>1, <1>6, <1>7, <1>8, SearchGoesOn DEF SearchSound, SearchShape

\* The end of a search.
LEMMA OverStep ==
    ASSUME SchedInv, SearchOver
    PROVE  SchedInv'
<1> DEFINE s == search
           z == search'
<1>1. s.pc \in {"random", "evolve"} /\ s \in SearchRecords /\ Untouched /\ measured' = measured
  BY UnderWay DEF SearchOver
<1>2. PICK top \in IF s.pc = "evolve" THEN KeepTop(s.top) ELSE {s.top} :
         z = [s EXCEPT !.pc = "insert", !.top = top, !.left = 0]
  BY DEF SearchOver
<1>3. /\ top \in Seq(Results) /\ BestFirst(top) /\ Len(top) <= TopK
      /\ \A u \in Times : NoSlower(top, u) = AtMost(s.seen[u])
      /\ \A i \in DOMAIN top : <<s.op, top[i].g, top[i].t>> \in Traces
  <2>1. CASE s.pc = "evolve"
    BY <1>2, <2>1, SortedAtEnd
  <2>2. CASE s.pc = "random"
    BY <1>1, <1>2, <2>2 DEF SchedInv, SearchSound, Ranked, TopMeasured, SearchRecords
  <2> QED BY <1>1, <2>1, <2>2
<1>4. /\ z.pc = "insert" /\ z.op = s.op /\ z.best = s.best /\ z.known = s.known
      /\ z.top = top /\ z.seen = s.seen
  BY <1>1, <1>2 DEF SearchRecords
<1>5. z \in SearchRecords
  BY <1>1, <1>2, <1>3 DEF SearchRecords
<1>6. Ranked(z) /\ TopMeasured(z, Traces)
  BY <1>1, <1>3, <1>4 DEF Ranked, TopMeasured
<1>7. Informed(z)
  BY <1>1, <1>4 DEF SchedInv, SearchSound, Informed
<1> QED BY <1>1, <1>5, <1>6, <1>7, SearchGoesOn DEF SearchSound, SearchShape

\* One result goes into the cache.
LEMMA InsertStep ==
    ASSUME SchedInv, InsertResult
    PROVE  SchedInv'
<1> DEFINE s == search
           z == search'
           r == s.top[s.left + 1]
<1>1. /\ s.pc = "insert" /\ s \in SearchRecords /\ s.left < Len(s.top)
      /\ Insert(s.op, r.g, r.t)
      /\ UNCHANGED <<file, calls, searches, loaded, measured>>
  BY UnderWay DEF InsertResult
<1>2. z = [s EXCEPT !.left = @ + 1]
  BY DEF InsertResult
<1>3. s.top \in Seq(Results) /\ s.left \in Nat /\ s.op \in Ops
  BY <1>1 DEF SearchRecords
<1>4. s.left + 1 \in DOMAIN s.top /\ r \in Results
  BY <1>1, <1>3
<1>5. /\ r.g \in Configs /\ r.t \in Given /\ <<s.op, r.g, r.t>> \in Traces
  BY <1>1, <1>4 DEF Results, Given, SchedInv, SearchSound, TopMeasured
<1> HIDE DEF r
<1>6. /\ clock' \in 0 .. MaxClock /\ CacheShape(cache', clock')
      /\ TimesMeasured(cache', Traces) /\ CacheBounded' /\ overfull' \in BOOLEAN
  BY <1>1, <1>3, <1>5, InsertKeeps DEF SchedInv, StoreSound
<1>7. z \in SearchRecords
  <2>1. s.left + 1 \in Nat
    BY <1>3
  <2> QED BY <1>1, <1>2, <2>1 DEF SearchRecords
<1>8. /\ z.pc = "insert" /\ z.op = s.op /\ z.best = s.best /\ z.known = s.known
      /\ z.top = s.top /\ z.seen = s.seen
  BY <1>1, <1>2 DEF SearchRecords
<1>9. Ranked(z) /\ TopMeasured(z, Traces) /\ Informed(z)
  BY <1>1, <1>8 DEF SchedInv, SearchSound, Ranked, TopMeasured, Informed
<1>10. Traces' = Traces /\ Rounded' = Rounded
  BY <1>1, TracesStay
<1> QED BY <1>1, <1>6, <1>7, <1>9, <1>10 DEF SchedInv, StoreSound, SearchSound, SearchShape

\* The answer of schedule_op.
LEMMA FinishStep ==
    ASSUME SchedInv, Finish
    PROVE  SchedInv'
<1> DEFINE s == search
           z == search'
           best == IF s.top # <<>> /\ Better(s.top[1].t, s.best) THEN s.top[1].t ELSE s.best
<1>1. s.pc = "insert" /\ s \in SearchRecords /\ Untouched /\ measured' = measured
  BY UnderWay DEF Finish
<1>2. z = [s EXCEPT !.pc = "done", !.best = best]
  BY DEF Finish
<1>3. Times \subseteq Nat \ {0}
  BY SchedulerAssumption
<1>4. s.top # <<>> => s.top[1].t \in Times
  <2>1. s.top \in Seq(Results)
    BY <1>1 DEF SearchRecords
  <2>2. s.top # <<>> => s.top[1] \in Results
    BY <2>1
  <2> QED BY <2>2 DEF Results
<1>5. best \in Times \cup {Failed} /\ s.best \in Times \cup {Failed} /\ s.known \subseteq Given
  BY <1>1, <1>4 DEF SearchRecords
<1>6. /\ s.top # <<>> => best # Failed /\ best <= s.top[1].t
      /\ s.best # Failed => best # Failed /\ best <= s.best
  <2> DEFINE x == s.best
             y == s.top[1].t
             some == s.top # <<>>
  <2>1. best = IF some /\ Better(y, x) THEN y ELSE x
    OBVIOUS
  <2>2. x \in Nat /\ (some => y \in Nat \ {0})
    BY <1>3, <1>4, <1>5, TimesAreNumbers
  <2> HIDE DEF best, x, y, some
  <2>6. (some => best # Failed /\ best <= y) /\ (x # Failed => best # Failed /\ best <= x)
    <3>1. CASE some /\ Better(y, x)
      BY <2>1, <2>2, <3>1 DEF Better, Failed
    <3>2. CASE some /\ ~Better(y, x)
      BY <2>1, <2>2, <3>2 DEF Better, Failed
    <3>3. CASE ~some
      BY <2>1, <2>2, <3>3
    <3> QED BY <3>1, <3>2, <3>3
  <2> QED BY <2>6 DEF x, y, some
<1> HIDE DEF best
<1>7. z \in SearchRecords
  BY <1>1, <1>2, <1>5 DEF SearchRecords
<1>8. /\ z.pc = "done" /\ z.op = s.op /\ z.best = best /\ z.known = s.known
      /\ z.top = s.top /\ z.seen = s.seen
  BY <1>1, <1>2 DEF SearchRecords
<1>9. Ranked(z) /\ TopMeasured(z, Traces)
  BY <1>1, <1>8 DEF SchedInv, SearchSound, Ranked, TopMeasured
<1>10. Informed(z)
  <2>1. ASSUME Placeholder \notin s.known, NEW t \in s.known
        PROVE  best # Failed /\ best <= t
    <3>1. s.best # Failed /\ s.best <= t
      BY <1>1, <2>1 DEF SchedInv, SearchSound, Informed
    <3>2. t \in Nat
      <4>1. t \in Given /\ t # Placeholder
        BY <1>5, <2>1
      <4> QED BY <1>3, <4>1 DEF Given
    <3>3. s.best \in Nat /\ best \in Nat
      BY <1>5, TimesAreNumbers
    <3> QED BY <1>6, <3>1, <3>2, <3>3
  <2> QED BY <1>6, <1>8, <2>1 DEF Informed
<1> QED BY <1>1, <1>7, <1>9, <1>10, SearchGoesOn DEF SearchSound, SearchShape

-----------------------------------------------------------------------------
(* The calls of the user, and every step.                                        *)

\* A call that starts no search.
LEMMA AskKeeps ==
    ASSUME SchedInv, Ask, UNCHANGED <<search, searches, loaded, measured>>,
           clock' \in 0 .. MaxClock, overfull' \in BOOLEAN,
           StoreSound(cache', file', clock', Traces, Rounded), CacheBounded'
    PROVE  SchedInv'
<1>1. calls' \in 0 .. MaxCalls
  BY SchedulerAssumption DEF Ask, SchedInv
<1>2. Traces' = Traces /\ Rounded' = Rounded
  BY TracesStay
<1> QED BY <1>1, <1>2 DEF SchedInv

\* A call of schedule_op.
LEMMA ScheduleStep ==
    ASSUME SchedInv, NEW o \in Ops, NEW strategy \in {"random", "evolve"}, ScheduleOp(o, strategy)
    PROVE  SchedInv'
<1> DEFINE z == search'
           left == IF strategy = "evolve" THEN PopulationSize ELSE 0
           zeros == [u \in Times |-> 0]
<1>1. z = [pc |-> strategy, op |-> o, best |-> CachedBest(o), known |-> Known(o),
           top |-> <<>>, found |-> Failed, round |-> 0, dull |-> 0, left |-> left,
           gen |-> {}, seen |-> zeros]
  BY DEF ScheduleOp, Known
<1>2. Ask /\ UNCHANGED <<clock, overfull, cache, file, loaded, measured>>
  BY DEF ScheduleOp
<1>2a. Traces' = Traces /\ Rounded' = Rounded
  BY <1>2, TracesStay
<1>2b. searches' \in 0 .. MaxSearches
  BY SchedulerAssumption DEF ScheduleOp, SchedInv
<1>3. CacheShape(cache, clock)
  BY DEF SchedInv, StoreSound
<1>4. /\ Known(o) \subseteq Given /\ CachedBest(o) \in Times \cup {Failed}
      /\ Placeholder \notin Known(o) =>
             \A t \in Known(o) : CachedBest(o) # Failed /\ CachedBest(o) <= t
  BY <1>3, BestCached
<1>5. left \in Nat /\ zeros \in [Times -> Nat]
  BY SchedulerAssumption
<1>6. z \in SearchRecords
  <2>1. <<>> \in Seq(Results) /\ 0 \in Nat
    OBVIOUS
  <2> HIDE DEF left, zeros
  <2> QED BY <1>1, <1>4, <1>5, <2>1 DEF SearchRecords
<1>7. Ranked(z)
  <2>1. \A u \in Times : NoSlower(<<>>, u) = 0
    <3>1. \A u \in Times : {i \in DOMAIN <<>> : <<>>[i].t <= u} = {}
      OBVIOUS
    <3> QED BY <3>1, FS_EmptySet DEF NoSlower
  <2>2. AtMost(0) = 0 /\ Len(<<>>) <= TopK
    BY SchedulerAssumption DEF AtMost
  <2>3. BestFirst(<<>>)
    BY DEF BestFirst
  <2>4. z.top = <<>> /\ z.pc = strategy /\ \A u \in Times : z.seen[u] = 0
    BY <1>1
  <2> QED BY <2>1, <2>2, <2>3, <2>4 DEF Ranked
<1>8. TopMeasured(z, Traces)
  BY <1>1 DEF TopMeasured
<1>9. Informed(z)
  BY <1>1, <1>4 DEF Informed
<1>10. calls' \in 0 .. MaxCalls /\ CacheBounded'
  BY <1>2, SchedulerAssumption DEF Ask, SchedInv, CacheBounded, Entries
<1> HIDE DEF z
<1> QED BY <1>2, <1>2a, <1>2b, <1>6, <1>7, <1>8, <1>9, <1>10
    DEF SchedInv, SearchSound, SearchShape, z

\* A warmup.
LEMMA WarmupStep ==
    ASSUME SchedInv, NEW o \in Ops, Warmup(o)
    PROVE  SchedInv'
<1>1. Ask /\ UNCHANGED <<file, search, searches, loaded, measured>>
  BY DEF Warmup
<1>2. CASE <<o, Default>> \in Entries
  <2>1. UNCHANGED <<cache, clock, overfull>>
    BY <1>2 DEF Warmup
  <2>2. CacheBounded'
    BY <2>1 DEF SchedInv, CacheBounded, Entries
  <2> QED BY <1>1, <2>1, <2>2, AskKeeps DEF SchedInv
<1>3. CASE <<o, Default>> \notin Entries
  <2>1. Insert(o, Default, Placeholder)
    BY <1>3 DEF Warmup
  <2>2. Default \in Configs /\ Placeholder \in Given
    BY SchedulerAssumption DEF Given
  <2>3. /\ clock' \in 0 .. MaxClock /\ CacheShape(cache', clock')
        /\ TimesMeasured(cache', Traces) /\ CacheBounded' /\ overfull' \in BOOLEAN
    BY <2>1, <2>2, InsertKeeps DEF SchedInv, StoreSound
  <2> QED BY <1>1, <2>3, AskKeeps DEF SchedInv, StoreSound
<1> QED BY <1>2, <1>3

\* Saving rounds what the cache holds; what is rounded stays as it is.
LEMMA SaveCacheStep ==
    ASSUME SchedInv, SaveCache
    PROVE  SchedInv'
<1>1. /\ Ask /\ UNCHANGED <<cache, search, searches, clock, overfull, loaded, measured>>
      /\ file' = [k \in Entries |-> IF cache[k].time = Placeholder THEN Placeholder
                                    ELSE Written[cache[k].time]]
  BY DEF SaveCache
<1>2. /\ DOMAIN file' = DOMAIN cache
      /\ \A k \in DOMAIN cache : file'[k] = IF cache[k].time = Placeholder THEN Placeholder
                                            ELSE Written[cache[k].time]
  BY <1>1 DEF Entries
<1>3. /\ Written \in [Times -> Times] /\ \A t \in Times : Written[Written[t]] = Written[t]
      /\ CacheShape(cache, clock) /\ TimesMeasured(cache, Traces)
      /\ measured \subseteq Ops \X Configs \X Times
  BY SchedulerAssumption DEF SchedInv, StoreSound
<1>4. FileShape(file')
  BY <1>2, <1>3 DEF CacheShape, FileShape, Given
<1>5. ASSUME NEW k \in DOMAIN cache, cache[k].time # Placeholder
      PROVE  <<k[1], k[2], Written[cache[k].time]>> \in Rounded
  <2>1. PICK t : t = cache[k].time
    OBVIOUS
  <2>2. <<k[1], k[2], t>> \in measured \cup Rounded
    BY <1>3, <1>5, <2>1 DEF TimesMeasured, Traces
  <2>3. CASE <<k[1], k[2], t>> \in measured
    BY <2>1, <2>3 DEF Rounded
  <2>4. CASE <<k[1], k[2], t>> \in Rounded
    <3>1. PICK x \in measured : <<k[1], k[2], t>> = <<x[1], x[2], Written[x[3]]>>
      BY <2>4 DEF Rounded
    <3>2. x[3] \in Times
      BY <1>3, <3>1
    <3>3. Written[t] = Written[x[3]] /\ k[1] = x[1] /\ k[2] = x[2]
      BY <1>3, <3>1, <3>2
    <3> QED BY <2>1, <3>1, <3>3 DEF Rounded
  <2> QED BY <2>2, <2>3, <2>4
<1>6. FileMeasured(file', Rounded)
  BY <1>2, <1>5 DEF FileMeasured
<1>7. CacheBounded'
  BY <1>1 DEF SchedInv, CacheBounded, Entries
<1> QED BY <1>1, <1>4, <1>6, <1>7, AskKeeps DEF SchedInv, StoreSound

\* What is loaded goes back to a measurement that was rounded.
LEMMA LoadCacheStep ==
    ASSUME SchedInv, LoadCache
    PROVE  SchedInv'
<1>1. /\ Ask /\ UNCHANGED <<file, search, searches, clock, measured>>
      /\ cache' = Stamped(file) /\ overfull' = TRUE /\ loaded' = TRUE
  BY DEF LoadCache
<1>2. clock \in Nat
  BY DEF SchedInv
<1>3. Traces \subseteq Traces' /\ Rounded \subseteq Traces' /\ Rounded' = Rounded
  BY <1>1 DEF Traces, Rounded
<1>4. TimesMeasured(cache, Traces') /\ FileMeasured(file, Traces')
  BY <1>3 DEF SchedInv, StoreSound, TimesMeasured, FileMeasured
<1>5. CacheShape(cache', clock) /\ TimesMeasured(cache', Traces')
  BY <1>1, <1>2, <1>4, StampedShape DEF SchedInv, StoreSound
<1>6. CacheBounded'
  BY <1>1 DEF CacheBounded
<1>7. calls' \in 0 .. MaxCalls
  BY <1>1, SchedulerAssumption DEF Ask, SchedInv
<1>8. SearchSound(search, Traces')
  BY <1>3 DEF SchedInv, SearchSound, TopMeasured
<1> QED BY <1>1, <1>3, <1>5, <1>6, <1>7, <1>8 DEF SchedInv, StoreSound

\* An empty cache.
LEMMA EmptyCache ==
    ASSUME NEW now, NEW m
    PROVE  /\ CacheShape(<<>>, now) /\ TimesMeasured(<<>>, m)
           /\ FileShape(<<>>) /\ FileMeasured(<<>>, m)
           /\ Cardinality(DOMAIN <<>>) = 0
<1>1. DOMAIN <<>> = {}
  OBVIOUS
<1>2. IsFiniteSet({}) /\ Cardinality({}) = 0
  BY FS_EmptySet
<1> QED BY <1>1, <1>2 DEF CacheShape, TimesMeasured, FileShape, FileMeasured

LEMMA ClearStep ==
    ASSUME SchedInv, Clear
    PROVE  SchedInv'
<1>1. /\ Ask /\ cache' = <<>>
      /\ UNCHANGED <<file, search, searches, clock, overfull, loaded, measured>>
  BY DEF Clear
<1>2. CacheBounded'
  BY <1>1, EmptyCache, SchedulerAssumption DEF CacheBounded, Entries
<1> QED BY <1>1, <1>2, EmptyCache, AskKeeps DEF SchedInv, StoreSound

\* The answer is handed over.
LEMMA ReturnStep ==
    ASSUME SchedInv, Return
    PROVE  SchedInv'
<1>1. search' = Quiet /\ Untouched /\ measured' = measured
  BY DEF Return
<1>2. search'.pc = "idle"
  BY <1>1 DEF Quiet
<1> QED BY <1>1, <1>2, SearchGoesOn DEF SearchSound, SearchShape, TopMeasured, Ranked, Informed

\* At first the cache, the file and the search are empty.
LEMMA SchedStart ==
    ASSUME SchedInit
    PROVE  SchedInv
<1>1. search = Quiet /\ search.pc = "idle"
  BY DEF SchedInit, Quiet
<1>2. SearchSound(search, Traces)
  BY <1>1 DEF SearchSound, SearchShape, TopMeasured, Ranked, Informed
<1>3. StoreSound(cache, file, clock, Traces, Rounded)
  BY EmptyCache DEF SchedInit, StoreSound
<1>4. CacheBounded
  BY EmptyCache, SchedulerAssumption DEF SchedInit, CacheBounded, Entries
<1>5. /\ clock \in 0 .. MaxClock /\ calls \in 0 .. MaxCalls /\ searches \in 0 .. MaxSearches
      /\ overfull \in BOOLEAN /\ loaded \in BOOLEAN /\ measured \subseteq Ops \X Configs \X Times
  <2>1. /\ clock = 0 /\ calls = 0 /\ searches = 0 /\ overfull = FALSE /\ loaded = FALSE
        /\ measured = {} /\ {MaxCalls, MaxSearches, MaxClock} \subseteq Nat
    BY SchedulerAssumption DEF SchedInit
  <2>2. 0 \in 0 .. MaxClock /\ 0 \in 0 .. MaxCalls /\ 0 \in 0 .. MaxSearches
    BY <2>1
  <2> QED BY <2>1, <2>2
<1> QED BY <1>2, <1>3, <1>4, <1>5 DEF SchedInv

\* Every call and every step of a search of auto_scheduler/ keeps the invariant.
THEOREM SchedulerInvariance == SchedSpec => []SchedInv
<1>1. ASSUME SchedInv, SchedNext PROVE SchedInv'
  <2>1. ASSUME UserCall PROVE SchedInv'
    BY <1>1, <2>1, WarmupStep, ScheduleStep, SaveCacheStep, LoadCacheStep, ClearStep DEF UserCall
  <2>2. ASSUME Searching PROVE SchedInv'
    BY <1>1, <2>2, TrialStep, IndividualStep, SkipStep, GenerationStep, OverStep, InsertStep,
       FinishStep, ReturnStep DEF Searching
  <2> QED BY <1>1, <2>1, <2>2 DEF SchedNext
<1>2. ASSUME SchedInv, UNCHANGED schedVars PROVE SchedInv'
  <2>1. Traces' = Traces /\ Rounded' = Rounded
    BY <1>2, TracesStay DEF schedVars
  <2> QED BY <1>2, <2>1 DEF schedVars, SchedInv, CacheBounded, Entries
<1> QED BY SchedStart, <1>1, <1>2, PTL DEF SchedSpec

\* The cache of schedules holds only times that go back to a measurement of their
\* operation and schedule: the measured time itself, or, once a file was loaded, what
\* 6 digits keep of it, however often it was evicted, measured again, saved and loaded.
\* It is over its bound only with what was inserted at the latest time or came from a file.
THEOREM ScheduleCacheHolds == SchedSpec => []SchedCacheSound
<1>1. ASSUME SchedInv PROVE SchedCacheSound
  <2>1. SchedTypeOK
    <3>1. search # Quiet => search \in SearchRecords
      BY <1>1 DEF SchedInv, SearchSound, SearchShape
    <3>2. search # Quiet => search.best \in Times \cup {Failed}
                            /\ (search.pc # "evolve" => Len(search.top) <= TopK)
      BY <1>1, <3>1 DEF SchedInv, SearchSound, Ranked, SearchRecords
    <3> QED BY <1>1, <3>2
        DEF SchedInv, StoreSound, CacheShape, FileShape, Given, SchedTypeOK, Entries
  <2>2. CachedWasMeasured
    <3>1. ~(Placeholder > 0)
      BY DEF Placeholder
    <3>2. \A k \in DOMAIN cache : cache[k].time > 0 => cache[k].time # Placeholder
      BY <3>1
    <3> QED BY <1>1, <3>2 DEF SchedInv, StoreSound, TimesMeasured, CachedWasMeasured, Entries
  <2> QED BY <1>1, <2>1, <2>2 DEF SchedInv, SchedCacheSound
<1> QED BY SchedulerInvariance, <1>1, PTL

\* A search of schedule_op ends with the top_k best of all it measured, and answers
\* with a time that is no slower than any of them, nor than the cache knew.
THEOREM SearchFindsBest == SchedSpec => []BestIsFound
<1>1. ASSUME SchedInv PROVE BestIsFound
  <2>1. TopIsBest
    BY <1>1 DEF SchedInv, SearchSound, Ranked, TopIsBest
  <2>2. ASSUME search.pc = "done", NEW t \in Times,
               search.seen[t] > 0 \/ (Placeholder \notin search.known /\ t \in search.known)
        PROVE  search.best # Failed /\ search.best <= t
    <3>1. CASE Placeholder \notin search.known /\ t \in search.known
      BY <1>1, <2>2, <3>1 DEF SchedInv, SearchSound, Informed
    <3>2. CASE search.seen[t] > 0
      <4> DEFINE top == search.top
      <4>1. search \in SearchRecords
        BY <1>1, <2>2, UnderWay
      <4>2. top \in Seq(Results) /\ search.seen[t] \in Nat /\ search.best \in Nat /\ t \in Nat
        <5>1. top \in Seq(Results) /\ search.seen \in [Times -> Nat]
              /\ search.best \in Times \cup {Failed}
          BY <4>1 DEF SearchRecords
        <5> QED BY <5>1, TimesAreNumbers
      <4>3. BestFirst(top) /\ NoSlower(top, t) = AtMost(search.seen[t])
        BY <1>1, <2>2 DEF SchedInv, SearchSound, Ranked
      <4>4. NoSlower(top, t) # 0
        BY <3>2, <4>2, <4>3, SchedulerAssumption DEF AtMost
      <4>5. Places(top, t) # {}
        BY <4>2, <4>4, HowManyPlaces, FS_EmptySet
      <4>6. PICK i \in DOMAIN top : top[i].t <= t
        BY <4>5 DEF Places
      <4>7. 1 \in DOMAIN top /\ top[1].t \in Nat /\ top[i].t \in Nat /\ top # <<>>
        BY <4>2, <4>6, ResultItems
      <4>8. top[1].t <= top[i].t
        BY <4>2, <4>3, <4>6, <4>7, ResultItems DEF BestFirst
      <4>9. search.best # Failed /\ search.best <= top[1].t
        BY <1>1, <2>2, <4>7 DEF SchedInv, SearchSound, Informed
      <4> QED BY <4>2, <4>6, <4>7, <4>8, <4>9
    <3> QED BY <2>2, <3>1, <3>2
  <2> QED BY <2>1, <2>2 DEF BestIsFound, NoWorseThanKnown
<1> QED BY SchedulerInvariance, <1>1, PTL
=============================================================================
