---------------------------- MODULE CompileCaches ----------------------------
(* The three caches the compiler driver keeps under the user's home directory:  *)
(* tokens (common/parse_cache), compiled modules (common/compilation_cache) and *)
(* native executables (the build cache of main.cpp). A process is one run of    *)
(* the driver; several may run at once and any of them may be killed. A cache   *)
(* file is written in place, block by block, under a key made by joining the    *)
(* parts of the request. A file is the sequence of its blocks; a block says     *)
(* what it was made from, and is Hole where the file was extended past it.      *)
EXTENDS Integers, Sequences, FiniteSets, SequencesExt

CONSTANTS
    Procs,        \* processes of the driver
    Requests,     \* [source, name, level, mode]: the parts of the keys are sequences
    Blocks,       \* blocks of a complete file
    MaxStarts,    \* bound: runs of the driver
    MaxKills,     \* bound: processes killed
    NoFile, Hole

ASSUME CachesAssumption == Blocks \in Nat \ {0} /\ MaxStarts \in Nat /\ MaxKills \in Nat

VARIABLES
    disk,         \* kind of cache -> key -> blocks of the file, or NoFile
    proc,         \* what each process is doing
    starts, kills,
    abandoned,    \* history: files whose writer was killed since they were last opened
    risk          \* history: processes that read a file at a bad time

cacheVars == <<disk, proc, starts, kills, abandoned, risk>>

EntryKinds == {"tokens", "module", "binary"}

---------------------------------------------------------------------------
(* Keys. The separators are string literals "\0", that is, empty strings.       *)

TokensKey(r) == r.source \o r.name \o <<"v4">>

\* Mutant: the configuration is left out of the module's key.
ModuleKeyNoLevel(r) == r.source \o r.name

ModuleKey(r) == r.source \o r.name \o r.level

\* Two releases of the compiler are not modelled: the version is constant.
BinaryKey(r) == r.source

KeyOf(kind, r) == CASE kind = "tokens" -> TokensKey(r)
                    [] kind = "module" -> ModuleKey(r)
                    [] kind = "binary" -> BinaryKey(r)

Keys(kind) == {KeyOf(kind, r) : r \in Requests}

\* What a file of each kind depends on: tokens on the text, a module on the
\* optimisation level too.
Needs(kind, r) == IF kind = "module" THEN <<r.source, r.level>> ELSE <<r.source>>

\* What was made: for which request, and by a process that took no risk and had
\* the tokens of its own text.
Data == [req : Requests, clean : BOOLEAN]

DataBlock == [of : Data, n : 1 .. Blocks]

\* Two requests whose parts read the same once they are joined.
Joined(kind, r) == r.source \o r.name \o (IF kind = "module" THEN r.level ELSE <<"v4">>)

Ambiguous(kind, q, r) == Needs(kind, q) # Needs(kind, r) /\ Joined(kind, q) = Joined(kind, r)

\* A complete file that gives request r what it asks for.
RightFor(kind, r, file) ==
    /\ Len(file) = Blocks
    /\ \A i \in 1 .. Blocks :
          /\ file[i] # Hole /\ file[i].n = i
          /\ Needs(kind, file[i].of.req) = Needs(kind, r) /\ file[i].of.clean

Whole(d) == [i \in 1 .. Blocks |-> [of |-> d, n |-> i]]

Files == UNION {[1 .. n -> DataBlock \cup {Hole}] : n \in 0 .. Blocks}

ASSUME MarksAssumption == Hole \notin DataBlock /\ NoFile \notin Files

---------------------------------------------------------------------------
AtRest == [pc |-> "idle"]

\* The file a process is about to look at, read or write.
KindOf(pr) == IF pr.pc \in {"hasTokens", "loadTokens", "openTokens", "writeTokens"}
              THEN "tokens"
              ELSE IF pr.req.mode = "bytecode" THEN "module" ELSE "binary"

File(pr) == disk[KindOf(pr)][KeyOf(KindOf(pr), pr.req)]

Writing(p, kind, key) ==
    /\ proc[p].pc \in {"writeTokens", "write"}
    /\ KindOf(proc[p]) = kind
    /\ KeyOf(kind, proc[p].req) = key

InFlight(kind, key) == \E p \in Procs : Writing(p, kind, key)

Made(p) == [req |-> proc[p].req, clean |-> p \notin risk]

\* A read is a risk when the file is being written, was left half written, or
\* holds what a process at risk made, or a request the key cannot tell from this.
Risky(pr) ==
    LET kind == KindOf(pr)
        key  == KeyOf(kind, pr.req)
    IN  \/ InFlight(kind, key)
        \/ <<kind, key>> \in abandoned
        \/ \E b \in ToSet(disk[kind][key]) \ {Hole} :
              Ambiguous(kind, b.of.req, pr.req) \/ ~b.of.clean

Goto(p, pc) == proc' = [proc EXCEPT ![p].pc = pc]

---------------------------------------------------------------------------
(* lex(): the token cache is asked first; what it returns is used as it is.     *)

Start(p, r) ==
    /\ proc[p].pc = "idle" /\ starts < MaxStarts
    /\ starts' = starts + 1
    /\ proc' = [proc EXCEPT ![p] = [pc |-> "hasTokens", req |-> r,
                                    tokens |-> <<>>, art |-> <<>>, at |-> 0]]
    /\ UNCHANGED <<disk, kills, abandoned, risk>>

HasTokens(p) ==
    /\ proc[p].pc = "hasTokens"
    /\ proc' = IF File(proc[p]) # NoFile THEN [proc EXCEPT ![p].pc = "loadTokens"]
               ELSE [proc EXCEPT ![p].pc = "openTokens", ![p].tokens = Whole(Made(p))]
    /\ UNCHANGED <<disk, starts, kills, abandoned, risk>>

\* A file cut short gives the tokens it has and no error.
LoadTokens(p) ==
    /\ proc[p].pc = "loadTokens"
    /\ proc' = [proc EXCEPT ![p].pc = "parse", ![p].tokens = File(proc[p])]
    /\ risk' = IF Risky(proc[p]) THEN risk \cup {p} ELSE risk
    /\ UNCHANGED <<disk, starts, kills, abandoned>>

\* Tokens that are not those of the source fail to parse, or parse as another
\* program: the process ends, or goes on with what it has.
Parse(p) ==
    /\ proc[p].pc = "parse"
    /\ \/ Goto(p, "lookup")
       \/ ~RightFor("tokens", proc[p].req, proc[p].tokens) /\ Goto(p, "failed")
    /\ UNCHANGED <<disk, starts, kills, abandoned, risk>>

---------------------------------------------------------------------------
(* run_bytecode and the AOT branch: the cache, else compile and save.           *)

\* What is compiled is the program its tokens say, for better or worse.
Translated(p) ==
    [req |-> proc[p].req,
     clean |-> p \notin risk /\ RightFor("tokens", proc[p].req, proc[p].tokens)]

Compiled(p) == [proc EXCEPT ![p].pc = "open", ![p].art = Whole(Translated(p))]

Lookup(p) ==
    /\ proc[p].pc = "lookup"
    /\ proc' = IF File(proc[p]) # NoFile THEN [proc EXCEPT ![p].pc = "load"]
               ELSE Compiled(p)
    /\ UNCHANGED <<disk, starts, kills, abandoned, risk>>

\* The module cache wants the magic number of the first block; the copy of an
\* empty executable fails. Neither looks at what follows.
Accepts(file) == file # <<>> /\ file[1] # Hole

Load(p) ==
    /\ proc[p].pc = "load"
    /\ risk' = IF Risky(proc[p]) /\ Accepts(File(proc[p])) THEN risk \cup {p} ELSE risk
    /\ proc' = IF Accepts(File(proc[p]))
               THEN [proc EXCEPT ![p].pc = "done", ![p].art = File(proc[p])]
               ELSE Compiled(p)
    /\ UNCHANGED <<disk, starts, kills, abandoned>>

---------------------------------------------------------------------------
(* Saving: the file is opened, which empties it, and then written.              *)

AfterSave(pc) == IF pc \in {"openTokens", "writeTokens"} THEN "parse" ELSE "done"

OpenSave(p) ==
    /\ proc[p].pc \in {"openTokens", "open"}
    /\ proc' = [proc EXCEPT ![p].pc = IF @ = "open" THEN "write" ELSE "writeTokens",
                            ![p].at = 1]
    /\ disk' = [disk EXCEPT ![KindOf(proc[p])][KeyOf(KindOf(proc[p]), proc[p].req)] = <<>>]
    /\ abandoned' = abandoned \ {<<KindOf(proc[p]), KeyOf(KindOf(proc[p]), proc[p].req)>>}
    /\ UNCHANGED <<starts, kills, risk>>

\* No directory, or no file in it: nothing is saved and nobody is told.
CannotSave(p) ==
    /\ proc[p].pc \in {"openTokens", "open"}
    /\ Goto(p, AfterSave(proc[p].pc))
    /\ UNCHANGED <<disk, starts, kills, abandoned, risk>>

\* Each process writes at its own offset.
Put(file, i, b) ==
    [j \in 1 .. (IF i > Len(file) THEN i ELSE Len(file)) |->
        IF j = i THEN b ELSE IF j <= Len(file) THEN file[j] ELSE Hole]

\* Mutant: the last block is lost.
LastBlockEarly(at) == at + 1 >= Blocks

LastBlock(at) == at = Blocks

WriteBlock(p) ==
    LET pr  == proc[p]
        src == IF pr.pc = "writeTokens" THEN pr.tokens ELSE pr.art
    IN  /\ pr.pc \in {"writeTokens", "write"}
        /\ disk' = [disk EXCEPT ![KindOf(pr)][KeyOf(KindOf(pr), pr.req)] =
                        Put(@, pr.at, src[pr.at])]
        /\ proc' = [proc EXCEPT ![p].at = @ + 1,
                        ![p].pc = IF LastBlock(pr.at) THEN AfterSave(@) ELSE @]
        /\ UNCHANGED <<starts, kills, abandoned, risk>>

---------------------------------------------------------------------------
(* A process may be killed at any point; what it left on the disk stays.        *)

Kill(p) ==
    /\ proc[p].pc \notin {"idle", "done", "failed"} /\ kills < MaxKills
    /\ kills' = kills + 1
    /\ abandoned' = IF proc[p].pc \in {"writeTokens", "write"}
                    THEN abandoned \cup {<<KindOf(proc[p]), KeyOf(KindOf(proc[p]), proc[p].req)>>}
                    ELSE abandoned
    /\ proc' = [proc EXCEPT ![p] = AtRest]
    /\ risk' = risk \ {p}
    /\ UNCHANGED <<disk, starts>>

Exit(p) ==
    /\ proc[p].pc \in {"done", "failed"}
    /\ proc' = [proc EXCEPT ![p] = AtRest]
    /\ risk' = risk \ {p}
    /\ UNCHANGED <<disk, starts, kills, abandoned>>

CacheInit ==
    /\ disk = [k \in EntryKinds |-> [key \in Keys(k) |-> NoFile]]
    /\ proc = [p \in Procs |-> AtRest]
    /\ starts = 0 /\ kills = 0
    /\ abandoned = {} /\ risk = {}

CacheStep(p) ==
    \/ \E r \in Requests : Start(p, r)
    \/ HasTokens(p) \/ LoadTokens(p) \/ Parse(p)
    \/ Lookup(p) \/ Load(p)
    \/ OpenSave(p) \/ CannotSave(p) \/ WriteBlock(p)
    \/ Kill(p) \/ Exit(p)

CacheNext == \E p \in Procs : CacheStep(p)

CacheSpec == CacheInit /\ [][CacheNext]_cacheVars

---------------------------------------------------------------------------
\* Every variable has the shape of the state it stands for.
CacheTypeOK ==
    /\ \A k \in EntryKinds : \A key \in DOMAIN disk[k] : disk[k][key] \in Files \cup {NoFile}
    /\ \A p \in Procs : proc[p] # AtRest =>
          /\ proc[p].req \in Requests
          /\ proc[p].tokens \in Files /\ proc[p].art \in Files
          /\ proc[p].at \in 0 .. Blocks + 1
    /\ starts \in 0 .. MaxStarts /\ kills \in 0 .. MaxKills
    /\ \A e \in abandoned : e[1] \in EntryKinds /\ e[2] \in DOMAIN disk[e[1]]
    /\ risk \subseteq Procs

\* However the saves of several processes fell together (parse_cache.cpp,
\* compilation_cache.cpp, copy_file), a file nobody is writing and no killed
\* process left is complete: every block is there, in its place.
QuietFileComplete ==
    \A k \in EntryKinds : \A key \in DOMAIN disk[k] :
        (disk[k][key] # NoFile /\ ~InFlight(k, key) /\ <<k, key>> \notin abandoned) =>
            /\ Len(disk[k][key]) = Blocks
            /\ \A i \in 1 .. Blocks : disk[k][key][i] # Hole /\ disk[k][key][i].n = i

\* The files of the caches are what they should be at every moment.
CachesInOrder == CacheTypeOK /\ QuietFileComplete

\* A run that read no file at a bad time ends with the program of its own
\* request: the key tells apart what must be told apart, a short file is compiled
\* again, and nothing of another run is left behind in what it saved and read.
RunsItsOwnSource ==
    \A p \in Procs : proc[p].pc = "done" /\ p \notin risk =>
        RightFor(KindOf(proc[p]), proc[p].req, proc[p].art)
=============================================================================
