---------------------------- MODULE AutoScheduler ----------------------------
(* auto_scheduler/: schedule_op looks an operation up in the schedule cache,    *)
(* searches for a better schedule with the random or the evolutionary strategy, *)
(* and puts what it found into the cache, which is bounded, may be warmed up    *)
(* with placeholders, and is saved to and loaded from a file. Schedules are     *)
(* model values; a measurement gives any time, or fails. Random choices (what   *)
(* is sampled, crossed or mutated) are left open.                               *)
EXTENDS Integers, Sequences, FiniteSets, SequencesExt

CONSTANTS
    Ops,           \* operations to schedule
    Configs,       \* schedules of an operation
    Default,       \* the default schedule, first of an evolutionary population
    Times,         \* times a measurement may give
    Written,       \* a time -> what is read back when it is written with 6 digits
    MaxSize,       \* max_size_ of the cache
    TopK,          \* options_.top_k
    MaxTrials,     \* options_.max_trials
    Patience,      \* options_.early_stop_patience of the random search
    PopulationSize, Generations, GenPatience,   \* of the evolutionary search
    MaxCalls,      \* bound: calls of the user
    MaxSearches,   \* bound: calls of schedule_op among them
    MaxClock       \* bound: ticks of the clock

ASSUME SchedulerAssumption ==
    /\ Default \in Configs
    /\ Times \subseteq Nat \ {0} /\ Times # {}
    \* 6 digits are within the precision of a double: a time that was read from the
    \* file is written as it was.
    /\ Written \in [Times -> Times] /\ \A t \in Times : Written[Written[t]] = Written[t]
    /\ {MaxSize, TopK, PopulationSize} \subseteq Nat \ {0}
    /\ {MaxCalls, MaxSearches, MaxClock} \subseteq Nat

VARIABLES
    cache,      \* <<operation, schedule>> -> [time, stamp]; Placeholder after warmup
    file,       \* the saved cache: <<operation, schedule>> -> time
    search,     \* the call of schedule_op under way
    clock, calls,
    searches,   \* calls of schedule_op so far
    overfull,   \* history: the file was loaded since the last insertion
    loaded,     \* history: the file was loaded at all
    measured    \* history: every <<operation, schedule, time>> measured

schedVars == <<cache, file, search, clock, calls, searches, overfull, loaded, measured>>

Placeholder == -1

Failed == 0     \* a measurement that is not valid

Quiet == [pc |-> "idle"]

---------------------------------------------------------------------------
(* The cache.                                                                   *)

Entries == DOMAIN cache

OfOp(o) == {k \in Entries : k[1] = o}

\* What evict_if_needed may leave of the cache c: the entries inserted first go,
\* one by one, down to max_size_; entries no older than the clock stay.
Evicted(c, now) ==
    {[k \in S |-> c[k]] : S \in {T \in SUBSET DOMAIN c :
        /\ \A k \in DOMAIN c \ T, j \in T : c[k].stamp <= c[j].stamp
        /\ \A k \in DOMAIN c \ T : c[k].stamp < now
        /\ Cardinality(T) <= MaxSize \/ \A j \in T : c[j].stamp >= now
        /\ T # DOMAIN c => Cardinality(T) >= MaxSize}}

\* The cache with the times of c for what c is about, stamped now.
Stamped(c) == [k \in DOMAIN c \cup Entries |->
                  IF k \in DOMAIN c THEN [time |-> c[k], stamp |-> clock] ELSE cache[k]]

Insert(o, g, time) ==
    \E now \in {clock, clock + 1} :
        /\ now <= MaxClock
        /\ clock' = now
        /\ cache' \in Evicted(Stamped([k \in {<<o, g>>} |-> time]), now)
        /\ overfull' = FALSE

\* get_best: the smallest time, placeholders included.
GetBest(o) == IF OfOp(o) = {} THEN Failed
              ELSE CHOOSE t \in {cache[k].time : k \in OfOp(o)} :
                      \A k \in OfOp(o) : t <= cache[k].time

\* Mutant: any schedule of the operation will do.
CachedForAny(o, g) == {cache[k].time : k \in OfOp(o)} \ {Placeholder}

\* CachingEvaluator::evaluate uses a cached time when it is one.
CachedTimes(o, g) == {cache[k].time : k \in Entries \cap {<<o, g>>}} \ {Placeholder}

\* What schedule_op takes from the cache.
CachedBest(o) == IF GetBest(o) > 0 THEN GetBest(o) ELSE Failed

---------------------------------------------------------------------------
(* Calls of the user.                                                           *)

Ask == search = Quiet /\ calls < MaxCalls /\ calls' = calls + 1

\* A placeholder for the default schedule, when it has no entry yet.
Warmup(o) ==
    /\ Ask
    /\ IF <<o, Default>> \in Entries THEN UNCHANGED <<cache, clock, overfull>>
       ELSE Insert(o, Default, Placeholder)
    /\ UNCHANGED <<file, search, searches, loaded, measured>>

\* The stream writes a time with its default precision; -1 stays what it is.
SaveCache ==
    /\ Ask
    /\ file' = [k \in Entries |-> IF cache[k].time = Placeholder THEN Placeholder
                                  ELSE Written[cache[k].time]]
    /\ UNCHANGED <<cache, search, searches, clock, overfull, loaded, measured>>

\* What is loaded is new, and nothing is evicted for it.
LoadCache ==
    /\ Ask /\ DOMAIN file # {}
    /\ cache' = Stamped(file)
    /\ overfull' = TRUE /\ loaded' = TRUE
    /\ UNCHANGED <<file, search, searches, clock, measured>>

Clear ==
    /\ Ask
    /\ cache' = <<>>
    /\ UNCHANGED <<file, search, searches, clock, overfull, loaded, measured>>

\* schedule_op: the best cached time is a first result, without a schedule.
ScheduleOp(o, strategy) ==
    /\ Ask /\ searches < MaxSearches /\ searches' = searches + 1
    /\ search' = [pc |-> strategy, op |-> o,
                  best |-> CachedBest(o),
                  known |-> {cache[k].time : k \in OfOp(o)},
                  top |-> <<>>, found |-> Failed, round |-> 0, dull |-> 0,
                  left |-> IF strategy = "evolve" THEN PopulationSize ELSE 0,
                  gen |-> {}, seen |-> [u \in Times |-> 0]]
    /\ UNCHANGED <<cache, file, clock, overfull, loaded, measured>>

---------------------------------------------------------------------------
(* Searching. A result is [g, t]: a schedule and its time.                      *)

Better(t, u) == t # Failed /\ (u = Failed \/ t < u)

Arranged(results, p) == [i \in DOMAIN results |-> results[p[i]]]

AtMost(n) == IF n < TopK THEN n ELSE TopK

Cut(results) == SubSeq(results, 1, AtMost(Len(results)))

BestFirst(results) == \A i, j \in DOMAIN results : i < j => results[i].t <= results[j].t

Arrangements(results) == {Arranged(results, p) : p \in Bijection(DOMAIN results, DOMAIN results)}

\* Mutant: the worst results are kept.
KeepWorst(results) == {Cut(s) : s \in {r \in Arrangements(results) : BestFirst(Reverse(r))}}

\* Sorted by time, equal times in any order, and cut to top_k.
KeepTop(results) == {Cut(s) : s \in {r \in Arrangements(results) : BestFirst(r)}}

\* The time evaluate gives for schedule g: cached, or measured now.
Measure(g, t) ==
    IF CachedTimes(search.op, g) # {}
    THEN t \in CachedTimes(search.op, g) /\ measured' = measured
    ELSE measured' = IF t = Failed THEN measured ELSE measured \cup {<<search.op, g, t>>}

Untouched == UNCHANGED <<cache, file, clock, calls, searches, overfull, loaded>>

\* History: how many valid results of this search were no slower than each time.
Seen(t) == [u \in Times |-> search.seen[u] + IF t # Failed /\ t <= u THEN 1 ELSE 0]

\* One trial of the random search; dull counts trials without a better result.
Trial(g, t) ==
    /\ search.pc = "random" /\ search.round < MaxTrials /\ search.dull < Patience
    /\ Measure(g, t)
    /\ \E top \in IF t = Failed THEN {search.top}
                 ELSE KeepTop(Append(search.top, [g |-> g, t |-> t])) :
         search' =
            [search EXCEPT !.round = @ + 1, !.seen = Seen(t), !.top = top,
                !.found = IF Better(t, @) THEN t ELSE @,
                !.dull = IF t = Failed THEN @ ELSE IF Better(t, search.found) THEN 0 ELSE @ + 1]
    /\ Untouched

\* The cost model may spare a schedule the measurement.
SkipTrial ==
    /\ search.pc = "random" /\ search.round < MaxTrials /\ search.dull < Patience
    /\ search' = [search EXCEPT !.round = @ + 1]
    /\ Untouched /\ UNCHANGED measured

\* The first individual of the first generation is the default schedule; later
\* ones, the elite too, may have been mutated to anything.
Individual(g, t) ==
    /\ search.pc = "evolve" /\ search.left > 0
    /\ search.round = 0 /\ search.left = PopulationSize => g = Default
    /\ Measure(g, t)
    /\ search' =
        [search EXCEPT !.left = @ - 1, !.seen = Seen(t),
            !.top = IF t = Failed THEN @ ELSE Append(@, [g |-> g, t |-> t]),
            !.gen = IF t = Failed THEN @ ELSE @ \cup {t}]
    /\ Untouched

Counted(round) == round + 1

\* After a generation. One without a valid result is evaluated again as it is.
NextGeneration ==
    LET best == CHOOSE t \in search.gen : \A u \in search.gen : t <= u
        improves == search.gen # {} /\ Better(best, search.found)
        dull == IF search.gen = {} THEN search.dull
                ELSE IF improves THEN 0 ELSE search.dull + 1
        stops == \/ Counted(search.round) = Generations
                 \/ search.gen # {} /\ dull >= GenPatience
    IN  /\ search.pc = "evolve" /\ search.left = 0
        /\ \E top \in IF stops THEN KeepTop(search.top) ELSE {search.top} :
             search' =
                [search EXCEPT !.round = Counted(@), !.dull = dull, !.gen = {},
                    !.found = IF improves THEN best ELSE @,
                    !.left = IF stops THEN 0 ELSE PopulationSize,
                    !.pc = IF stops THEN "insert" ELSE @,
                    !.top = top]
        /\ Untouched /\ UNCHANGED measured

\* The random search ends by itself; both end when their time is over, which is
\* looked at between trials and between generations.
SearchOver ==
    /\ \/ search.pc = "random"
       \/ search.pc = "evolve" /\ search.left = PopulationSize
    /\ \E top \in IF search.pc = "evolve" THEN KeepTop(search.top) ELSE {search.top} :
         search' = [search EXCEPT !.pc = "insert", !.top = top, !.left = 0]
    /\ Untouched /\ UNCHANGED measured

---------------------------------------------------------------------------
(* The results go into the cache from the best to the worst, so that of two     *)
(* results with the same schedule the slower one stays.                         *)

InsertResult ==
    /\ search.pc = "insert" /\ search.left < Len(search.top)
    /\ LET r == search.top[search.left + 1]
       IN  Insert(search.op, r.g, r.t)
    /\ search' = [search EXCEPT !.left = @ + 1]
    /\ UNCHANGED <<file, calls, searches, loaded, measured>>

Finish ==
    /\ search.pc = "insert" /\ search.left = Len(search.top)
    /\ search' = [search EXCEPT !.pc = "done",
                    !.best = IF search.top # <<>> /\ Better(search.top[1].t, @)
                             THEN search.top[1].t ELSE @]
    /\ Untouched /\ UNCHANGED measured

Return == search.pc = "done" /\ search' = Quiet /\ Untouched /\ UNCHANGED measured

SchedInit ==
    /\ cache = <<>> /\ file = <<>> /\ search = Quiet
    /\ clock = 0 /\ calls = 0 /\ searches = 0
    /\ overfull = FALSE /\ loaded = FALSE /\ measured = {}

UserCall ==
    \/ \E o \in Ops : Warmup(o) \/ \E s \in {"random", "evolve"} : ScheduleOp(o, s)
    \/ SaveCache \/ LoadCache \/ Clear

Searching ==
    \/ \E g \in Configs, t \in Times \cup {Failed} : Trial(g, t) \/ Individual(g, t)
    \/ SkipTrial \/ NextGeneration \/ SearchOver
    \/ InsertResult \/ Finish \/ Return

SchedNext == UserCall \/ Searching

SchedSpec == SchedInit /\ [][SchedNext]_schedVars /\ WF_schedVars(Searching)

---------------------------------------------------------------------------
\* Every variable has the shape of the state it stands for.
SchedTypeOK ==
    /\ DOMAIN cache \subseteq Ops \X Configs
    /\ \A k \in Entries : cache[k].time \in Times \cup {Placeholder}
                          /\ cache[k].stamp \in 0 .. clock
    /\ DOMAIN file \subseteq Ops \X Configs
    /\ clock \in 0 .. MaxClock /\ calls \in 0 .. MaxCalls /\ searches \in 0 .. MaxSearches
    /\ {overfull, loaded} \subseteq BOOLEAN /\ measured \subseteq Ops \X Configs \X Times
    /\ search # Quiet => /\ search.best \in Times \cup {Failed}
                         /\ search.pc # "evolve" => Len(search.top) <= TopK

\* The cache is over its bound only with entries that all carry the latest time,
\* or with what a file brought: evict_if_needed and load.
CacheBounded ==
    Cardinality(Entries) > MaxSize =>
        overfull \/ \A k \in Entries : cache[k].stamp >= clock

\* How many of the results are no slower than u.
NoSlower(results, u) == Cardinality({i \in DOMAIN results : results[i].t <= u})

\* Whatever the strategy and however it stopped, the results are the top_k best
\* of all valid measurements of the search, best first: no slower than any time there
\* are as many as were seen, or top_k.
TopIsBest ==
    search.pc \in {"insert", "done"} =>
        /\ BestFirst(search.top)
        /\ \A u \in Times : NoSlower(search.top, u) = AtMost(search.seen[u])

\* The result of schedule_op is no slower than anything its search measured, nor
\* than what the cache knew before, unless a placeholder hid it.
NoWorseThanKnown ==
    search.pc = "done" =>
        \A t \in Times :
            search.seen[t] > 0 \/ (Placeholder \notin search.known /\ t \in search.known)
                => search.best # Failed /\ search.best <= t

\* What 6 digits keep of the measurements. Saving it again loses no more.
Rounded == {<<x[1], x[2], Written[x[3]]>> : x \in measured}

\* The times there may be: measured, or rounded once a file was loaded.
Traces == IF loaded THEN measured \cup Rounded ELSE measured

\* A time in the cache goes back to a measurement of that operation and that schedule,
\* through evictions, any number of saves and loads, and searches that take it for a
\* result of their own.
CachedWasMeasured ==
    \A k \in Entries : cache[k].time > 0 => <<k[1], k[2], cache[k].time>> \in Traces

\* The cache keeps its bound and only what goes back to a measurement.
SchedCacheSound == SchedTypeOK /\ CacheBounded /\ CachedWasMeasured

\* A search answers with the best it knows.
BestIsFound == TopIsBest /\ NoWorseThanKnown

\* Every call of schedule_op returns: trials and generations are counted, and a
\* generation without a valid result counts too.
SearchReturns == search # Quiet ~> search = Quiet
=============================================================================
