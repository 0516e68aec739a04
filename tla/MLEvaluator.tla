----------------------------- MODULE MLEvaluator -----------------------------
(* auto_scheduler/ml_evaluator: threads share one evaluator, its cache and its  *)
(* statistics, each under a mutex. A call that finds its schedule in the cache  *)
(* takes the cache's mutex and then the statistics'; one that does not ends by  *)
(* taking them the other way round.                                             *)
EXTENDS Integers, FiniteSets

CONSTANTS
    Threads,
    Schedules,    \* cache keys
    NoThread,     \* owner of a free mutex
    MaxEvals      \* bound: calls of evaluate

ASSUME EvaluatorAssumption == NoThread \notin Threads /\ IsFiniteSet(Threads) /\ MaxEvals \in Nat

VARIABLES
    evalPc, evalKey,      \* thread -> where it is in evaluate, and its key
    owner,                \* mutex -> thread that holds it
    evalCache,            \* keys of eval_cache_
    stats,                \* counters of stats_
    evals,
    wasReset              \* history: reset_stats was called

mlVars == <<evalPc, evalKey, owner, evalCache, stats, evals, wasReset>>

Mutexes == {"cache", "stats"}

Counters == {"total", "hits", "predictions", "errors"}

NoStats == [c \in Counters |-> 0]

Free(m) == owner[m] = NoThread

Held(t, m) == owner[m] = t

Count(cs) == stats' = [c \in Counters |-> IF c \in cs THEN stats[c] + 1 ELSE stats[c]]

At(t, pc) == evalPc[t] = pc

To(t, pc) == evalPc' = [evalPc EXCEPT ![t] = pc]

---------------------------------------------------------------------------
Call(t, k) ==
    /\ At(t, "idle") /\ evals < MaxEvals
    /\ evals' = evals + 1
    /\ evalKey' = [evalKey EXCEPT ![t] = k]
    /\ To(t, "lookup")
    /\ UNCHANGED <<owner, evalCache, stats, wasReset>>

\* A hit keeps the mutex of the cache (use_cache is on, as it is by default).
CacheLookup(t) ==
    /\ At(t, "lookup") /\ Free("cache")
    /\ IF evalKey[t] \in evalCache
       THEN To(t, "hit") /\ owner' = [owner EXCEPT !["cache"] = t]
       ELSE To(t, "features") /\ UNCHANGED owner
    /\ UNCHANGED <<evalKey, evalCache, stats, evals, wasReset>>

\* Mutant: a hit is not part of the total.
HitNotTotal(t) ==
    /\ At(t, "hit") /\ Free("stats")
    /\ Count({"hits"})
    /\ owner' = [owner EXCEPT !["cache"] = NoThread]
    /\ To(t, "idle")
    /\ UNCHANGED <<evalKey, evalCache, evals, wasReset>>

Hit(t) ==
    /\ At(t, "hit") /\ Free("stats")
    /\ Count({"hits", "total"})
    /\ owner' = [owner EXCEPT !["cache"] = NoThread]
    /\ To(t, "idle")
    /\ UNCHANGED <<evalKey, evalCache, evals, wasReset>>

\* Mutant: a failed extraction is tried again.
FeaturesAgain(t) ==
    /\ At(t, "features")
    /\ To(t, "predict") \/ To(t, "lookup")
    /\ UNCHANGED <<evalKey, owner, evalCache, stats, evals, wasReset>>

\* extract_features may throw; the error is counted and the call returns.
Features(t) ==
    /\ At(t, "features")
    /\ \/ To(t, "predict") /\ UNCHANGED stats
       \/ Free("stats") /\ Count({"errors", "total"}) /\ To(t, "idle")
    /\ UNCHANGED <<evalKey, owner, evalCache, evals, wasReset>>

\* With the model or the heuristic: counted under the mutex, and released.
Predict(t) ==
    /\ At(t, "predict") /\ Free("stats")
    /\ Count({"predictions"})
    /\ To(t, "total")
    /\ UNCHANGED <<evalKey, owner, evalCache, evals, wasReset>>

\* The mutex of the statistics is kept to the end of the function.
Total(t) ==
    /\ At(t, "total") /\ Free("stats")
    /\ Count({"total"})
    /\ owner' = [owner EXCEPT !["stats"] = t]
    /\ To(t, "store")
    /\ UNCHANGED <<evalKey, evalCache, evals, wasReset>>

Store(t) ==
    /\ At(t, "store") /\ Free("cache")
    /\ evalCache' = evalCache \cup {evalKey[t]}
    /\ owner' = [owner EXCEPT !["stats"] = NoThread]
    /\ To(t, "idle")
    /\ UNCHANGED <<evalKey, stats, evals, wasReset>>

ClearCache ==
    /\ Free("cache") /\ evalCache # {}
    /\ evalCache' = {}
    /\ UNCHANGED <<evalPc, evalKey, owner, stats, evals, wasReset>>

ResetStats ==
    /\ Free("stats")
    /\ stats' = NoStats /\ wasReset' = TRUE
    /\ UNCHANGED <<evalPc, evalKey, owner, evalCache, evals>>

MlInit ==
    /\ evalPc = [t \in Threads |-> "idle"]
    /\ evalKey \in [Threads -> {CHOOSE k \in Schedules : TRUE}]
    /\ owner = [m \in Mutexes |-> NoThread]
    /\ evalCache = {} /\ stats = NoStats /\ evals = 0 /\ wasReset = FALSE

Evaluating(t) ==
    CacheLookup(t) \/ Hit(t) \/ Features(t) \/ Predict(t) \/ Total(t) \/ Store(t)

MlNext ==
    \/ \E t \in Threads : (\E k \in Schedules : Call(t, k)) \/ Evaluating(t)
    \/ ClearCache \/ ResetStats

MlFairness == \A t \in Threads : WF_mlVars(Evaluating(t))

MlSpec == MlInit /\ [][MlNext]_mlVars /\ MlFairness

---------------------------------------------------------------------------
\* A thread at "hit" holds the mutex of the cache, one at "store" that of the
\* statistics, and nobody else holds either.
MutexesHeld ==
    /\ \A t \in Threads : Held(t, "cache") <=> At(t, "hit")
    /\ \A t \in Threads : Held(t, "stats") <=> At(t, "store")

\* The two orders of evaluate met: a hit waits for a store that waits for it.
Crossed == \E t, u \in Threads : At(t, "hit") /\ At(u, "store")

\* Unless the statistics were reset, the counters account for every call: each
\* counted evaluation was a hit, an error or a prediction, and the predictions
\* not counted yet are those of threads on their way.
StatsAddUp ==
    ~wasReset =>
        /\ stats["total"] <= evals
        /\ stats["total"] + Cardinality({t \in Threads : At(t, "total")}) =
              stats["hits"] + stats["errors"] + stats["predictions"]

\* The mutexes protect what they should: no call is counted twice or forgotten.
EvaluatorSound == MutexesHeld /\ StatsAddUp

\* A call of evaluate returns, unless two calls lock the mutexes in opposite
\* orders: that is the only way to hang.
EvaluateReturns == \A t \in Threads : ~At(t, "idle") ~> (At(t, "idle") \/ Crossed)
=============================================================================
