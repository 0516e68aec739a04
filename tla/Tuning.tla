------------------------------- MODULE Tuning -------------------------------
(* What makes programs faster: the optimizer's pipeline; the search of           *)
(* auto_scheduler/ for schedules, with its cache; and the evaluator with a       *)
(* learned model that threads share. Each runs by itself: programs are optimized *)
(* before anything runs, and an evaluator is handed to the search as a function, *)
(* which the search leaves open.                                                 *)
EXTENDS AutoScheduler, MLEvaluator, Optimizer

VARIABLE tuned

tuningVars == <<schedVars, mlVars, optVars, tuned>>

Other(vs) == UNCHANGED <<tuned, vs>>

\* A program stays as it is while schedules and evaluations are tuned.
Init ==
    /\ tuned \in {"schedules", "evaluations", "programs"}
    /\ SchedInit /\ MlInit
    /\ IF tuned = "programs" THEN OptInit ELSE NoProgram

Next ==
    \/ tuned = "schedules" /\ SchedNext /\ Other(<<mlVars, optVars>>)
    \/ tuned = "evaluations" /\ MlNext /\ Other(<<schedVars, optVars>>)
    \/ tuned = "programs" /\ Optimizing /\ Other(<<schedVars, mlVars>>)

\* The fairness of the parts that promise to return.
Fairness ==
    /\ WF_tuningVars(tuned = "schedules" /\ Searching /\ Other(<<mlVars, optVars>>))
    /\ \A t \in Threads :
          WF_tuningVars(tuned = "evaluations" /\ Evaluating(t) /\ Other(<<schedVars, optVars>>))

Spec == Init /\ [][Next]_tuningVars /\ Fairness

\* Every search returns and every evaluation does, unless the mutexes are locked in
\* opposite orders (AutoScheduler::schedule_op, MLEvaluator::evaluate).
TuningReturns == SearchReturns /\ EvaluateReturns
=============================================================================
