------------------------------ MODULE Debugger ------------------------------
(***************************************************************************)
(* The interactive debugger (debugger/claw_debugger.cpp and its CLI): the  *)
(* thread that reads commands, the thread that executes the program, and   *)
(* the state they share under pause_mutex_ and pause_cv_.  Code under the  *)
(* mutex that does not wait is one step; a wait is a place of its own.     *)
(*                                                                         *)
(* The program is a number of instructions that enter and leave functions  *)
(* and arrive at source locations; whether the condition of a breakpoint   *)
(* holds is chosen when it is evaluated.  Breakpoints are edited by the    *)
(* CLI, hence while the program is paused, ended or not begun.             *)
(***************************************************************************)
EXTENDS Breakpoints

CONSTANTS MaxDepth,   \* bound on the depth of calls
          MaxSteps,   \* bound on the instructions of one run
          MaxRuns     \* bound on the runs of a session

ASSUME DebuggerAssumption == MaxDepth \in Nat \ {0} /\ MaxSteps \in Nat /\ MaxRuns \in Nat

VARIABLES user,       \* where the command thread is
          exec,       \* where the execution thread is
          running,    \* state_.is_running
          paused,     \* state_.is_paused
          terminated, \* state_.is_terminated
          stop,       \* stop_requested_
          mode,       \* state_.step_mode
          startDepth, \* step_start_frame_depth_
          asked,      \* history: the command obeyed last, and the depth it was asked at
          due,        \* history: since then the program has come to where that ends
          depth,      \* vm_->runtime.frame_count
          failed,     \* the last instruction reported an error
          loc,        \* current_vm_location
          fuel,       \* instructions the program may still execute
          runs        \* runs begun

flags == <<running, paused, terminated, stop>>
stepping == <<mode, startDepth, asked, due>>
program == <<depth, failed, loc, fuel>>
session == <<user, exec, flags, stepping, program, runs>>
vars == <<tables, session>>

Modes == {"None", "Into", "Over", "Out", "Line"}
Nowhere == "nowhere"

\* What the user means by a step: into and line end at once, over in the function
\* it was asked in or a caller, out in a caller; continue ends nowhere.
Ends(a, d) == \/ a.mode \in {"Into", "Line"}
              \/ a.mode = "Over" /\ d <= a.depth
              \/ a.mode = "Out" /\ d < a.depth

NoRequest == [mode |-> "None", depth |-> 0]

Init == /\ TablesInit
        /\ user = "idle" /\ exec = "none" /\ runs = 0
        /\ running = FALSE /\ paused = FALSE /\ terminated = FALSE /\ stop = FALSE
        /\ mode = "None" /\ startDepth = 0 /\ asked = NoRequest /\ due = FALSE
        /\ depth = 0 /\ failed = FALSE /\ loc = Nowhere /\ fuel = 0

VmRunning == depth > 0 /\ ~failed

(***************************************************************************)
(* The command thread.  Every command that resumes the program waits for   *)
(* the next pause before the next command is read.                         *)
(***************************************************************************)
EditBreakpoints ==
    /\ user = "idle"
    /\ TablesNext
    /\ UNCHANGED session

\* continue and the steps: can_continue and can_step are read without the
\* lock; when they say no, the command waits all the same, also when nothing
\* has been run yet.
Command(m) ==
    /\ user = "idle"
    /\ \/ /\ paused /\ ~terminated
          /\ user' = "resume" /\ paused' = FALSE /\ mode' = m
          /\ startDepth' = IF m \in {"Into", "Over", "Out"} THEN depth ELSE startDepth
          /\ asked' = [mode |-> m, depth |-> depth] /\ due' = FALSE
       \/ /\ ~paused \/ terminated
          /\ user' = "wait"
          /\ UNCHANGED <<paused, stepping>>
    /\ UNCHANGED <<exec, running, terminated, stop, program, runs, tables>>

NotifyAll == exec' = IF exec = "asleep" THEN "woken" ELSE exec

\* pause_cv_.notify_all() at the end of the command
Resumed ==
    /\ user = "resume"
    /\ user' = "wait"
    /\ NotifyAll
    /\ UNCHANGED <<flags, stepping, program, runs, tables>>

\* wait_for_pause: asleep until its predicate holds.
WaitForPause ==
    /\ user = "wait"
    /\ user' = IF paused \/ terminated \/ stop THEN "idle" ELSE "asleep"
    /\ UNCHANGED <<exec, flags, stepping, program, runs, tables>>

\* run and quit begin with stop(), which joins the execution thread.
Stop(next) ==
    /\ user = "idle"
    /\ next = "start" => runs < MaxRuns
    /\ stop' = TRUE /\ running' = FALSE /\ paused' = FALSE
    /\ NotifyAll
    /\ user' = next
    /\ UNCHANGED <<terminated, stepping, program, runs, tables>>

ThreadEnded == exec \in {"none", "ended"}

\* The rest of stop() after the join: vm_->reset().
StopEnds == /\ ThreadEnded
            /\ exec' = "none"
            /\ terminated' = TRUE

Quit ==
    /\ user = "quit" /\ StopEnds
    /\ user' = "gone"
    /\ depth' = 0 /\ failed' = FALSE
    /\ UNCHANGED <<running, paused, stop, stepping, loc, fuel, runs, tables>>

\* Mutant: run leaves stop_requested_ set.
StartStopped ==
    /\ user = "start" /\ ThreadEnded
    /\ runs' = runs + 1 /\ user' = "wait"
    /\ running' = TRUE /\ paused' = FALSE /\ terminated' = FALSE
    /\ mode' = "None" /\ depth' = 1 /\ failed' = FALSE
    /\ exec' = "top" /\ fuel' \in 0..MaxSteps
    /\ asked' = NoRequest /\ due' = FALSE
    /\ UNCHANGED <<stop, startDepth, loc, tables>>

\* The rest of run: a fresh VM and a new thread; or a module that does not
\* load, which leaves stop_requested_ and the mode alone, or has no main.
Start ==
    /\ user = "start" /\ ThreadEnded
    /\ runs' = runs + 1
    /\ paused' = FALSE /\ failed' = FALSE
    /\ \/ /\ user' = "wait" /\ exec' = "top"
          /\ running' = TRUE /\ terminated' = FALSE /\ stop' = FALSE
          /\ mode' = "None" /\ depth' = 1 /\ fuel' \in 0..MaxSteps
       \/ /\ user' = "idle" /\ exec' = "none"
          /\ running' = FALSE /\ terminated' = TRUE
          /\ \/ UNCHANGED <<stop, mode>>
             \/ stop' = FALSE /\ mode' = "None"
          /\ depth' = 0 /\ fuel' = 0
    /\ asked' = IF mode' = "None" THEN NoRequest ELSE asked
    /\ due' = FALSE
    /\ UNCHANGED <<startDepth, loc, tables>>

(***************************************************************************)
(* The execution thread.                                                   *)
(***************************************************************************)

\* while (vm_->running && !stop_requested_)
Top ==
    /\ exec = "top"
    /\ exec' = IF VmRunning /\ ~stop THEN "gate" ELSE "end"
    /\ UNCHANGED <<user, flags, stepping, program, runs, tables>>

\* Mutant: the paused thread waits once and does not look again.
GateOnce ==
    /\ \/ exec = "gate" /\ exec' = IF paused /\ ~stop /\ ~terminated THEN "asleep" ELSE "execute"
       \/ exec = "woken" /\ exec' = IF stop \/ terminated THEN "end" ELSE "execute"
    /\ UNCHANGED <<user, flags, stepping, program, runs, tables>>

\* if (is_paused) wait until it is not; a thread that did not find itself
\* paused does not look at stop_requested_ here and executes once more.
Gate ==
    /\ exec \in {"gate", "woken"}
    /\ exec' = IF paused /\ ~stop /\ ~terminated THEN "asleep"
               ELSE IF (exec = "woken" \/ paused) /\ (stop \/ terminated) THEN "end"
               ELSE "execute"
    /\ UNCHANGED <<user, flags, stepping, program, runs, tables>>

\* One instruction; the last one the bound allows ends the program.
Execute(d, l) ==
    /\ exec = "execute"
    /\ fuel = 0 => d = 0
    /\ d \in {depth - 1, depth, depth + 1} \/ d = 0
    /\ depth' = d /\ loc' = l /\ fuel' = IF fuel = 0 THEN 0 ELSE fuel - 1
    /\ exec' = "breakpoint"
    /\ due' = (due \/ Ends(asked, d))
    /\ UNCHANGED <<user, flags, mode, startDepth, asked, failed, runs, tables>>

\* step() returns false: the program has failed or has no code left.
ExecuteFails ==
    /\ exec = "execute"
    /\ failed' = TRUE /\ exec' = "end"
    /\ UNCHANGED <<user, flags, stepping, depth, loc, fuel, runs, tables>>

WakeUser == user' = IF user = "asleep" THEN "wait" ELSE user

\* Mutant: the pause is recorded and nobody is told.
PauseSilently(m) == /\ paused' = TRUE /\ mode' = m
                    /\ exec' = "top"
                    /\ UNCHANGED <<user, running, terminated, stop, startDepth, asked, due, program,
                                runs, tables>>

PauseHere(m) == /\ paused' = TRUE /\ mode' = m
                /\ WakeUser
                /\ exec' = "top"
                /\ UNCHANGED <<running, terminated, stop, startDepth, asked, due, program,
                                runs, tables>>

\* The breakpoint at the location reached, and its condition.
BreakpointHere == LET id == FindBreakpointAt(loc) IN id > 0 /\ id \in DOMAIN breakpoints

HitBreakpoint == exec = "breakpoint" /\ BreakpointHere /\ PauseHere("None")

PassBreakpoint(holds) ==
    /\ exec = "breakpoint"
    /\ holds => ~BreakpointHere
    /\ exec' = "stepMode"
    /\ UNCHANGED <<user, flags, stepping, program, runs, tables>>

\* Mutant: stepping over pauses inside the function that is called.
StepEndsInside == \/ mode \in {"Into", "Line", "Over"}
                  \/ mode = "Out" /\ depth < startDepth

StepEnds == \/ mode \in {"Into", "Line"}
            \/ mode = "Over" /\ depth <= startDepth
            \/ mode = "Out" /\ depth < startDepth

StepCompletes == exec = "stepMode" /\ StepEnds /\ PauseHere(mode)

KeepGoing ==
    /\ exec = "stepMode" /\ ~StepEnds
    /\ exec' = "top"
    /\ UNCHANGED <<user, flags, stepping, program, runs, tables>>

\* Execution ended: say so once.
EndOfThread ==
    /\ exec = "end"
    /\ exec' = "ended"
    /\ terminated' = TRUE
    /\ running' = IF terminated THEN running ELSE FALSE
    /\ paused' = IF terminated THEN paused ELSE FALSE
    /\ WakeUser
    /\ UNCHANGED <<stop, stepping, program, runs, tables>>

-----------------------------------------------------------------------------
UserStep == \/ Resumed \/ WaitForPause \/ Quit \/ Start

ExecStep == \/ Top \/ Gate
            \/ \E d \in 0..MaxDepth, l \in Locs \union {Nowhere} : Execute(d, l)
            \/ ExecuteFails \/ HitBreakpoint
            \/ \E holds \in BOOLEAN : PassBreakpoint(holds)
            \/ StepCompletes \/ KeepGoing \/ EndOfThread

Next == \/ EditBreakpoints
        \/ \E m \in Modes : Command(m)
        \/ \E next \in {"start", "quit"} : Stop(next)
        \/ UserStep \/ ExecStep

\* Both threads run on; what the user types next is the user's business.
Spec == /\ Init /\ [][Next]_vars
        /\ WF_vars(UserStep) /\ WF_vars(ExecStep)

-----------------------------------------------------------------------------
\* A paused program stands still: from the moment the debugger says it is
\* paused until a command resumes it no instruction is executed.
PausedStandsStill == paused => exec \notin {"execute", "breakpoint", "stepMode"}

\* A step ends where the user meant it to, however the program was stopped and
\* resumed in between: unless stop() is under way no instruction is executed once
\* the program has come to where the step ends, and a program that is paused in
\* a stepping mode, not at a breakpoint, has come there (execution_loop).
StepsEndInTime == /\ exec = "execute" /\ ~stop => ~due
                  /\ paused /\ mode # "None" => due

\* run and quit get their thread joined, and a command that waits for a pause
\* comes back: the program pauses, or ends.  A resuming command that is typed
\* before the first run is excepted: nothing wakes wait_for_pause then.
CommandsReturn ==
    user # "idle" /\ (runs > 0 \/ user \in {"start", "quit"}) ~> user \in {"idle", "gone"}
=============================================================================
