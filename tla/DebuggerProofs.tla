--------------------------- MODULE DebuggerProofs ---------------------------
(***************************************************************************)
(* What the breakpoint tables and the two threads of the debugger keep,    *)
(* for any locations, functions and bounds.                                *)
(***************************************************************************)
EXTENDS Debugger, TLAPS

\* The ids of line breakpoints are used up: an entry that is overwritten
\* under the id given out next is never a line breakpoint's.
LineIdsUsedUp ==
    /\ nextId \in Nat \ {0}
    /\ DOMAIN breakpoints \subseteq Nat \ {0}
    /\ \A id \in DOMAIN breakpoints : breakpoints[id].type = "line" => id < nextId

TablesInv == LinesIndexed /\ LineIdsUsedUp

\* The three kinds of breakpoints differ in their type.
LEMMA Kinds ==
    /\ \A l : Line(l).type = "line" /\ Line(l).at = l
    /\ \A f : Function(f).type = "function" /\ Function(f).at = f
    /\ Watch.type = "watch"
  BY DEF Line, Function, Watch

\* set_breakpoint keeps the index of locations exact.
LEMMA SetBreakpointKeeps ==
    ASSUME TablesInv, NEW l, SetBreakpoint(l)
    PROVE  TablesInv'
  <1>1. l \notin DOMAIN lineIndex
    BY DEF TablesInv, LinesIndexed, LineIdsUsedUp, SetBreakpoint, FindBreakpointAt
  <1>2. breakpoints' = Put(breakpoints, nextId, Line(l)) /\ lineIndex' = Put(lineIndex, l, nextId)
        /\ nextId' = nextId + 1
    BY DEF SetBreakpoint
  <1>3. LineIdsUsedUp'
    BY <1>2 DEF TablesInv, LineIdsUsedUp, Put
  <1>4. ASSUME NEW k \in DOMAIN lineIndex'
        PROVE  lineIndex'[k] \in DOMAIN breakpoints' /\ breakpoints'[lineIndex'[k]] = Line(k)
    <2>1. CASE k = l
      BY <1>2, <2>1 DEF Put
    <2>2. CASE k # l
      <3>1. k \in DOMAIN lineIndex /\ lineIndex'[k] = lineIndex[k]
        BY <1>2, <1>4, <2>2 DEF Put
      <3>2. lineIndex[k] \in DOMAIN breakpoints /\ breakpoints[lineIndex[k]] = Line(k)
        BY <3>1 DEF TablesInv, LinesIndexed
      <3>3. lineIndex[k] # nextId
        BY <3>2, Kinds DEF TablesInv, LineIdsUsedUp
      <3> QED BY <1>2, <3>1, <3>2, <3>3 DEF Put
    <2> QED BY <2>1, <2>2
  <1>5. ASSUME NEW id \in DOMAIN breakpoints', breakpoints'[id].type = "line"
        PROVE  breakpoints'[id].at \in DOMAIN lineIndex' /\ lineIndex'[breakpoints'[id].at] = id
    <2>1. CASE id = nextId
      BY <1>2, <2>1, Kinds DEF Put
    <2>2. CASE id # nextId
      <3>1. id \in DOMAIN breakpoints /\ breakpoints'[id] = breakpoints[id]
        BY <1>2, <1>5, <2>2 DEF Put
      <3>2. breakpoints[id].at \in DOMAIN lineIndex /\ lineIndex[breakpoints[id].at] = id
        BY <1>5, <3>1 DEF TablesInv, LinesIndexed
      <3> QED BY <1>1, <1>2, <3>1, <3>2 DEF Put
    <2> QED BY <2>1, <2>2
  <1> QED BY <1>3, <1>4, <1>5 DEF TablesInv, LinesIndexed

\* A function breakpoint or a watchpoint overwrites no line breakpoint.
LEMMA SetOtherKeeps ==
    ASSUME TablesInv, NEW bp, bp.type # "line",
           breakpoints' = Put(breakpoints, nextId, bp),
           UNCHANGED <<lineIndex, nextId>>
    PROVE  TablesInv'
  <1>1. LineIdsUsedUp'
    BY DEF TablesInv, LineIdsUsedUp, Put
  <1>2. ASSUME NEW k \in DOMAIN lineIndex'
        PROVE  lineIndex'[k] \in DOMAIN breakpoints' /\ breakpoints'[lineIndex'[k]] = Line(k)
    <2>1. lineIndex[k] \in DOMAIN breakpoints /\ breakpoints[lineIndex[k]] = Line(k)
      BY <1>2 DEF TablesInv, LinesIndexed
    <2>2. lineIndex[k] # nextId
      BY <2>1, Kinds DEF TablesInv, LineIdsUsedUp
    <2> QED BY <2>1, <2>2 DEF Put
  <1>3. ASSUME NEW id \in DOMAIN breakpoints', breakpoints'[id].type = "line"
        PROVE  breakpoints'[id].at \in DOMAIN lineIndex' /\ lineIndex'[breakpoints'[id].at] = id
    <2>1. id # nextId
      BY <1>3 DEF Put
    <2>2. id \in DOMAIN breakpoints /\ breakpoints'[id] = breakpoints[id]
      BY <1>3, <2>1 DEF Put
    <2> QED BY <1>3, <2>2 DEF TablesInv, LinesIndexed
  <1> QED BY <1>1, <1>2, <1>3 DEF TablesInv, LinesIndexed

\* remove_breakpoint takes a line breakpoint out of both tables.
LEMMA RemoveBreakpointKeeps ==
    ASSUME TablesInv, NEW id, RemoveBreakpoint(id)
    PROVE  TablesInv'
  <1>1. id \in DOMAIN breakpoints /\ breakpoints' = Erase(breakpoints, id) /\ nextId' = nextId
        /\ lineIndex' = IF breakpoints[id].type = "line"
                        THEN Erase(lineIndex, breakpoints[id].at) ELSE lineIndex
    BY DEF RemoveBreakpoint
  <1>2. LineIdsUsedUp'
    BY <1>1 DEF TablesInv, LineIdsUsedUp, Erase, Restrict
  <1>3. ASSUME NEW k \in DOMAIN lineIndex'
        PROVE  lineIndex'[k] \in DOMAIN breakpoints' /\ breakpoints'[lineIndex'[k]] = Line(k)
    <2>1. k \in DOMAIN lineIndex /\ lineIndex'[k] = lineIndex[k]
          /\ (breakpoints[id].type = "line" => k # breakpoints[id].at)
      BY <1>1, <1>3 DEF Erase, Restrict
    <2>2. lineIndex[k] \in DOMAIN breakpoints /\ breakpoints[lineIndex[k]] = Line(k)
      BY <2>1 DEF TablesInv, LinesIndexed
    <2>3. lineIndex[k] # id
      BY <2>1, <2>2, Kinds
    <2> QED BY <1>1, <2>1, <2>2, <2>3 DEF Erase, Restrict
  <1>4. ASSUME NEW i \in DOMAIN breakpoints', breakpoints'[i].type = "line"
        PROVE  breakpoints'[i].at \in DOMAIN lineIndex' /\ lineIndex'[breakpoints'[i].at] = i
    <2>1. i \in DOMAIN breakpoints /\ i # id /\ breakpoints'[i] = breakpoints[i]
      BY <1>1, <1>4 DEF Erase, Restrict
    <2>2. breakpoints[i].at \in DOMAIN lineIndex /\ lineIndex[breakpoints[i].at] = i
      BY <1>4, <2>1 DEF TablesInv, LinesIndexed
    <2>3. breakpoints[id].type = "line" => lineIndex[breakpoints[id].at] = id
      BY <1>1 DEF TablesInv, LinesIndexed
    <2> QED BY <1>1, <2>1, <2>2, <2>3 DEF Erase, Restrict
  <1> QED BY <1>2, <1>3, <1>4 DEF TablesInv, LinesIndexed

\* Every command that edits breakpoints keeps the index exact.
LEMMA TablesNextKeeps == TablesInv /\ TablesNext => TablesInv'
  <1> SUFFICES ASSUME TablesInv, TablesNext PROVE TablesInv'
    OBVIOUS
  <1>1. ASSUME NEW l \in Locs, SetBreakpoint(l) PROVE TablesInv'
    BY <1>1, SetBreakpointKeeps
  <1>2. ASSUME NEW f \in Funs, SetFunctionBreakpoint(f) PROVE TablesInv'
    BY <1>2, SetOtherKeeps, Kinds DEF SetFunctionBreakpoint
  <1>3. CASE SetWatchpoint
    BY <1>3, SetOtherKeeps, Kinds DEF SetWatchpoint
  <1>4. CASE ClearAllBreakpoints
    BY <1>4 DEF ClearAllBreakpoints, TablesInv, LinesIndexed, LineIdsUsedUp
  <1>5. ASSUME NEW id \in Ids, RemoveBreakpoint(id) PROVE TablesInv'
    BY <1>5, RemoveBreakpointKeeps
  <1> QED BY <1>1, <1>2, <1>3, <1>4, <1>5 DEF TablesNext

-----------------------------------------------------------------------------
\* In any session the location of every line breakpoint leads to that
\* breakpoint, and no location leads anywhere else.
THEOREM BreakpointsFound == Spec => []LinesIndexed
  <1>1. Init => TablesInv
    BY DEF Init, TablesInit, TablesInv, LinesIndexed, LineIdsUsedUp
  <1>2. TablesInv /\ [Next]_vars => TablesInv'
    <2> SUFFICES ASSUME TablesInv, [Next]_vars PROVE TablesInv'
      OBVIOUS
    <2>1. CASE UNCHANGED tables
      BY <2>1 DEF tables, TablesInv, LinesIndexed, LineIdsUsedUp
    <2>2. CASE EditBreakpoints
      BY <2>2, TablesNextKeeps DEF EditBreakpoints
    <2>3. [Next]_vars => EditBreakpoints \/ UNCHANGED tables
      BY DEF Next, UserStep, ExecStep, Command, Stop, Resumed, WaitForPause, Quit, Start,
             Top, Gate, Execute, ExecuteFails, HitBreakpoint, PassBreakpoint, StepCompletes,
             PauseHere, KeepGoing, EndOfThread, vars
    <2> QED BY <2>1, <2>2, <2>3
  <1>3. TablesInv => LinesIndexed
    BY DEF TablesInv
  <1> QED BY <1>1, <1>2, <1>3, PTL DEF Spec

\* No instruction is executed between the moment the program is said to be
\* paused and the command that resumes it.
THEOREM PauseHolds == Spec => []PausedStandsStill
  <1>1. Init => PausedStandsStill
    BY DEF Init, PausedStandsStill
  <1>2. PausedStandsStill /\ [Next]_vars => PausedStandsStill'
    <2> SUFFICES ASSUME PausedStandsStill, [Next]_vars PROVE PausedStandsStill'
      OBVIOUS
    <2> USE DEF PausedStandsStill
    <2>1. CASE EditBreakpoints \/ UNCHANGED vars
      BY <2>1 DEF EditBreakpoints, vars, session, flags
    <2>2. ASSUME NEW m \in Modes, Command(m) PROVE PausedStandsStill'
      BY <2>2 DEF Command
    <2>3. ASSUME NEW next \in {"start", "quit"}, Stop(next) PROVE PausedStandsStill'
      BY <2>3 DEF Stop
    <2>4. CASE UserStep
      BY <2>4 DEF UserStep, Resumed, NotifyAll, WaitForPause, Quit, StopEnds, ThreadEnded,
                  Start, flags
    <2>5. CASE Top \/ Gate
      BY <2>5 DEF Top, Gate, flags
    <2>6. ASSUME NEW d \in 0..MaxDepth, NEW l \in Locs \union {Nowhere}, Execute(d, l)
          PROVE  PausedStandsStill'
      BY <2>6 DEF Execute, flags
    <2>7. CASE ExecuteFails \/ KeepGoing \/ EndOfThread
      BY <2>7 DEF ExecuteFails, KeepGoing, EndOfThread, flags
    <2>8. CASE HitBreakpoint \/ StepCompletes
      BY <2>8 DEF HitBreakpoint, StepCompletes, PauseHere
    <2>9. ASSUME NEW holds \in BOOLEAN, PassBreakpoint(holds) PROVE PausedStandsStill'
      BY <2>9 DEF PassBreakpoint, flags
    <2> QED BY <2>1, <2>2, <2>3, <2>4, <2>5, <2>6, <2>7, <2>8, <2>9 DEF Next, ExecStep
  <1> QED BY <1>1, <1>2, PTL DEF Spec

-----------------------------------------------------------------------------
\* Where the execution thread is between two instructions, and after one.
Between == {"top", "gate", "asleep", "woken", "execute"}
After == {"breakpoint", "stepMode"}

\* The debugger's own record of the step, step_mode and step_start_frame_depth_,
\* says what was asked while the thread goes on; a breakpoint clears the mode.
StepRecorded ==
    /\ mode \in {"None", asked.mode}
    /\ mode \in {"Over", "Out"} => startDepth = asked.depth
    /\ ~stop /\ ~paused /\ exec \in Between \union After => mode = asked.mode

\* What was asked has not come to its end before an instruction, and after one
\* it has if the depth reached says so.
DueInTime ==
    /\ ~stop /\ ~paused /\ exec \in Between => ~due
    /\ exec \in After => (Ends(asked, depth) => due)
    /\ ~stop /\ exec \in After => (due => Ends(asked, depth))
    /\ paused /\ mode # "None" => due

StepInv == /\ PausedStandsStill
           /\ user \in {"start", "quit"} => stop
           /\ StepRecorded
           /\ DueInTime

\* What the debugger takes for the end of a step is what was asked.
LEMMA StepEndsAsAsked ==
    ASSUME StepRecorded, ~stop, ~paused, exec \in After
    PROVE  StepEnds <=> Ends(asked, depth)
  BY DEF StepRecorded, StepEnds, Ends

\* A command that resumes the program records what it asks.
LEMMA CommandSteps ==
    ASSUME StepInv, NEW m \in Modes, Command(m)
    PROVE  StepInv'
  <1>1. CASE UNCHANGED <<paused, stepping>>
    BY <1>1 DEF Command, StepInv, PausedStandsStill, StepRecorded, DueInTime, stepping,
                program, Ends
  <1>2. CASE ~UNCHANGED <<paused, stepping>>
    <2>1. /\ paused /\ user' = "resume" /\ ~paused' /\ mode' = m /\ ~due' /\ exec' = exec
          /\ stop' = stop /\ asked' = [mode |-> m, depth |-> depth]
          /\ m \in {"Into", "Over", "Out"} => startDepth' = depth
      BY <1>2 DEF Command
    <2>2. exec \notin After /\ asked'.mode = m /\ asked'.depth = depth
      BY <2>1 DEF StepInv, PausedStandsStill, After
    <2> QED BY <2>1, <2>2 DEF StepInv, PausedStandsStill, StepRecorded, DueInTime
  <1> QED BY <1>1, <1>2

\* run begins with nothing asked, and leaves what it does not reset alone.
LEMMA StartSteps ==
    ASSUME StepInv, Start
    PROVE  StepInv'
  <1>1. /\ user' \notin {"start", "quit"} /\ ~paused' /\ ~due' /\ exec' \in {"top", "none"}
        /\ \/ mode' = "None" /\ asked' = NoRequest
           \/ exec' = "none" /\ mode' = mode /\ asked' = asked /\ startDepth' = startDepth
           \/ exec' = "none" /\ mode' = "None" /\ asked' = NoRequest
    BY DEF Start
  <1>2. NoRequest.mode = "None"
    BY DEF NoRequest
  <1>3. exec' \notin After /\ (exec' = "none" => exec' \notin Between)
    BY <1>1 DEF After, Between
  <1> QED BY <1>1, <1>2, <1>3 DEF StepInv, PausedStandsStill, StepRecorded, DueInTime

\* One instruction: it is noticed when what was asked is over.
LEMMA ExecuteSteps ==
    ASSUME StepInv, NEW d, NEW l, Execute(d, l)
    PROVE  StepInv'
  <1>1. /\ exec = "execute" /\ exec' = "breakpoint" /\ depth' = d
        /\ due' = (due \/ Ends(asked, d))
        /\ UNCHANGED <<user, paused, stop, mode, startDepth, asked>>
    BY DEF Execute, flags
  <1>2. exec \in Between /\ exec' \in After /\ exec' \notin Between /\ ~paused
    BY <1>1 DEF Between, After, StepInv, PausedStandsStill
  <1>3. PausedStandsStill' /\ (user' \in {"start", "quit"} => stop')
    BY <1>1, <1>2 DEF StepInv, PausedStandsStill
  <1>4. StepRecorded'
    BY <1>1, <1>2 DEF StepInv, StepRecorded
  <1>5. Ends(asked', depth') <=> Ends(asked, d)
    BY <1>1
  <1>6. DueInTime'
    BY <1>1, <1>2, <1>5 DEF StepInv, DueInTime
  <1> QED BY <1>3, <1>4, <1>6 DEF StepInv

\* A step that leaves the step, the depth and the flags alone, and takes the
\* execution thread no further than between two instructions or out of the loop.
LEMMA MovesOn ==
    ASSUME StepInv, UNCHANGED <<stepping, paused, stop, depth>>,
           user' \in {"start", "quit"} => user \in {"start", "quit"},
           exec' = exec \/ (exec \in Between /\ exec' \in Between \union {"end"})
             \/ exec' = "end",
           exec' = "execute" => ~paused \/ exec = "execute"
    PROVE  StepInv'
  <1>1. Ends(asked', depth') <=> Ends(asked, depth)
    BY DEF stepping
  <1>2. PausedStandsStill' /\ (user' \in {"start", "quit"} => stop')
    BY DEF StepInv, PausedStandsStill, Between
  <1>3. StepRecorded'
    BY DEF StepInv, StepRecorded, stepping, Between, After
  <1>4. DueInTime'
    BY <1>1 DEF StepInv, DueInTime, stepping, Between, After
  <1> QED BY <1>2, <1>3, <1>4 DEF StepInv

\* The part of the loop after an instruction: a breakpoint, the end of the step,
\* or on to the next instruction.
LEMMA LoopEndSteps ==
    ASSUME StepInv,
           \/ HitBreakpoint \/ StepCompletes \/ KeepGoing
           \/ \E holds \in BOOLEAN : PassBreakpoint(holds)
    PROVE  StepInv'
  <1>1. exec \in After /\ ~paused
    BY DEF HitBreakpoint, StepCompletes, KeepGoing, PassBreakpoint, After, StepInv,
           PausedStandsStill
  <1>2. CASE HitBreakpoint
    BY <1>1, <1>2 DEF HitBreakpoint, PauseHere, WakeUser, StepInv, PausedStandsStill,
                      StepRecorded, DueInTime, program, After
  <1>3. CASE StepCompletes
    <2>1. StepEnds /\ paused' /\ exec' = "top"
          /\ UNCHANGED <<mode, startDepth, asked, due, stop, depth>>
          /\ (user' \in {"start", "quit"} => user \in {"start", "quit"})
      BY <1>3 DEF StepCompletes, PauseHere, WakeUser, program
    <2>2. mode # "None" => Ends(asked, depth)
      BY <2>1 DEF StepEnds, Ends, StepInv, StepRecorded
    <2>3. mode # "None" => due
      BY <1>1, <2>2 DEF StepInv, DueInTime
    <2> QED BY <2>1, <2>3 DEF StepInv, PausedStandsStill, StepRecorded, DueInTime, After
  <1>4. CASE KeepGoing
    <2>1. ~StepEnds /\ exec' = "top" /\ UNCHANGED <<mode, startDepth, asked, due, stop, depth>>
          /\ UNCHANGED <<user, paused>>
      BY <1>4 DEF KeepGoing, flags, stepping, program
    <2>2. ~stop => ~due
      BY <1>1, <2>1, StepEndsAsAsked DEF StepInv, DueInTime
    <2> QED BY <1>1, <2>1, <2>2 DEF StepInv, PausedStandsStill, StepRecorded, DueInTime,
                                    Between, After
  <1>5. CASE \E holds \in BOOLEAN : PassBreakpoint(holds)
    <2>1. exec' = "stepMode" /\ UNCHANGED <<mode, startDepth, asked, due, stop, depth>>
          /\ UNCHANGED <<user, paused>>
      BY <1>5 DEF PassBreakpoint, flags, stepping, program
    <2>2. exec' \in After /\ exec' \notin Between
      BY <2>1 DEF After, Between
    <2>3. Ends(asked', depth') <=> Ends(asked, depth)
      BY <2>1
    <2> QED BY <1>1, <2>1, <2>2, <2>3 DEF StepInv, PausedStandsStill, StepRecorded, DueInTime
  <1> QED BY <1>2, <1>3, <1>4, <1>5

\* Through breakpoints, stops and restarts a step is over exactly where the user
\* meant it to be (step_into, step_over, step_out, execution_loop).
THEOREM StepsInTime == Spec => []StepsEndInTime
  <1>1. Init => StepInv
    BY DEF Init, NoRequest, StepInv, PausedStandsStill, StepRecorded, DueInTime, Between, After
  <1>2. StepInv /\ [Next]_vars => StepInv'
    <2> SUFFICES ASSUME StepInv, [Next]_vars PROVE StepInv'
      OBVIOUS
    <2>1. CASE EditBreakpoints \/ UNCHANGED vars
      BY <2>1, MovesOn DEF EditBreakpoints, vars, session, flags, program
    <2>2. ASSUME NEW m \in Modes, Command(m) PROVE StepInv'
      BY <2>2, CommandSteps
    <2>3. ASSUME NEW next \in {"start", "quit"}, Stop(next) PROVE StepInv'
      <3>1. stop' /\ ~paused' /\ UNCHANGED <<stepping, depth>> /\ exec' \in {exec, "woken"}
            /\ (exec' = exec \/ exec = "asleep")
        BY <2>3 DEF Stop, NotifyAll, program
      <3>2. Ends(asked', depth') <=> Ends(asked, depth)
        BY <3>1 DEF stepping
      <3>3. exec' \in After => exec \in After
        BY <3>1 DEF After
      <3> QED BY <3>1, <3>2, <3>3 DEF stepping, StepInv, PausedStandsStill, StepRecorded,
                                      DueInTime
    <2>4. CASE Resumed \/ WaitForPause
      BY <2>4, MovesOn DEF Resumed, WaitForPause, NotifyAll, flags, program, Between
    <2>5. CASE Quit
      BY <2>5 DEF Quit, StopEnds, stepping, StepInv, PausedStandsStill, StepRecorded, DueInTime,
                  Between, After
    <2>6. CASE Start
      BY <2>6, StartSteps
    <2>7. CASE Top \/ Gate \/ ExecuteFails
      BY <2>7, MovesOn DEF Top, Gate, ExecuteFails, flags, program, Between
    <2>8. ASSUME NEW d \in 0..MaxDepth, NEW l \in Locs \union {Nowhere}, Execute(d, l)
          PROVE  StepInv'
      BY <2>8, ExecuteSteps
    <2>9. CASE \/ HitBreakpoint \/ StepCompletes \/ KeepGoing
               \/ \E holds \in BOOLEAN : PassBreakpoint(holds)
      BY <2>9, LoopEndSteps
    <2>10. CASE EndOfThread
      <3>1. exec' = "ended" /\ UNCHANGED <<stepping, stop>> /\ (paused' => paused)
            /\ (user' \in {"start", "quit"} => user \in {"start", "quit"})
        BY <2>10 DEF EndOfThread, WakeUser
      <3> QED BY <3>1 DEF stepping, StepInv, PausedStandsStill, StepRecorded, DueInTime,
                          Between, After
    <2> QED BY <2>1, <2>2, <2>3, <2>4, <2>5, <2>6, <2>7, <2>8, <2>9, <2>10
            DEF Next, UserStep, ExecStep
  <1>3. StepInv => StepsEndInTime
    BY DEF StepInv, PausedStandsStill, DueInTime, StepsEndInTime, Between
  <1> QED BY <1>1, <1>2, <1>3, PTL DEF Spec
=============================================================================
