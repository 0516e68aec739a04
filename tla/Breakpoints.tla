---------------------------- MODULE Breakpoints ----------------------------
(***************************************************************************)
(* The breakpoint tables of debugger/claw_debugger.cpp: breakpoints_ by    *)
(* id, and the indexes of line and of function breakpoints into it.        *)
(* set_function_breakpoint and set_watchpoint take the next id without     *)
(* using it up, so their entry may be overwritten by the next one.         *)
(***************************************************************************)
EXTENDS Integers, Functions

CONSTANTS Locs,   \* source locations
          Funs,   \* function names
          MaxId   \* bound on the ids given out

ASSUME MaxIdAssumption == MaxId \in Nat \ {0}

VARIABLES breakpoints,  \* id |-> the breakpoint, where there is one
          lineIndex,    \* location_to_breakpoint_
          funIndex,     \* function_breakpoints_
          nextId        \* next_breakpoint_id_

tables == <<breakpoints, lineIndex, funIndex, nextId>>

Ids == 1..MaxId
NoId == -1

Line(l) == [type |-> "line", at |-> l]
Function(f) == [type |-> "function", at |-> f]
Watch == [type |-> "watch", at |-> "none"]

\* map[k] = v of std::map
Put(map, k, v) == [x \in DOMAIN map \union {k} |-> IF x = k THEN v ELSE map[x]]
Erase(map, k) == Restrict(map, DOMAIN map \ {k})

TablesInit == /\ breakpoints = <<>> /\ lineIndex = <<>> /\ funIndex = <<>>
              /\ nextId = 1

FindBreakpointAt(l) == IF l \in DOMAIN lineIndex THEN lineIndex[l] ELSE NoId

\* Mutant: a location that has a breakpoint gets another.
SetBreakpointAgain(l) ==
    /\ nextId \in Ids
    /\ breakpoints' = Put(breakpoints, nextId, Line(l))
    /\ lineIndex' = Put(lineIndex, l, nextId)
    /\ nextId' = nextId + 1
    /\ UNCHANGED funIndex

\* set_breakpoint; a location that has one is refused.
SetBreakpoint(l) ==
    /\ FindBreakpointAt(l) <= 0
    /\ nextId \in Ids
    /\ breakpoints' = Put(breakpoints, nextId, Line(l))
    /\ lineIndex' = Put(lineIndex, l, nextId)
    /\ nextId' = nextId + 1
    /\ UNCHANGED funIndex

SetFunctionBreakpoint(f) ==
    /\ nextId \in Ids
    /\ breakpoints' = Put(breakpoints, nextId, Function(f))
    /\ funIndex' = Put(funIndex, f, nextId)
    /\ UNCHANGED <<lineIndex, nextId>>

SetWatchpoint ==
    /\ nextId \in Ids
    /\ breakpoints' = Put(breakpoints, nextId, Watch)
    /\ UNCHANGED <<lineIndex, funIndex, nextId>>

\* remove_breakpoint and the index of its type
RemoveBreakpoint(id) ==
    /\ id \in DOMAIN breakpoints
    /\ LET bp == breakpoints[id]
       IN /\ lineIndex' = IF bp.type = "line" THEN Erase(lineIndex, bp.at) ELSE lineIndex
          /\ funIndex' = IF bp.type = "function" THEN Erase(funIndex, bp.at) ELSE funIndex
    /\ breakpoints' = Erase(breakpoints, id)
    /\ UNCHANGED nextId

ClearAllBreakpoints ==
    /\ breakpoints # <<>>
    /\ breakpoints' = <<>> /\ lineIndex' = <<>> /\ funIndex' = <<>> /\ nextId' = 1

TablesNext == \/ \E l \in Locs : SetBreakpoint(l)
              \/ \E f \in Funs : SetFunctionBreakpoint(f)
              \/ SetWatchpoint \/ ClearAllBreakpoints
              \/ \E id \in Ids : RemoveBreakpoint(id)

-----------------------------------------------------------------------------
\* The index of locations is exact: it leads from every line breakpoint's
\* location to that breakpoint and from no other location anywhere, although
\* ids are shared with function breakpoints and watchpoints and reused.
LinesIndexed ==
    /\ \A l \in DOMAIN lineIndex :
         /\ lineIndex[l] \in DOMAIN breakpoints
         /\ breakpoints[lineIndex[l]] = Line(l)
    /\ \A id \in DOMAIN breakpoints :
         breakpoints[id].type = "line" =>
             /\ breakpoints[id].at \in DOMAIN lineIndex
             /\ lineIndex[breakpoints[id].at] = id
=============================================================================
