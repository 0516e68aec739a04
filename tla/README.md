# Claw in TLA+

Claw is a compiler and virtual machine for a small language with async
functions, events, commands and WebTransport connections, with the tools around
it. This directory holds TLA+ modules of the parts of it where order matters or
an algorithm is easy to get wrong, the TLC configurations that check them on
small instances, and proofs of their central invariants that TLAPS checks for
all values of the constants. Paths below are relative to the
repository's `src/`.

    tlc -config Coroutines.cfg Coroutines.tla      # one of the runs
    tlapm CoroutinesProofs.tla                     # one of the proofs

`PROJECT.json` lists the runs with their properties, a mutant for each property,
the source lines behind every definition (`map`), the hazards and the theorems.

1. [The system](#1-the-system)
2. [The modules](#2-the-modules)
3. [What the runs check, and their bounds](#3-what-the-runs-check)
4. [Fairness](#4-fairness)
5. [What is proved](#5-what-is-proved)
6. [Where the code and its texts disagree](#6-where-the-code-and-its-texts-disagree)
7. [What is not modelled](#7-what-is-not-modelled)
8. [Plan](#8-plan)

## 1. The system

A source file goes through lexer, parser and type checker, and the tree is then
either interpreted (`--run`), or compiled to bytecode and run by the VM
(`--mode=bytecode`), or handed to one of the native, JIT, WebAssembly or tensor
back ends. Around that: a debugger, a REPL, a language server, a package
manager, caches on disk and in memory, and an automatic scheduler for tensor
programs that evaluates candidate schedules on several threads.

| Component | State it keeps | Operations | Talks to | What is hard | What makes it correct |
|---|---|---|---|---|---|
| `vm/` coroutines | call frames, `ready_coroutines`, per future `waiting_coroutines`, `is_resolved` | ASYNC_CALL, CALL, CO_AWAIT, FUTURE_RESOLVE, RET, `resume_coroutine` | event loop, callbacks | lost or repeated continuations; errors inside a coroutine | each activation continues exactly once, with the value it waited for |
| `main.cpp` `run_bytecode` | `pending_futures`, `event_ready` | the event loop, `on_future_resolved` | VM, msquic threads | data races on queue, counter and futures | never leaves with work outstanding, and does leave |
| `bytecode/bytecode_executor` | event and command channels, `pending_commands`, handler lists | publish, subscribe, register, send; command drain, event rounds, bridges | VM (handlers run as closures) | handlers publish and send while they are being run | everything is delivered once and in order, every request answered once |
| `vm/webtransport_backend` | `incoming_queue`, `pending_connections`, `closed` and shutdown flags, maps from msquic handles | listen, accept, connect, recv, send, close; msquic callbacks | VM, network | condition variable against callbacks; flags outside the mutex | no message lost or repeated, no sleep on data |
| `debugger/` | breakpoint tables, `is_running/paused/terminated`, step mode | run, continue, step, stop, breakpoints | its own execution thread, CLI | two threads, one condition variable, join | paused means paused; every command comes back |
| `bytecode/bytecode_compiler` | code, scopes, loop and handler contexts | one per statement and expression | VM | jump patching, slots, implicit returns | compiled program prints what the interpreter prints |
| `interpreter/` | variable stack, control flags | evaluation of each statement | – | flags that must stop a block | reference semantics |
| `vm/` sequential | stack and `stack_top`, frames, ip, globals, handlers | one per instruction | – | frame discipline through returns and exceptions | no temporary overwrites a local |
| `vm/` channels, streams, pools | bounded queues, free lists | send, recv, close, next; acquire, release | VM | full and empty channels, ends of streams | FIFO, nothing lost at the limit |
| `lexer/`, `parser/`, `frontend/` | token position, error list | recursive descent, recovery | – | precedence; recovery must make progress | the tree the grammar defines |
| `type/`, `semantic/` | substitutions, scopes, effects of functions | unify, infer, exhaustiveness, noraise | – | unification order, occurs check | sound inference, exhaustive matches |
| `optimizer/`, its pipeline in `main.cpp` | the tree, candidates for inlining, `any_change` | nine passes, iterated; one over the bytecode | both execution modes | a pass sees what another left; when to stop | what a program prints is preserved |
| `ir/`, `bridge/` | – (transformations) | passes | compiler, VM | jump targets after deletion | the same |
| `emitter/`, `codegen/`, `native_codegen/`, `backend/` | live intervals, free registers; machine stack, jump buffers of the generated code | encode, allocate, write C | – | register pressure, spills; alignment, order of operands | no two live values share a register; the generated program prints what the interpreter prints |
| `jit/`, `pipeline/` | code cache, hot counters, tiers, inline caches, deopt points | compile, promote, deoptimise, evict | VM | counters at thresholds, eviction of code in use | cache within its limit; deopt resumes where it left |
| `auto_scheduler/` | schedule cache, evaluation cache, statistics, worker threads | find, insert, warmup, evaluate | – | lock order, check-then-insert | best entry is a measured one; no deadlock |
| `common/` | files of compiled modules, parse cache | `has_cache`, load, save | other compiler processes | files seen half-written | what is loaded is what was compiled |
| `package/`, `module/` | dependency graph, lock file | resolve, backtrack | – | undoing a choice | a resolution satisfies every constraint |
| `lsp/` | documents, symbol tables | open, change, save, close, queries | editor | a text that cannot be read, an empty one, a lock taken twice | answers are about the text the editor has |
| `ast/`, `runtime/`, `stdlib/`, `json/`, `ml/`, `tensor/`, `tensorir/`, `repl/`, `benchmark/`, `tools/` | data types, values, measurements | – | – | – | conversions and I/O without a protocol |

The hazards are listed in `PROJECT.json`, each at the line where it bites, with
the properties that watch it. Under `components` each part is said to be
modelled, modelled partly or not modelled, with the reason.

How the parts that are modelled interact: the VM thread executes bytecode; async
functions live in the VM's coroutine queue; `execute_in_vm` drains that queue
when `main` has returned and then runs the command and event loops, in a fixed
order, once. `main.cpp` has a loop of its own instead, because connect futures
are resolved from msquic's worker threads. The debugger replaces the
dispatch loop by a stepping thread. The parts around the virtual machine (caches,
parser, JIT engine, register allocation, channels, packages, schedules, language server) hand
results to each other and share no state.

## 2. The modules

```
SeqFacts ── Coroutines ── CoroutinesProofs
        │      └ Futures (INSTANCE)
        ├── ConnectLoop ── ConnectProofs
        ├── HandlerDispatch ── MCHandlerDispatch
        │      └ DispatchProofs
        ├── WtReceive ─┐ (INSTANCE)
        │   Mailbox ───┤ (INSTANCE)
        └── WtServer ──┴─ WtProcess ── WtProofs
Breakpoints ── Debugger ── DebuggerProofs
SyntaxTree ─┬─ BytecodeCompiler ─┐ (INSTANCE)
            │  Peephole ─────────┤ (INSTANCE)
            ├─ TypeChecker ──────┤ (INSTANCE, and of Optimizer)
            ├─ Interpreter ──────┤ (INSTANCE)
            │  JitCode ──────────┤ (INSTANCE)
            │  └ AotCode ────────┤ (INSTANCE)
            ├─ CCode ────────────┤ (INSTANCE)
            │  ClawVm ───────────┴─ ExecutionModes ── MCExecutionModes
            └─ AstPasses (with Interpreter) ── Optimizer ─────────────────┐
Grammar ── Parser ─┐
CompileCaches ─────┤           (CachesProofs: with MLEvaluator and AutoScheduler)
JitEngine ─────────┤
LinearScan ────────┼─ Toolchain ── MCToolchain
   └ ToolchainProofs (with JitEngine, Streams, Packages and LanguageServer)
Streams ───────────┤
Packages ──────────┤
LanguageServer ────┘
AutoScheduler ────────────────────────────────────────────────────────────┤
MLEvaluator ──────────────────────────────────────────────────────────────┴─ Tuning ── MCTuning
```

**SeqFacts** (`Elements`, `NoRepeats`, and lemmas on what `Append`, `Tail`, `\o`
and `Front` do to a sequence) serves the modules with queues.

**Coroutines** is the async part of the VM on one thread. An activation of an
async function and the future it resolves share a name. `frames` is
`call_frames`, `ready` is `ready_coroutines`, `waiting[f]` is the
`waiting_coroutines` of `f`, `waitingOn[t]` the pointer a parked coroutine
keeps. An action is one instruction (`AsyncCall`, `DirectCall`, `AwaitResolved`,
`AwaitPending`, `Return`, `FallOff`), the two ways an instruction fails (`Fail`
leaves the frames, `Throw` leaves the program), or a step of `execute_in_vm`
(`MainLeaves`, `Resume`, `LoopEnds`). Two peculiarities of the code are kept:
CO_AWAIT parks only the top frame, and a coroutine is resumed on top of whatever
frames an earlier failure left. `handed`, `status` and `delivered` are history;
no guard that stands for a test in the code reads `delivered`.

**Futures** is the abstract specification of async functions: an activation is
blocked on a future or not, a future has a value or not, and a blocked
activation does nothing but receive its value once. `Coroutines` implements it
with `blocked` read from `waitingOn`, `valued` from `resolved` and `received`
from `delivered`: call stack, queue and lists of waiters are how, not what.

**ConnectLoop** has the VM thread of `run_bytecode` and the msquic callbacks of
outgoing connections. WT_CONNECT is five steps (bind the runtime, test
`closed`, store `connect_future`, clear `is_resolved`, count), CO_AWAIT two, the
callback seven, the loop one per read. `ready_coroutines` is an unlocked
`std::deque`: of two pushes that overlap either or neither may be lost, which is
how that data race is given an outcome. `pending_futures` is modulo
`CounterSize`, standing for 2^64, so that a decrement below zero would show.

**HandlerDispatch** follows `execute_in_vm` after the coroutine loop: commands
taken as one batch, each offered to its handlers in turn; event rounds over the
names with subscribers, each taking its channel as a batch; bridged messages
last. Handlers run to their end through `execute_closure` and may publish and
send while they do, which is the interesting part. The order of names within a
round is the hash table's, hence free.

**WtReceive** is `recv` against the RECEIVE, PEER_SEND_SHUTDOWN and
SHUTDOWN_COMPLETE callbacks: mutex, condition variable, predicate, timeout and
spurious wake-up are separate steps. **WtServer** is `listen`, the listener
callback, the callbacks of incoming connections, `accept` and `close_server`.
**WtProcess** composes one of each on one VM thread: while it is inside a `recv`
it neither accepts nor closes. **Mailbox** is the abstract specification of receiving:
messages come, a call asks, and its answer is the next message that has not been
received or, where there is none, nothing, if the call has a time limit or the handle
is over. A call on a closed handle is refused: `recv` looks at `closed` first and
returns the empty string, whatever is left in the queue.

**Breakpoints** has the tables of `claw_debugger.cpp` and the operations on
them; **Debugger** the command thread and the execution thread. Code under
`pause_mutex_` that does not wait is one step and a wait is a place. The
program being debugged is abstract: it enters and leaves functions and arrives
at locations, and a condition of a breakpoint holds or not.

**SyntaxTree** is the tree of `ast.h`, restricted to the sequential core (variables, arithmetic, `if`, `while`,
`loop`, `for`, `break`, `continue`, `match`, functions, `return`, `try`,
`throw`, blocks, `print`); **BytecodeCompiler** and **Interpreter** are its two
readings. The compiler is a function from a program to code
with the code's own addressing, patching and slot allocation. **ClawVm** executes
that code one instruction per step; the stack is an array with a separate top,
so that what is dropped is not forgotten. **JitCode** runs the machine code that the
method JIT makes of the same bytecode: what the x86-64 instructions emitted for each
instruction do to the registers, to the one stack that holds operands, locals, saved
registers and return addresses, and to its alignment. **AotCode** is the same machine
with the code that `--mode=aot` puts into an executable: which modules can be built,
calls by name that align the stack themselves, and returns that leave in `rax` whatever
is there. **CCode** has what the C that is
generated does: which programs a C compiler accepts, and a run of the accepted ones
with the meaning of the C statement written for each statement, where what the C
standard leaves open is a state of its own (`lost`). **ExecutionModes** puts them side
by side: `Init` picks a program, computes the interpreter's output, compiles
the program, with or without **Peephole**, the pass of `-O1` over the code in
between, and computes how machine code and C program end; `Step` is one instruction of the VM. **TypeChecker** is the check that comes
first: a program it refuses is not run, in this run or in `tuning`. Its second half is the analysis the
type check of `main.cpp` ends with: the effect of every statement, expression and
call, and which functions it accepts as `noraise`; `Init` takes the union over all
declarations of effects (variable `quiet`).

**AstPasses** has the passes of `optimizer/` that are repeated (constant
propagation and folding, algebraic and control flow simplification, dead code
elimination) and those that run once (range loops into endless loops, tail calls into
jumps, inlining) with `clone_stmt` and tree shaking: each a function from a tree to a
tree and a count of changes. **Optimizer** is the
pipeline of `main.cpp`: the iteration, the pass that is next, `any_change`, and the
program so far; a step is one pass, the end of an iteration, or the tree shaking.
Peculiarities that are kept: a pass tells that it changed something by its count,
and several changes are not counted; control flow simplification loses the body of
a match case that is an expression, and cloning the case itself; an inlining candidate
is a pointer into a function that may have been rewritten meanwhile (`Gone` is what
such a pointer leads to, and the status `lost` a compiler that dies of it or of
functions inlined into each other for ever).

**CompileCaches** has the three caches of the compiler driver, tokens, modules and
executables, used by several processes at once, each of which may be killed. A
file is a sequence of blocks written in place, so that a reader can find it short,
mixed or with a hole. The keys are made as the code makes them, by joining their
parts with separators that are empty strings.

**Grammar** holds the parse functions of `parser.h`, each as the sequence of what it
does with the tokens; **Parser** is the machine that runs them with the cursor, the
errors, the recovery and the places where the parser goes back. The program is
chosen token by token as the parser looks at it, from a correct text with up to
`MaxEdits` tokens dropped, added or replaced.

**JitEngine** is the engine that loads modules and compiles their functions into
the code cache: two tables of addresses that are cleared at different moments, a
mutex that `allocate` takes twice when the cache is full, mmap and mprotect that
may fail and reuse addresses. The compiler takes constants from a module it points
to (`current_module_`): `execute_jit` sets it, `execute_hybrid` does not, loading
leaves it where it was, and a new compiler has none. A page therefore says which
version of which function it holds and with the constants of which load.

**LinearScan** is the register allocation of the method JIT: the live intervals of
a function's locals, computed from its code, and the scan, one interval a step.
When nothing is free the interval that ends last is evicted; `spillInterval` resets
its register before the register is read, so that the table of registers is written
at index -1 (`wild`; the scan stops there, as what the write hits is not the
program's). Allocations are computed for each function that is compiled, but
nothing reads them yet: `emit_load_store_with_reg_alloc` has no caller.

**Streams** has the channels and the stream operators of the VM, and
`execute_closure`, through which they call the program: a closure does any of the
operations, then returns or fails. Channels come from a pool and are taken again
when nothing refers to them.

**Packages** is the package manager, with versions and constraints. The resolver is
one call of `resolve_package` a step, with the stack of calls as a variable. A
conflict switches the version of a package in place or erases it and
resolves it again by the last constraint alone. What comes out is locked and
installed, and a later installation reads the lock; the registry grows meanwhile, a
download fails, the process may be killed or be followed by another one at any moment.
The registry is in memory: the next process has what its program registers then. As in
the code, an optional dependency is never followed, because the manager enables no
feature; a single package is selected by the default strategy whatever is configured; a
failed download still counts as success; the manifest that `add` and `remove`
write back has lost its build dependencies; a lock that was cut short loads
silently, and a record cut short pins what is left of its version (`CutVersions`), or
0.0.0 for the package whose name is left (`Shorter`), in the place of that one's own
record; a pinned package that the registry lacks is taken without its dependencies.

**LanguageServer** is `lsp_server.cpp` on its one thread, with its `documents` and
`symbols`, and the editor at the other end of the pipes: its own `view` of the
documents, what it has `shown`, and the messages it has sent. A text is a sequence of
characters, so that words, columns and the edits an answer asks for are computed as in
the code; the tree of a text is given (`Ast`, its statements in the order the code visits
them, each with its level). As in the code: `textDocument/didSave`
of an open document locks a mutex that is held, and the server hangs; a text on which
the lexer throws (a number out of range) replaces the stored text and not the symbols
or the diagnostics; an empty text is ignored; a closed document's diagnostics stay in
the editor. A place is where the lexer stood behind the keyword, counted from 1, which,
counted from 0, is where the name begins if one blank is between: so a definition is
found, and left out of the references, by two errors that cancel out. Diagnostics are
one line too low, references never leave out a constant's definition, keyword tokens are
absolute where the protocol wants differences, and ids come back as strings.
The server reads lines where the repository's own editor extension
(`editors/vscode/src/extension.ts`) sends a header before each message and no line end
behind it: a message is read when the next header arrives (`Framed`).

**AutoScheduler** is `schedule_op` with the random and the evolutionary search over
a bounded cache with placeholders, saved and loaded, where the file keeps six digits of
a time (`Written`); **MLEvaluator** the evaluator
that threads share, with its two mutexes. **Toolchain** and **Tuning** compose
these modules and the optimizer: a behaviour is at work in one of them, as they share no state.

Every operator named as a mutant (its comment starts with `Mutant:`) stands
directly before the definition it replaces and is used by no specification.

## 3. What the runs check

| Run | Instance | Distinct states |
|---|---|---|
| `coroutines` | 4 activations, 3 frames | 146,614 |
| `coroutines_orphan` | 2 activations, 2 frames | violation |
| `connect` | 2 connections, 2 coroutines, counter modulo 4 | 1.27 million |
| `connect_early` | 1 connection, 1 coroutine | violation |
| `dispatch` | 2 names, 2 handlers, 2 messages, 2 commands, 2 rounds; symmetric | 1.05 million |
| `dispatch_answers` | 1 name, 1 handler, 1 message, 2 commands | violation |
| `webtransport` | 2 incoming connections, 1 outgoing, 2 messages | 385,560 |
| `debugger` | 2 locations, 1 function, ids to 2, depth 3, 3 instructions, 2 runs | 2.33 million |
| `modes` | 5,094 programs, stack 48, 12 frames, 150 instructions | 215,044 |
| `modes_operands` | 2 programs | violation |
| `toolchain` | see below | 3.92 million |
| `tuning` | see below | 483,899 |

`CHECK_DEADLOCK FALSE` is set everywhere because every one of these systems
stops by design: a program ends, a session is quit. That it stops only where it
should is what the liveness properties below say. Several properties of one
invariant are checked under one name: `CoroutineInv`, say, is the conjunction of
the safety properties of Coroutines and what they lean on.

**coroutines.** `CoroutineInv` has these parts. `OneContinuation`,
`NothingDropped`: a started activation that has not left its function is on the
stack, queued or parked, in one place and once. `NoSleeper`: nobody is parked on
a resolved future. `ReadyHasValue`, `NoPhantomValue`: no await yields a value
nobody made. Besides: `Woken`, whoever waits on a future that gets resolved
receives its value. `KeepsPromise`: every step is a step of `Futures` or changes
nothing of it. `LoopTerminates`: the event loop ends. Four activations let two
wait on one future while a third resolves it from inside a coroutine resumed by
a fourth; three frames allow a call of a call, and a coroutine resumed on frames
that a failure left.

**connect.** `ConnectsCounted` (`NeverUndercounted`, `NoEarlyExit`):
`pending_futures` never counts too few and the loop never leaves an unanswered
connect, although the test and the decrement in the callback are two accesses
(too *many* counted is the disagreement of section 6). `ConnectInv`: no
coroutine is queued twice, even when a connection comes up and goes down at
once; that a coroutine which leaves the queue finds its future resolved, and
`LoopEnds`, hold when no answer arrives inside WT_CONNECT; the variable `late`,
chosen once in `Init`, marks those behaviours, and the others are explored too
for the remaining properties. Two connections are two callback threads, enough
for every race on the shared counter and queue; a counter modulo 4 tells one
below zero from every legal count.

**dispatch.** `Deliveries`: what has been delivered is a prefix of what is owed,
message by message in publication order and subscriber by subscriber in
subscription order. `AllDelivered`: an event loop that stops by itself, and not
at its limit of rounds, leaves nothing undelivered. `Answers` (`AnsweredOnce`,
`WokenByAnswer`): a request is resolved once, by the first of its handlers, and
its awaiter is queued exactly then. Two rounds stand for the code's 100: the
limit is reached, and also not reached, with messages published meanwhile.

**webtransport.** `Received` (`NoSleepOnData`, `InOrder`, `EmptyMeansEnd`) for the
receiver, and `ActsAsMailbox`: what the program sees of its calls of recv are steps
of `Mailbox`, refusals on a closed handle included; `Handout` (`AcceptedOnce`, `UpIsHanded`) for the server;
`LateOnesConfigured`: once `listen` has returned, every connection reported gets
its configuration (one reported between ListenerStart and the store into
`g_listener_config_map` does not, and can never come up). `EndWakes`: a receiver
comes back from a handle that is over, in the behaviours where no flag is
written between the test and the wait of `recv` (`quiet`): the flags are written
outside the mutex, so that in the others the notification can be lost.

**debugger.** `LinesIndexed`: the index of locations is exact although function
breakpoints and watchpoints take an id without using it up. `PausedStandsStill`:
nothing executes while the debugger says paused. `StepsEndInTime`: a step ends
where the user meant it to. What was asked, and the depth it was asked at, is kept
in a history variable (`asked`) beside the debugger's own `step_mode` and
`step_start_frame_depth_`, and `due` becomes true when an instruction takes the
program to where that ends: no instruction is executed after that unless `stop()` is
under way (the thread may then execute once more), and a program that is paused in
a stepping mode has come there, through breakpoints, resumes and restarts.
`CommandsReturn`:
every command comes back, and stop joins its thread. A `continue` or a step typed
before the first `run` is in the model and excepted: nothing has set a flag that
`wait_for_pause` waits for, so it waits for ever, as the code does. Two runs in a session reach
what one run leaves behind for the next; depth 3 lets a step be out of a call
within a call; two ids make a function breakpoint's id be taken over.

**modes.** `ModesAgree`: a program that stays clear of the known differences
prints in the VM what it prints interpreted, at every moment a prefix of it.
`StackInShape` (`LocalsBelowTop`, `SameHeight`): every local a function uses
lies below the stack top, and the stack has one height at each instruction
whichever way control came (unless an exception has crossed frames, which leaves
the callee's cells); and the program stops by returning from
`main`, not by running off the end of some function. `CallersKept`: a call
changes no local of a waiting function. `NoRaiseKept`: an exception, thrown at whatever depth
of calls, leaves no function that was accepted as `noraise`. `InSight` of TypeChecker
names what has to be left out of it, because the analysis does not look there and
the property then fails: the body of a catch, and a match. `Halts`: what the
interpreter finishes, the VM finishes. The programs are families in `MCExecutionModes`, every
combination of small parts:

| Family | Programs | Regular | Jittable | Executable | Portable |
|---|---|---|---|---|---|
| loops of each kind around bodies of up to three statements | 1,197 | 765 | 765 | 765 | 798 |
| a loop within a loop, with jumps in both | 160 | 144 | 144 | 144 | 80 |
| functions with three branches | 756 | 444 | 190 | 190 | 402 |
| calls in every position, recursion with and without end | 72 | 56 | 54 | 66 | 60 |
| calls while an operand or an argument is pending, three functions | 144 | 18 | 114 | 144 | 136 |
| matches | 473 | 473 | 473 | 473 | 409 |
| shadowing in nested scopes | 252 | 231 | 231 | 231 | 219 |
| exceptions, handlers that throw, calls that throw | 1,086 | 822 | 0 | 0 | 0 |
| exceptions caught where they are thrown | 180 | 168 | 0 | 0 | 180 |
| functions the peephole pass is run on | 774 | 288 | | | |
| all | 5,094 | 3,409 | 1,971 | 2,013 | 2,284 |

Of the regular, the jittable, the executable and the portable programs the interpreter
cuts 280, 283, 283 and 210 short. `Regular` in `ExecutionModes` is the exact list of what is left out of the
agreement: more than one own `break` or `continue` in a loop (a loop context
remembers one of each and only the last is patched); a branch whose last
instruction is a return although control may pass it; a match as the last
statement of a function; a call in the right operand of an operator (section 6);
a throw right before a `try`; and, with the peephole pass, a function it does not
leave `Intact`. Irregular programs are executed all the same
and keep to `CallersKept` and to the types. Of another 160 programs with matches, the type check refuses each: it knows the type
of what is matched, and a case is missing or comes too late. What a call returns has
no type, which lets the rest through. In 369 of the programs with exceptions a function that
contains a throw may be declared `noraise`. A program the interpreter does not
finish within `Fuel` = 12 iterations and calls is compared as far as it goes.

The peephole pass removes pairs of instructions that undo each other (`x = x`, a
literal as a statement). It then moves the jumps, but takes their operands for
indices into the code although the compiler and the VM take them for offsets, and it
moves no handler. `Intact` says when every jump still leads to the instruction it led
to and every handler guards what it guarded; then, and this is what `ModesAgree`
shows, the pass is right. It shortens 564 of the 774 programs, and 138 of those are
regular. Of the programs only `Intact` leaves out and that end, 145 in 170 print
something else. A further 126 jump before the first instruction, which is undefined,
and are not run. The programs of this family are fixed points of the passes over the
tree, which run before it.

`ModesAgree` says the same of the machine code of a `Jittable` program, in every order
of compiling in which a callee comes first (the table of functions is unordered): it
does nothing undefined (reads no word that nobody wrote, calls nothing that is not
code, takes no operand out of its frame, enters no C++ code with a stack that is not
aligned) and prints what the interpreter prints. `Jittable` is again the exact list of
what has to be left out: the first three points of `Regular`, as the code is the same;
exceptions, which have no machine code; a function called before it is compiled, whose
address is looked up in a table nobody fills; a value used of a function that returns
nil, which is 0 here; and a call of a function that prints while an operand is pending,
because the operand takes one word and the stack is then not aligned in the call. What
`Regular` has to exclude besides, a call in the right operand, is right here: 99
programs are `Jittable` and not `Regular`.

The executable of an `Executable` program does nothing undefined and prints the same. It
differs from the JIT in both directions: every call aligns the stack, by a register that
the callee gives back, so that operands may be pending whatever is called, and callees
are found in the object file, in whatever order they were compiled; but it cannot divide
(operands stay on the stack and half of the dividend is never set), prints only the
first of several arguments, and has no executable at all for a module with a `throw`.
An argument register that the caller did not set counts as unwritten.

The last part of `ModesAgree` is about the C program of a `Portable` program: it does
nothing that C leaves undefined or unspecified, and prints the same. Left out are:
`loop`, for which nothing is written; a range other than from 1 to a number, which
becomes one to ten, and an assignment to the variable of a `for`, which is the counter
here; a declaration in a plain block, which has no braces, a name that is bound by a
loop or a match and declared elsewhere in the function, and a declaration that reads
the variable it hides; cases that are expressions, for which nothing is written; the
value of a function that may end without a return statement that gives one; two
operands that both call a function, where functions print; and of exceptions the value
that is caught, a throw that leaves its function or a handler, and assignments in a
`try` body with a throw.

**toolchain.** The parts of it, one at a time.

- *Caches*: two processes, three runs of the driver, one kill, files of two blocks;
  three requests, two for one file at two levels and one whose text and name run
  together to the same letters. `CachesInOrder`: a file nobody is writing and whose
  writer was not killed is complete. `RunsItsOwnSource`: a run that read no file at
  a bad time (the variable `risk` says which did) executes what its own request
  compiles to. Two blocks are the least for a file that is half there.
- *Parser*: 31 texts that between them use every parse function, each with every
  single mistake of eight kinds at every place. `ParserAdvances`: the parser stands
  still in no loop but the three named in `Endless`, where the code looks for a
  name or a comma and consumes nothing else. `VerdictIsRight`: a failed declaration
  has reported why, what is accepted has its delimiters in pairs (but for the places
  that let one pass, `lax`), and what is written correctly is accepted.
- *JIT engine*: four modules of one or two functions, three loads (with the third a
  module may come to lie where a freed one was), one clear, a cache
  of 10 bytes with pages of 4, two addresses to give out, so that a function of two
  pages fills it and addresses are reused. `EngineSound` has two parts. `CodeCacheSound`: the compiler's table has
  live code of the right function, the cache keeps to its limit, the engine hangs
  only when the cache is full. `CallsMain`: main is called at its own code, compiled
  with its own constants, but for four situations named in the property; one of them
  is a hybrid execution that compiled with the constants of no module or another one.
- *Registers*: every function of six loads of five locals and one with stores, two
  registers in each pool: 15,626 codes. `AllocationSound`: two locals that live at
  the same time share no register and no slot, and one goes without a register only
  where all of its pool are taken by locals that live then.
- *Streams*: three channels of capacity one, batches of two, four frames, two sends,
  two stream operators. `StreamsSound`: a value is taken at most once, in the order
  it was sent in, within the capacity; and (`ClosuresGiveNil`) without a failed closure
  every operator comes back to its caller with the stack as it was, and the result of
  a closure is always nil, because `execute_closure` looks for it above the place
  where `op_ret` leaves it.
- *Packages*: three packages with seven versions between them that need each other,
  the name of one the beginning of another's, five manifests, three registries, four
  strategies, three commands, depth two and one backtrack. `ResolutionSound`: when
  nothing was erased every version satisfies every constraint, and the recursion is
  never deeper than there are packages. `LockReproduces`: what was locked by a
  resolution without conflict is what the next installation takes, whatever was
  published since, as long as the registry has had what is pinned (`settled`): the run
  has processes that register less, after which the lock leads elsewhere.
- *Language server*: two documents, four texts (a function with a parameter and a
  variable; a string with a bracket, a condition and a character no token begins with;
  a number too large; none), four messages of which one is a request, two in the pipe:
  enough for a document that is closed and opened again, or emptied or made unreadable
  before it is asked about. The request is any of eleven, or shutdown, at every position
  of the text. `ServerSound` has two
  parts. `InStep`: at a request the server has the documents the editor had when it
  asked, each with the last text that was not empty, and the symbols and diagnostics
  of the last that could be read. `AnswerSound`: applied to that text, a renaming
  replaces the whole word everywhere and nothing else; no reference is missing but the
  one that declares the name; places are right behind a keyword; keywords are found
  exactly; formatting changes blanks only and nothing the second time. It is not claimed
  where it fails: for a text the editor has emptied, for symbols of a text that could
  not be read, and for the whole text formatted without a line end at its end, whose
  last line the edit leaves behind its copy.

**tuning.** *Programs*: 609 of them at both levels, in families as above
(constants that are kept, lost and shadowed; chains of constants of which each takes
an iteration; operators on parameters and calls; loops over ranges; functions that
call themselves last; functions that are one expression; dead code), expressions to
inline of at most 20 nodes as in the code, programs watched for `RunFuel` = 14 loop
rounds and calls: more than any of them needs, but for 44 that run for ever, of which
what they print meanwhile is compared.
`OutputKept`: after every pass, in whatever order they meet, the interpreter prints
what it printed before. It is stated for the programs a pass can keep (`Keeps`);
for others the pass is executed and what the result prints is what the passes after
it have to keep. The exceptions are as small as they could be made, each condition
being one without which TLC finds a program that is changed:

| Pass | Keeps programs where |
|---|---|
| propagation | a name that gets a literal is bound in one block only, and is no parameter: what branches, loop conditions, matches and handlers do to a name is not seen (the condition of a `while` becomes a constant) |
| folding | no `&&` or `\|\|` occurs, which the interpreter evaluates to nil |
| simplification | operands are numbers, and what is multiplied or taken modulo calls nothing: `0 * f(x)` loses the call, `2 * f(x)` makes two |
| control flow | also, no case of a match is an expression, and the last statement of a function stays |
| dead code | any program |
| range loops | no `continue` in them (it skips the increment), variables not used after the loop; the end of the range is left out, which the interpreter includes: the program is to print what it prints with ranges one shorter |
| tail calls | every path returns or calls again, none of it inside a loop or in the middle, no argument reads a parameter assigned before it |
| inlining | arguments call nothing (they may be evaluated twice, or never) |

`StopsAtFixedPoint`: when the pipeline stops because no pass reported a change, none
of the repeated passes would change the program. Five iterations are too few for a
chain of six constants (status `limit`), so both ways to stop occur.

*Schedules and evaluations*: one operation with two schedules and two times, of which
the file keeps the faster only (as six digits may do to times that are close), the best
two results, four calls of which two search, a cache of one entry, populations and
generations of two; two threads, two keys and five calls of the
evaluator. One operation is enough because entries are looked up by operation and
schedule and the proof is for any number of both; four calls are what it takes to
search, save, search again and load, so that the cache passes its size and a time
comes back that nobody measured. `SchedCacheSound`: within its size unless something was
loaded, and every time in it goes back to a measurement of that schedule: it is one, or,
once a file was loaded, what the file keeps of one. `BestIsFound`: the results of a
search are the best of what it measured, and no worse than what the cache knew.
`EvaluatorSound`: the mutexes protect what they should, so that the statistics add
up. `TuningReturns`: every search returns, and every evaluation unless two threads
have locked the mutexes in opposite orders, which the code permits.

## 4. Fairness

- `Coroutines`: weak fairness of `Next`. One thread runs the program and
  keeps running it; functions of the modelled programs do not loop for ever.
- `ConnectLoop`: weak fairness of the VM thread, of each callback once
  begun, and of the answer to a handshake. msquic ends every handshake, with
  CONNECTED or with SHUTDOWN_COMPLETE after its own timeout.
- `HandlerDispatch`: none; no liveness is claimed, `AllDelivered` is an action
  property.
- `WtProcess`: weak fairness of the VM's own steps inside `recv`, of the
  notification that ends a callback, and of the timeout. No message need ever
  come, and nothing is assumed of the server's instructions.
- `Debugger`: weak fairness of each thread. What the user types next is free,
  and may be nothing.
- `ExecutionModes`: weak fairness of the dispatch loop.
- `Tuning`: weak fairness of the search under way and of each thread inside
  `evaluate`. Nothing makes a user call either, and nothing is assumed of the
  optimizer, whose properties are invariants.
- `Toolchain`: none; its properties are invariants. That the parser comes to an end
  is stated as one (`stuck` names the loop that stands still), and TLC's finite
  state space does the rest.

## 5. What is proved

All theorems hold for any value of the constants, from the named assumptions of
the modules (`Main` is an activation, the null value is not one; bounds are
natural numbers).

**CoroutinesProofs.** `CoroutineInvariance`: `CoroutineInv` is inductive. It is
the conjunction of the safety properties the run checks and of three facts they
lean on: `WaitMatches`, that the list a coroutine stands on belongs to the
future it names (without it, waking the list of `f` says nothing about
`waitingOn`), `FreshNowhere`, that an activation nobody started has no
continuation (without it, starting it might make a second one), and
`StackAwaitsNothing`, that what is on the call stack waits for nothing. The
proof has a lemma per action; sequences are read through the sets of their
elements, with the lemmas of SeqFacts. From it `CoroutineTypes`,
`EachContinuationOnce`, `NoContinuationLost`, `NoLostWakeup`,
`ResumedWithValue`. `ImplementsFutures` then maps each action to a step of
`Futures`: the awaits to `Block` and `Pass`, `Return` to `Resolve`, `Resume` to
`Continue` or, for a coroutine that starts, to nothing; `StackAwaitsNothing` is
what the guards of `Futures` ask for.

**DispatchProofs.** `AnswerInvariance`: `AnsweredOnce` and `WokenByAnswer` become
inductive with `SentSoFar`: ids given out are below `next_command_id`, and an id
not given out has no answer, so that a request starts unanswered and whoever
awaits a pending one cannot have been queued. From it `AnsweredRight`.
`DispatchTypes` and `DeliveryInvariance` are about the event rounds. For each name
the messages published are those delivered, those in the batch and those in the
channel, in this order (`InChannel`, with the number delivered as a difference of
lengths), and the log is so long a prefix of what is owed (`Logged`): a step of the
loop moves a message, a call of a handler the log. From it `DeliveredInOrder`.
`NothingUndelivered` is the action property: a round that
delivered nothing has run no handler, so that the channels it has visited are still
empty when it ends (`QuietRound`).

**ConnectProofs.** `CoroutineInvariance` of ConnectLoop: a coroutine is parked
on one connect, found by one callback, ready, or running, and in one place only
(`ParkedOnce`), though a push may be lost to the race on `ready_coroutines`; what a
callback has found is resolved (`ReadResolved`, where no answer comes early). From
it `QueuedOnceWithValue`. `UnansweredCounted`: `pending_futures`
stands for a number `t` that lies between the connects no callback has finished with
(less the one WT_CONNECT is about to count) and the connects begun; it is below
zero only inside WT_CONNECT. The counter is modulo `CounterSize`, for any
`CounterSize` above the number of connections.

**WtProofs.** `ProcessInvariance`: the server half keeps `TypeOK`,
`AcceptedOnce` and `UpIsHanded` (with `known` determined by `link`, which is
what makes CONNECTED find its handle), the client half `TypeOK`, with the mutex
held exactly at the places where the receiver holds it, `NoSleepOnData`,
`InOrder` and `EmptyMeansEnd`; a step of one half leaves the other alone. From it
the theorems on each. `LateConfigured` is the action property `LateOnesConfigured`,
from an invariant of its own: after the listener has started, the program is about
to store the configuration or has stored it (`ListeningInv`). `ImplementsMailbox` maps
`Take` to `Receive` or `ComeBackEmpty` of `Mailbox`, which is where `InOrder` and
`EmptyMeansEnd` are needed, the callbacks to `Arrive` and `End`, `Enter` to `Ask`, the
answer of a call made on a closed handle to `Refuse`, and
what is done with the mutex and the condition variable to nothing.

**DebuggerProofs.** `BreakpointsFound`: `LinesIndexed` is not inductive by
itself, because an id that is taken without being used up could be a line
breakpoint's; `LineIdsUsedUp` (every line breakpoint's id is below the next one)
excludes it. `PauseHolds`: `PausedStandsStill`, whatever the two threads do.
`StepsInTime`: `StepsEndInTime`. It rests on what the two records of a step have
to do with each other: while the thread goes on, `step_mode` is what was asked and
the start depth is the depth it was asked at (`StepRecorded`; a breakpoint clears the
mode, a module that does not load leaves it), and between two instructions what was
asked is not yet over (`DueInTime`). Both need `PausedStandsStill` and that `stop`
is set while `run` and `quit` wait for the thread.

**ToolchainProofs.** Three parts of the virtual machine and two of the tools around
it. *The register allocator*: `ScanIsSound`: `AllocationSound` for every set of functions,
any number of registers in the two pools and any boundary between them.
`AllocationSound` becomes inductive with `StartsInOrder` (intervals are not empty, what
waits starts no earlier than what was reached and has nothing yet), `Held` (the
moment a register is said to be free is the end of an interval that was given it)
and `SlotsBelow` (slots given are below the frame's size). Of the analysis it takes
that intervals are made of natural numbers and not empty, which rests on lemmas
about the least and the greatest of a set. The proof of a step splits as the scan
does: a free register, an eviction, or none.
*The engine*: `JitInvariance` and `EngineKeepsCode`: the bytes counted are the
sizes of the pages there are and exceed the limit by less than a page
(`SpaceCounted`), the code of a name is what the module says until another module is
loaded over it (`CodeIsCurrent`), an execution in JIT mode compiles with the constants
of the module loaded (`ModuleTold`), so that code with others has come from a hybrid
execution (`OwnConstants`), the table has only addresses the compiler knows
until the caches are cleared (`TableFollows`), and on the way to `main` either it is
still to be compiled, or is, or its compilation failed (`MainIsComing`). That sizes
add up is proved by induction on the number of pages (`Induct`, from
the well-foundedness of the natural numbers).
*The package manager*: `ResolutionIsSound`, for any packages, versions, constraints,
registry that grows and lock file, cut short or not: a package is on the
stack of calls once and not when it is resolved (`StackInv`: from it, by counting
names, the bound on the depth), every dependency of a call is still to be looked at,
being resolved or resolved (`CoveredInv`), what has been asked so far is met
(`AskedInv`), and of any resolved packages one needs none of the others (`OrderInv`),
which is what makes `LockOrder`, a recursive function, come to all of them. A package
that was erased or switched is excepted where the code forgets what it owed.
`LockIsFollowed` relates two resolutions that may be far apart. A resolution without
conflict leaves a certificate of its way (`Replays`): a set `S` of states of the stack
that holds the first one, in which each state but the last is followed (`Leads`) by
what a resolution with these versions pinned does next. While the first resolution
runs, the certificate grows by the state it comes to (`RunsInv`); when its lock is
written its end is where the lock leads (`LeadsTo`), and a later installation, which
can do nothing else than `Leads`, never leaves `S` (`LockInv`): so it can neither fail
nor end anywhere but where the first one did. Both need that the registry has what is
resolved and pinned (`AllRegistered`), since the dependencies of a package it lacks are
none.
*The language server*: `ServerInStep` proves `InStep`, the half of `ServerSound` that
is about time. The invariant (`PipeInv`) says that the server, reading what is in the
pipe message by message, goes through states `h` such that at each request it has
what the editor had when it asked, and in the end what the editor has (`Reading`,
`Synced`). A message of the editor adds a state at the end, a message the server
reads takes one away at the beginning. `LspAssumption`: the value that stands for a
text that cannot be read is no text.
*The channels*: `StreamsInvariance` says where each number that was sent is: in what was
received from one channel, in one queue, or in what one operator has still to do,
never in two of them and never twice. A step moves numbers (`Moves`): those that leave
a place come to one place (`OneTarget`), from which every action's case of `DataStep`
follows by one argument (`MovesKeep`). For the order the invariant needs that the output
of an operator under way is referred to by nobody else (`OutputsOwned`) and that what the
operator has still to do comes after what is in its output (`TodoOrdered`). That
`stream_buffer` keeps numbers and order rests on what `FlattenSeq` makes of each batch,
proved by induction on the length of the batch (`FlattenGathers`). `StackRegular` is the
part about closures: the i-th operator under way was called from the i-th frame, whose
base is three values above that of its caller, so that what `op_ret` leaves is never above
the base and the closure gives nil. `StreamsKeepValues` follows, for any channels,
capacities, size of a batch and `MaxFrames`.

**CachesProofs.** Three caches. *The compiler driver's*: `CachesInvariance`: a block
that is in a file is in its place and made from a request of the file's key; a
file that is not complete was abandoned by a process that was killed, or one that
has written all that is there is still writing; a process that has read
no file at such a time has the tokens and the program of its request. From it
`FilesInOrder` and `OwnSource`, for any processes, length of files and number of
kills. *The evaluator's*: `EvaluatorInvariance` counts the calls not yet in the total,
and those in it only as predictions, as sets of threads; from it `EvaluatorCounts`.
*The schedules'*: `SchedulerInvariance`: every time in the cache and among the results of
the search goes back to a measurement (`Traces`), every time in the file is what six
digits keep of one (`Rounded`); that keeping six digits twice is keeping them once is
assumed of `Written`, and true of doubles, which have more; the results are all valid ones while
the evolutionary search goes on, and the best `TopK` of them otherwise, said by
counting for every time the results no slower than it. The
lemmas say what sorting (in any order of equal times) and cutting do to these
numbers. From it `ScheduleCacheHolds` and `SearchFindsBest`.

Model-checked only:

- every liveness property, and `TuningReturns`: fairness is out of the prover's reach;
- `ModesAgree`, `StackInShape`, `CallersKept`, `NoRaiseKept`, `OutputKept` and
  `StopsAtFixedPoint`: their modules rest on recursive operators (a compiler, an
  interpreter, passes over trees), about which the prover cannot reason;
- `AnswerSound`, the other half of `ServerSound`: it compares an answer with the text
  and takes a tree that was read from that text, which holds of the trees TLC is given
  and not of every `Ast`;
- `ParserAdvances` and `VerdictIsRight`, which are about the grammar of `Grammar` and
  the texts given to the parser, not about any grammar.

What a recursive function computes can be proved where a set of numbers serves as the
hypothesis of the induction, as in ToolchainProofs; the induction theorems of the
library, which take an operator, cannot be used.

## 6. Where the code and its texts disagree

Each is a run that TLC ends with a counterexample.

- `coroutines_orphan`: an async function that runs off its end never resolves
  its future, and whoever awaits it is still parked when the loop, said to run
  "until all complete", has ended.
- `connect_early`: a CONNECTED callback that runs before WT_CONNECT has stored
  `connect_future` resolves nothing, and the counter that is raised
  afterwards stays up.
- `dispatch_answers`: the answer to a command queues its awaiter after the only
  loop that resumes coroutines has ended.
- `modes_operands`: `print(1 + f(x))` prints 4 in the VM and 3 in the
  interpreter (x = 2, f the identity): the return of `f` drops the pending
  operand of its caller.

## 7. What is not modelled

Within the modelled parts: a wakeup lost between CO_AWAIT's test and its
registration while a callback resolves the same future is reached by
`ConnectLoop` but no property forbids it, because the code does lose it. The
mock WebTransport backend (it would wait for itself on one thread), sending, and
and who gets the messages left in the queue of a closed handle (nobody: `recv` refuses,
which is modelled). A handler that subscribes while
the loop walks the handlers invalidates an iterator and has no outcome to
model. `pause()` and callbacks that resume the program from inside, which no
command of the CLI uses. Of the
language: `let` without a value, `&&` and `||` in the VM, arrays, objects, closures
with upvalues, tensors; a match with a wildcard case, whose code pops
once too often; variables declared in a plain block or in a `try` or `catch`
body, where the compiler opens no scope; the value of a call whose function
throws inside an expression.

Of the optimizer: floating-point numbers and strings, unary operators, loops over
arrays, functions within functions, a parameter named like a function it is called
with, integers that overflow, and the monomorphizer.
Booleans print as 0 and 1, and names are bound before they are used.

Within the parts of Toolchain and Tuning: the tree the parser builds, spans and
error codes, and the lexer; of the JIT's code generators floating-point numbers,
arrays, tuples and tensors, of executables the same and strings and objects, of the C
that is generated also events and serial processes; the optimizing JIT compiler, whose
body is empty; its hot-spot counters, traces, inline caches and deoptimisation, none of
which the engine calls; the data-flow analysis of `reg_alloc.cpp`, which has no caller; of the package manager
features, build metadata, dry runs, offline mode, the build pipeline and
`prune_lockfile`, and the text of manifests and lock files; of the language server `initialize` and `codeAction`, whose answers are
constants, requests about documents that are not open, positions beyond the end of a
line (which it counts on into the next), bytes (it counts them where the
protocol counts UTF-16 units), and its JSON. A resolution that erased
a package ignores the constraints it had before and may close a cycle that the lock
file then leaves out: the model does so and `ResolutionSound` excepts it. Schedules,
their signatures and the evaluator that runs code are model values.

Other components, with the reason, are in the `note` of each entry of
`components` in `PROJECT.json`. In short: encoders of machine code and of
other languages, text processing, floating-point models and terminal I/O have no
protocol to check; the rest is planned.

## 8. Plan

Written so far, in this order: continuations and wakeups (Coroutines), the same
across threads (ConnectLoop), what follows the loop (HandlerDispatch), the network
(WtReceive, WtServer, WtProcess), the two threads of the debugger, the agreement of
the five execution modes and what the optimizer's passes keep; then the tools around the virtual machine, each by itself,
in the runs `toolchain` and `tuning`. What comes next:

1. **Pure algorithms** that are left: the inference and monomorphization of generic
   functions and the passes over the IR, each against a definition.
2. **The rest of the sequential language** in `ExecutionModes`: logical operators,
   arrays and closures.
3. **Abstract specifications**, besides `Futures` and `Mailbox`: the mailbox
   as what the channels implement as well; an *exact map* from locations to
   breakpoints, implemented by `Breakpoints`.
4. **Theorems**: `ParserAdvances`, for the modelled grammar.
