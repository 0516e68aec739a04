------------------------------ MODULE JitEngine ------------------------------
(* pipeline/execution_engine and jit/jit_compiler: the engine loads modules,    *)
(* compiles their functions into the code cache, keeps the addresses by name in *)
(* two tables (compiled_functions_ of the compiler, jit_functions_ of its own), *)
(* and calls main through the second.                                           *)
EXTENDS Integers, FiniteSets, FiniteSetsExt, Functions

CONSTANTS
    JitFunctions,    \* names of functions
    JitMain,         \* the one the engine calls
    Modules,       \* functions from some names to versions of their code
    CodeSize,      \* version -> estimate_code_size
    Page,          \* size of a page
    CacheSize,     \* max_size_ of the code cache
    Addresses,     \* where mmap may put pages
    MaxLoads, MaxClears  \* bounds

ASSUME JitAssumption ==
    /\ JitMain \in JitFunctions /\ Page \in Nat \ {0} /\ CacheSize \in Nat
    /\ \A m \in Modules : /\ DOMAIN m \subseteq JitFunctions
                         /\ \A f \in DOMAIN m : CodeSize[m[f]] \in Nat

VARIABLES
    module,        \* compiled_module_
    compiled,      \* compiled_functions_: name -> address
    pages,         \* allocations_: address -> size, and the version compiled there with
                   \* which constants
    used,          \* used_size_
    table,         \* jit_functions_: name -> address
    constants,     \* current_module_, where the compiler takes constants from: 0 or the
                   \* number of the load that brought it; an earlier one may be freed
    hot,           \* functions with calls recorded in the analyzer
    engine,        \* what the engine does: idle, or compiling names left for a mode
    loads, clears,
    lastCall,      \* history: what the last call of main found at its address
    reloaded, protectFailed, mapFailed, strayed  \* history, since the start

history == <<lastCall, reloaded, protectFailed, mapFailed, strayed>>

jitVars == <<module, compiled, pages, used, table, constants, hot, engine, loads, clears, history>>

With(f, x, v) == [y \in DOMAIN f \cup {x} |-> IF y = x THEN v ELSE f[y]]

Empty == [x \in {} |-> x]

Idle == [mode |-> "idle", todo |-> {}]

JitInit ==
    /\ module = Empty /\ compiled = Empty /\ pages = Empty /\ table = Empty
    /\ used = 0 /\ constants = 0 /\ hot = {} /\ engine = Idle
    /\ loads = 0 /\ clears = 0
    /\ lastCall = "none"
    /\ reloaded = FALSE /\ protectFailed = FALSE /\ mapFailed = FALSE /\ strayed = FALSE

---------------------------------------------------------------------------
\* load_source and load_module replace the module and nothing else. The compiler keeps
\* its pointer to the module before; once that one is freed, a later module may be put
\* where it was.
LoadModule(m) ==
    /\ engine = Idle /\ loads < MaxLoads
    /\ loads' = loads + 1
    /\ module' = m
    /\ \/ UNCHANGED constants
       \/ constants \in 1..(loads - 1) /\ constants' = loads'
    /\ reloaded' = (reloaded \/ compiled /= Empty)
    /\ UNCHANGED <<compiled, pages, used, table, hot, engine, clears, lastCall, protectFailed,
                   mapFailed, strayed>>

\* The client of the engine records a call in its analyzer.
RecordHotCall(f) ==
    /\ engine = Idle /\ f \notin hot
    /\ hot' = hot \cup {f}
    /\ UNCHANGED <<module, compiled, pages, used, table, constants, engine, loads, clears,
                   history>>

\* Mutant: the compiler is not told of the module.
ExecuteJitUntold ==
    /\ engine = Idle /\ loads > 0
    /\ JitMain \in DOMAIN module
    /\ engine' = [mode |-> "jit", todo |-> DOMAIN module]
    /\ UNCHANGED <<module, compiled, pages, used, table, constants, hot, loads, clears, history>>

\* execute_jit tells the compiler of the module (set_module) and compiles every function
\* of it, if it has a main.
ExecuteJit ==
    /\ engine = Idle /\ loads > 0
    /\ JitMain \in DOMAIN module
    /\ constants' = loads
    /\ engine' = [mode |-> "jit", todo |-> DOMAIN module]
    /\ UNCHANGED <<module, compiled, pages, used, table, hot, loads, clears, history>>

\* execute_hybrid runs the module in the VM, then compiles the functions that had
\* calls, without a set_module; it keeps no address and calls none.
ExecuteHybrid ==
    /\ engine = Idle /\ loads > 0
    /\ engine' = [mode |-> "hybrid", todo |-> hot \cap DOMAIN module]
    /\ UNCHANGED <<module, compiled, pages, used, table, constants, hot, loads, clears, history>>

---------------------------------------------------------------------------
RoundedUp(size) == ((size + Page - 1) \div Page) * Page

Counted(size) == RoundedUp(size)

Registered(f, a) == IF engine.mode = "jit" THEN table' = With(table, f, a) ELSE UNCHANGED table

Done(f) == engine' = [engine EXCEPT !.todo = @ \ {f}]

EngineSame == UNCHANGED <<module, constants, hot, loads, clears, lastCall, reloaded>>

\* A name that was compiled once is not compiled again, whatever its code is now.
CompileCached(f) ==
    /\ f \in engine.todo /\ f \in DOMAIN compiled
    /\ Registered(f, compiled[f])
    /\ Done(f)
    /\ UNCHANGED <<compiled, pages, used, protectFailed, mapFailed, strayed>> /\ EngineSame

Fits(f) == used + CodeSize[module[f]] <= CacheSize

\* mmap fails: no code, and what is in jit_functions_ stays there.
CompileUnmapped(f) ==
    /\ f \in engine.todo /\ f \notin DOMAIN compiled /\ Fits(f)
    /\ mapFailed' = TRUE
    /\ Done(f)
    /\ UNCHANGED <<compiled, pages, used, table, protectFailed, strayed>> /\ EngineSame

\* The address is entered before the code is there; mprotect may fail after it. A constant
\* becomes 0 when there is no module to take it from, and what another module has at
\* its index, or what is left in freed memory, when it is not the function's own; a
\* string becomes an address in the module.
Compile(f, a, executable) ==
    /\ f \in engine.todo /\ f \notin DOMAIN compiled /\ Fits(f)
    /\ a \notin DOMAIN pages
    /\ pages' = With(pages, a, [size |-> RoundedUp(CodeSize[module[f]]), name |-> f,
                                code |-> module[f], constants |-> constants,
                                executable |-> executable])
    /\ used' = used + Counted(CodeSize[module[f]])
    /\ compiled' = With(compiled, f, a)
    /\ protectFailed' = (protectFailed \/ ~executable)
    /\ strayed' = (strayed \/ (engine.mode = "hybrid" /\ constants /= loads))
    /\ IF executable THEN Registered(f, a) ELSE UNCHANGED table
    /\ Done(f)
    /\ UNCHANGED mapFailed /\ EngineSame

\* A full cache: allocate calls clear, which waits for the mutex allocate holds.
CompileStuck(f) ==
    /\ f \in engine.todo /\ f \notin DOMAIN compiled /\ ~Fits(f)
    /\ engine' = [mode |-> "stuck", todo |-> {f}]
    /\ UNCHANGED <<compiled, pages, used, table, protectFailed, mapFailed, strayed>>
    /\ EngineSame

Found == IF JitMain \notin DOMAIN table THEN "not registered"
         ELSE IF table[JitMain] \notin DOMAIN pages THEN "freed"
         ELSE IF ~pages[table[JitMain]].executable THEN "not executable"
         ELSE IF pages[table[JitMain]].name /= JitMain THEN "another function"
         ELSE IF pages[table[JitMain]].code /= module[JitMain] THEN "old code"
         ELSE IF pages[table[JitMain]].constants /= loads THEN "other constants"
         ELSE "main"

CallMain ==
    /\ engine = [mode |-> "jit", todo |-> {}]
    /\ lastCall' = Found
    /\ engine' = Idle
    /\ UNCHANGED <<module, compiled, pages, used, table, constants, hot, loads, clears,
                   reloaded, protectFailed, mapFailed, strayed>>

HybridEnds ==
    /\ engine = [mode |-> "hybrid", todo |-> {}]
    /\ engine' = Idle
    /\ UNCHANGED <<module, compiled, pages, used, table, constants, hot, loads, clears, history>>

\* The pages go, and jit_functions_ keeps their addresses.
PagesGo ==
    /\ engine = Idle /\ clears < MaxClears
    /\ clears' = clears + 1
    /\ compiled' = Empty /\ pages' = Empty /\ used' = 0
    /\ UNCHANGED <<module, table, engine, loads, history>>

\* clear_caches forgets the calls recorded as well.
ClearCaches == PagesGo /\ hot' = {} /\ UNCHANGED constants

\* update_config makes a new compiler, which knows no module.
UpdateConfig == PagesGo /\ constants' = 0 /\ UNCHANGED hot

JitNext ==
    \/ \E m \in Modules : LoadModule(m)
    \/ \E f \in JitFunctions :
         \/ RecordHotCall(f) \/ CompileCached(f) \/ CompileUnmapped(f) \/ CompileStuck(f)
         \/ \E a \in Addresses, executable \in BOOLEAN : Compile(f, a, executable)
    \/ ExecuteJit \/ ExecuteHybrid \/ CallMain \/ HybridEnds \/ ClearCaches
    \/ UpdateConfig

JitSpec == JitInit /\ [][JitNext]_jitVars

---------------------------------------------------------------------------
\* What pages hold together.
TotalSize(ps) == MapThenSumSet(LAMBDA a : ps[a].size, DOMAIN ps)

\* used_size_ is what the live pages hold, and exceeds max_size_ by less than a page
\* (allocate compares the size asked for and adds that of the pages).
JitTypeOK ==
    /\ DOMAIN compiled \subseteq JitFunctions /\ DOMAIN table \subseteq JitFunctions
    /\ DOMAIN pages \subseteq Addresses
    /\ used = TotalSize(pages)
    /\ used < CacheSize + Page

\* The compiler gives out addresses of live pages only, those of the code of that
\* name: clear_cache of MethodJITCompiler forgets names and pages together.
CompiledIsLive ==
    \A f \in DOMAIN compiled :
        compiled[f] \in DOMAIN pages /\ pages[compiled[f]].name = f

\* The engine gets stuck in allocate only when the pages that are live leave less
\* than the code asks for.
StuckOnlyWhenFull ==
    engine.mode = "stuck" =>
        \A f \in engine.todo : TotalSize(pages) + CodeSize[module[f]] > CacheSize

\* The code cache hands out live code of the right function, keeps to its limit,
\* and only stops the engine when it is full.
CodeCacheSound == JitTypeOK /\ CompiledIsLive /\ StuckOnlyWhenFull

\* main is called at an address that holds main of the loaded module, compiled with its
\* own constants, unless one of four things happened before: a module was loaded over
\* one that was compiled (the cache goes by name, and strings in the code go with the
\* module they were in), mprotect failed (the address stays
\* known), a compilation failed after the caches were cleared (the address of an
\* earlier run stays registered), or a hybrid execution compiled while the compiler
\* knew no module or another one (set_module is only called by execute_jit).
CallsMain ==
    lastCall \notin {"none", "main"} =>
        \/ lastCall = "old code" /\ reloaded
        \/ lastCall = "not executable" /\ protectFailed
        \/ lastCall \in {"freed", "another function", "old code", "other constants",
                           "not executable"}
             /\ (mapFailed \/ protectFailed) /\ clears > 0
        \/ lastCall = "other constants" /\ (strayed \/ reloaded)
        \/ lastCall = "not registered" /\ (mapFailed \/ protectFailed)

\* What the engine calls by address is what it was asked for, as far as its two
\* tables and the pages can be kept together (JITCompiler, ExecutionEngine).
EngineSound == CodeCacheSound /\ CallsMain
=============================================================================
