------------------------------ MODULE Toolchain ------------------------------
(* What a program goes through around the virtual machine: the caches of the    *)
(* compiler driver, the parser, the engine that compiles functions to machine   *)
(* code and the registers it gives their locals, the channels and streams of    *)
(* the running program, the manager of the packages it needs, and the language  *)
(* server of the editor it is written in. Each of them runs by itself here:     *)
(* they share no state, only what one hands to the next.                        *)
EXTENDS CompileCaches, Parser, JitEngine, LinearScan, Streams, Packages,
        LanguageServer

VARIABLE part

toolchainVars == <<cacheVars, parserVars, jitVars, scanVars, streamVars, pkgVars, lspVars, part>>

Parts == {"caches", "parser", "jit", "registers", "streams", "packages", "editor"}

\* Where the parts begin that are not at work.
SomeText == CHOOSE t \in Texts : TRUE
SomeSpans == Intervals(CHOOSE code \in Codes : TRUE)
SomeRegistry == CHOOSE r \in Registries : TRUE
SomeManifest == CHOOSE m \in Manifests : TRUE
SomeStrategy == CHOOSE s \in Strategies : TRUE

Init ==
    /\ part \in Parts
    /\ part = "registers" \/ span = SomeSpans
    /\ ScanInit
    /\ CacheInit /\ JitInit /\ StreamsInit
    /\ ParserInit /\ (part # "parser" => source = SomeText)
    /\ PackagesInit /\ LspInit
    /\ part # "packages" =>
          published = SomeRegistry /\ manifest = SomeManifest /\ strategy = SomeStrategy

Next ==
    /\ UNCHANGED part
    /\ \/ /\ part = "caches" /\ CacheNext
          /\ UNCHANGED <<parserVars, jitVars, scanVars, streamVars, pkgVars, lspVars>>
       \/ /\ part = "parser" /\ ParserNext
          /\ UNCHANGED <<cacheVars, jitVars, scanVars, streamVars, pkgVars, lspVars>>
       \/ /\ part = "jit" /\ JitNext
          /\ UNCHANGED <<cacheVars, parserVars, scanVars, streamVars, pkgVars, lspVars>>
       \/ /\ part = "registers" /\ ScanNext
          /\ UNCHANGED <<cacheVars, parserVars, jitVars, streamVars, pkgVars, lspVars>>
       \/ /\ part = "streams" /\ StreamsNext
          /\ UNCHANGED <<cacheVars, parserVars, jitVars, scanVars, pkgVars, lspVars>>
       \/ /\ part = "packages" /\ PackagesNext
          /\ UNCHANGED <<cacheVars, parserVars, jitVars, scanVars, streamVars, lspVars>>
       \/ /\ part = "editor" /\ LspNext
          /\ UNCHANGED <<cacheVars, parserVars, jitVars, scanVars, streamVars, pkgVars>>

Spec == Init /\ [][Next]_toolchainVars
=============================================================================
