---- MODULE MCHandlerDispatch ----
(* A small instance of HandlerDispatch for TLC. *)
EXTENDS HandlerDispatch, TLC

Alike == Permutations(Names) \union Permutations(Handlers) \union Permutations(Msgs)
==================================
