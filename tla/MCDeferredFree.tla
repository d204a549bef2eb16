---------------------------- MODULE MCDeferredFree ----------------------------
(* No prefix cache: there are no keys. *)
EXTENDS DeferredFree, TLC
MCKeys == {}
MCKeyTokens == [k \in MCKeys |-> 0]
===============================================================================
