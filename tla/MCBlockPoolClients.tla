-------------------------- MODULE MCBlockPoolClients --------------------------
(* One prefix chain at a boundary inside a block of three tokens and at its    *)
(* end; the two requests are interchangeable.                                  *)
EXTENDS BlockPoolClients, TLC
CONSTANTS two, three
MCKeys == {two, three}
MCKeyTokens == [k \in MCKeys |-> IF k = two THEN 2 ELSE 3]
Interchangeable == Permutations(Requests)
==============================================================================
