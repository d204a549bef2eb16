------------------------------ MODULE MCScheduler ------------------------------
(* r1 and r2 begin with the same Shared tokens, all other tokens are different: *)
(* the prefix of p tokens of r is the pair << owner, p >>.                      *)
EXTENDS Scheduler
CONSTANTS r1, r2, r3, common, Shared, Prompts, LongPrompts, Outputs
Owner(r, p) == IF r # r3 /\ p <= Shared THEN common ELSE r
MCPrefix == [r \in Requests |-> [p \in 1 .. MaxModelLen |-> << Owner(r, p), p >>]]
MCKeys == {<< Owner(r, p), p >> : r \in Requests, p \in 1 .. MaxModelLen}
MCKeyTokens == [k \in MCKeys |-> k[2]]
MCPriority == [r \in Requests |-> CASE r = r1 -> 1 [] r = r2 -> 2 [] r = r3 -> 3]
MCPromptLen == [r \in Requests |-> IF r = r1 THEN Prompts ELSE LongPrompts]
MCMaxTokens == [r \in Requests |-> Outputs]
================================================================================
