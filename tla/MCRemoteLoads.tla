---------------------------- MODULE MCRemoteLoads ----------------------------
(* r1 and r2 begin with the same Shared tokens. *)
EXTENDS RemoteLoads
CONSTANTS r1, r2, r3, common, Shared, Prompts, Outputs
Owner(r, p) == IF r # r3 /\ p <= Shared THEN common ELSE r
MCPrefix == [r \in Requests |-> [p \in 1 .. MaxModelLen |-> << Owner(r, p), p >>]]
MCKeys == {<< Owner(r, p), p >> : r \in Requests, p \in 1 .. MaxModelLen}
MCKeyTokens == [k \in MCKeys |-> k[2]]
MCPriority == [r \in Requests |-> CASE r = r1 -> 1 [] r = r2 -> 2 [] r = r3 -> 3]
MCPromptLen == [r \in Requests |-> Prompts]
MCMaxTokens == [r \in Requests |-> Outputs]

\* Engines to start: with loads that are waited for, of all of the prompts or of
\* their beginning, with loads of r2 in the forward pass, and with a connector
\* that offers a prefix again.
Engine(policy, onFailure, async, remote, retries) ==
    [policy |-> policy, onFailure |-> onFailure, async |-> async \cap Requests,
     remote |-> [r \in Requests |-> remote], retries |-> retries]
MCDeployments ==
    {Engine("fcfs", f, {r1, r2}, n, FALSE) :
        f \in {"recompute", "fail"}, n \in {Prompts - 1, Prompts}}
      \cup {Engine(p, "recompute", {r1, r2}, Prompts, TRUE) : p \in {"fcfs", "priority"}}
      \cup {Engine("fcfs", f, {r1}, Prompts, FALSE) : f \in {"recompute", "fail"}}
MCForwardPass == {Engine("fcfs", f, {}, Prompts, FALSE) : f \in {"recompute", "fail"}}
MCRetries == {Engine("fcfs", "recompute", {r1, r2}, Prompts, TRUE)}
=============================================================================
