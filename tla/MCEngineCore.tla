---------------------------- MODULE MCEngineCore ----------------------------
(* Instances of EngineCore for TLC. *)
EXTENDS EngineCore
CONSTANTS r1, r2, c1, c2

MCMaxTokens == [r \in Requests |-> IF r = r1 THEN 2 ELSE 1]

Scenario(requests, calls, kinds, abortOnExit) ==
    [requests |-> requests, calls |-> calls, kinds |-> kinds,
     abortOnExit |-> abortOnExit]

\* Two requests and a pause, with a shutdown that aborts; pauses, sleeps and
\* wake-ups one after the other, with a shutdown that drains.
MCScenarios ==
    {Scenario({r1, r2}, {c1}, {"wait"}, TRUE),
     Scenario({r1}, {c1, c2}, {"keep", "sleep", "wake_up", "wake_part"}, FALSE)}

=============================================================================
