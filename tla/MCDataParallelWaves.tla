------------------------ MODULE MCDataParallelWaves ------------------------
(* Instances of DataParallelWaves for TLC. *)
EXTENDS DataParallelWaves
CONSTANTS q1, q2

\* Two requests around a pause that keeps them; every mode, with requests also
\* sent during the resume and a coordinator that lags.
MCScenarios ==
    {[requests |-> {q1, q2}, modes |-> {"keep"}, sendIn |-> {"none", "pause"},
      lag |-> FALSE],
     [requests |-> {q1}, modes |-> {"abort", "wait", "keep"},
      sendIn |-> {"none", "pause", "resume"}, lag |-> TRUE]}

=============================================================================
