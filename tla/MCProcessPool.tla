----------------------------- MODULE MCProcessPool -----------------------------
(* Three workers; calls that concern all of them, two of them, and one of them *)
(* by its place in an assignment domain, of which it is the rest.              *)
EXTENDS ProcessPool

MCWorkers == 0 .. 2
Ordinary(experts) == [e \in experts |-> e]
Assigned(experts, sample) == [e \in experts |-> CHOOSE i \in 0 .. Len(sample) - 1 : sample[i + 1] = e]
MCDomains == {Ordinary(0 .. 3), Ordinary({1, 2}), Assigned({6}, << 2, 6 >>)}
=============================================================================
