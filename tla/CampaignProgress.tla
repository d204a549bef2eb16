--------------------------- MODULE CampaignProgress ---------------------------
(***************************************************************************)
(* What a quantization campaign promises to whoever reads its journal: the *)
(* stages of the plan are accepted one after another; a failed gate may    *)
(* start a new generation, which takes back everything from the allocation *)
(* on and nothing before it; a finished campaign does not change any more. *)
(***************************************************************************)
EXTENDS Naturals, Sequences

CONSTANTS
    StageOrder,     \* the stages of the plan
    GateStages,     \* those whose result may send the campaign back
    Allocation,     \* the stage a new generation starts with
    MaxGenerations

VARIABLES generation, accepted, finished

progress == << generation, accepted, finished >>

IndexOfStage(s) == CHOOSE i \in DOMAIN StageOrder : StageOrder[i] = s

Init ==
    /\ generation = 0
    /\ accepted = << >>
    /\ finished = FALSE

AcceptStage ==
    /\ ~finished
    /\ Len(accepted) < Len(StageOrder)
    /\ accepted' = Append(accepted, StageOrder[Len(accepted) + 1])
    /\ UNCHANGED << generation, finished >>

Replan ==
    /\ ~finished
    /\ accepted # << >>
    /\ accepted[Len(accepted)] \in GateStages
    /\ generation + 1 < MaxGenerations
    /\ generation' = generation + 1
    /\ accepted' = SubSeq(accepted, 1, IndexOfStage(Allocation) - 1)
    /\ UNCHANGED finished

Finish ==
    /\ ~finished
    /\ accepted = StageOrder
    /\ finished' = TRUE
    /\ UNCHANGED << generation, accepted >>

Next == AcceptStage \/ Replan \/ Finish

Spec == Init /\ [][Next]_progress
===============================================================================
