------------------------------ MODULE MCLayerWalk ------------------------------
(* Four layers and three prompts; two device pools; a walk that keeps its  *)
(* states and one that retires them.                                       *)
EXTENDS LayerWalk

MCShards == 1 .. 3
MCPools == {"one", "two"}
MCModes == BOOLEAN
=============================================================================
