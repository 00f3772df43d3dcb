-------------------------- MODULE MCPipelineBoard --------------------------
(* Boards over two deals and two stages for TLC. *)
EXTENDS PipelineBoard, TLC

CONSTANTS b1, b2, r1, r2, r3, open, won

Symmetry == Permutations(Boards) \cup Permutations(Requests) \cup Permutations(Stages)

=============================================================================
