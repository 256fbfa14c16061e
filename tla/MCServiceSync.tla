--------------------------- MODULE MCServiceSync ----------------------------
(* Instances of ServiceSync.                                               *)
EXTENDS ServiceSync, TLC

CONSTANTS c1, c2, e1, e2

\* Two edges.
MCTwoEdges == c1 :> e1 @@ c2 :> e2

=============================================================================
