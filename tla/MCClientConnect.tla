-------------------------- MODULE MCClientConnect ---------------------------
(***************************************************************************)
(* Instances of ClientConnect for TLC.  Every request and every session    *)
(* runs once, so the state space is finite; a retry is a second request.   *)
(***************************************************************************)
EXTENDS ClientConnectProps, TLC

CONSTANTS r1, r2, k1, e1, e2, edge

\* One client asks as often as there are requests.
MCRetry == [r \in Request |-> k1]

\* Everybody asks for the edge.
MCAskEdge == [r \in Request |-> edge]

\* Every session announces one id: an edge that reconnects.
MCIds == [e \in Session |-> edge]

=============================================================================
