----------------------------- MODULE MCTurnAuth -----------------------------
(* Instances of TurnAuth: two secrets, one static user, lifetimes at the   *)
(* edges of what restAuth accepts.                                         *)
EXTENDS TurnAuth

CONSTANTS s1, s2

MCOldSecrets == {<<>>, <<NoSecret, s2>>}
MCTtl == {-1, 0, Horizon, Horizon + 1}
=============================================================================
