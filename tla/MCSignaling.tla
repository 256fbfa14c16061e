---------------------------- MODULE MCSignaling -----------------------------
(***************************************************************************)
(* Instances of Signaling for TLC.  The bound is the number of sessions:   *)
(* each runs once through its life, so the state space is finite.          *)
(***************************************************************************)
EXTENDS SignalingProps, TLC

CONSTANTS s1, s2, a

\* Two sessions of one id: a reconnect.
MCReconnect == s1 :> a @@ s2 :> a

=============================================================================
