---------------------------- MODULE MCForwarding ----------------------------
(***************************************************************************)
(* Instances of Forwarding for TLC.  A session runs once; Quota and Cap  *)
(* bound what its peer sends and what its socket holds.                    *)
(***************************************************************************)
EXTENDS Forwarding, TLC

CONSTANTS s1, s2, s3, a, b

\* A peer that reconnects, and one that sends to it.
MCIdOf == s1 :> a @@ s2 :> a @@ s3 :> b

MCMaySend == s1 :> {b, Reply, Ignored} @@ s2 :> {} @@ s3 :> {a}

\* Two messages of one sender, so that there is an order to keep.
MCQuota == s1 :> 1 @@ s2 :> 0 @@ s3 :> 2

=============================================================================
