----------------------------- MODULE MCProcess ------------------------------
(***************************************************************************)
(* An instance of Process for TLC: two runs of the key tool, one edit.     *)
(* The process may start again and again, and signals come without limit.  *)
(***************************************************************************)
EXTENDS Process

CONSTANTS t1, t2

\* The edit enables ACME.
MCWithAcme == {1}

=============================================================================
