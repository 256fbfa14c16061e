--------------------------- MODULE MCAcmeManager ----------------------------
(* An instance of AcmeManager.  A certificate lives four days, is reused   *)
(* while more than two are left and renewed when less are; on the day in   *)
(* between it is neither.                                                  *)
EXTENDS AcmeManager
=============================================================================
