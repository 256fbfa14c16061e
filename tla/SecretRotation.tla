--------------------------- MODULE SecretRotation ---------------------------
(***************************************************************************)
(* What the configuration file is to the two that use the TURN secrets: a  *)
(* start gives both what the file holds; a reload gives it, at one moment  *)
(* and as a whole, to the authentication handler alone; a file that is     *)
(* refused changes nothing; and nothing else reaches either of them while  *)
(* the process runs.                                                       *)
(*                                                                         *)
(* Process implements it with a reload in two steps, between which the     *)
(* file may change.  TurnAuth implements it with one, and is about what    *)
(* handler and issuers do with it.                                         *)
(***************************************************************************)
CONSTANTS
    Setting,     \* what a file may hold that is accepted
    Refused,     \* a file that is not
    Down,        \* what handler and issuers have without a process
    IssuerPart   \* the part of a setting that issuers take

VARIABLES file, issuer, handler

rotationVars == <<file, issuer, handler>>

Init ==
    /\ file \in Setting \cup {Refused}
    /\ issuer = Down /\ handler = Down

\* By the operator or the key tool.
Write ==
    /\ file' \in Setting \cup {Refused}
    /\ UNCHANGED <<issuer, handler>>

Start ==
    /\ handler = Down /\ file # Refused
    /\ handler' = file
    /\ issuer' = IssuerPart[file]
    /\ UNCHANGED file

Reload ==
    /\ handler # Down /\ file # Refused
    /\ handler' = file
    /\ UNCHANGED <<file, issuer>>

Stop ==
    /\ handler # Down
    /\ handler' = Down /\ issuer' = Down
    /\ UNCHANGED file

Next == Write \/ Start \/ Reload \/ Stop

Spec == Init /\ [][Next]_rotationVars

=============================================================================
