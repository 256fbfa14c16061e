------------------------------ MODULE TurnAuth ------------------------------
(***************************************************************************)
(* TURN credentials: the two places that issue them (the REST handlers of  *)
(* internal/api/handlers.go and the turn-request message of                *)
(* internal/signaling/server.go), the handler that accepts them            *)
(* (internal/turn/auth.go), and the file, the start and the SIGHUP that    *)
(* give both their secret (cmd/server/cmd_server.go).                      *)
(*                                                                         *)
(* A user name <type>:<id>:<expiry> is the record [plain, expiry], where   *)
(* plain says that neither the type nor the id holds a colon.  A password  *)
(* is an HMAC of the name, so it is named by the secret it is made with.   *)
(* AuthHandler.ttl is written by a reload and read nowhere: left out.      *)
(***************************************************************************)
EXTENDS Integers, Sequences, FiniteSets

CONSTANTS
    Secret,        \* the secrets an operator may choose
    NoSecret,      \* the empty string
    OldSecrets,    \* the lists of old secrets an operator may write
    Login,         \* the names an operator may list under static_users
    Password,      \* what such a name has for a password
    Ttl,           \* the lifetimes, in seconds, a request may ask for
    DefaultTtl,    \* turn.auth.ttl_seconds of the file
    MaxTime,       \* bound: half seconds the model runs
    MaxCreds       \* bound: credentials issued

ASSUME TurnAssumption ==
    /\ NoSecret \notin Secret
    /\ Ttl \subseteq Int /\ DefaultTtl \in Int
    /\ MaxTime \in Nat /\ MaxCreds \in Nat
    /\ OldSecrets \subseteq Seq(Secret \union {NoSecret})
    /\ \A u \in Login : u \notin [plain : BOOLEAN, expiry : Int]

VARIABLES
    now,       \* the clock, in half seconds: a unix time drops the odd one
    file,      \* turn.auth of the configuration file
    up,        \* the process runs
    issuer,    \* turnCfg.Auth.Secret, which no reload changes
    handler,   \* AuthHandler: mode, secret, old and logins
    creds,     \* credentials issued so far
    reloaded   \* a SIGHUP has replaced the handler's secrets since the start

vars == <<now, file, up, issuer, handler, creds, reloaded>>

AnySecret == Secret \union {NoSecret}
Name == [plain : BOOLEAN, expiry : Int]
Auth == [mode : {"rest", "static"}, secret : AnySecret, old : OldSecrets,
         logins : SUBSET Login]

(* maxFutureTime: 48 hours. *)
Horizon == 172800

(* validate: a REST file has a secret, a static one has users.             *)
Valid(f) == IF f.mode = "rest" THEN f.secret # NoSecret ELSE f.logins # {}

-----------------------------------------------------------------------------
(* Mutated Secrets: the old ones first.                                    *)
SecretsOldFirst == handler.old \o <<handler.secret>>

(* restAuth: the current secret, then the old ones.                        *)
Secrets == <<handler.secret>> \o handler.old

(* restAuth goes through them, skips the empty ones and returns at once.   *)
Usable == {i \in DOMAIN Secrets : Secrets[i] # NoSecret}
FirstUsable == {i \in Usable : \A j \in Usable : i <= j}

(* restAuth: SplitN cuts the name at its first two colons, so that one     *)
(* more leaves an expiry that does not parse.                              *)
Timely(u) == u.plain /\ 2 * u.expiry \in now..(now + 2 * Horizon)

(* The key restAuth gives the TURN library, if it gives one.               *)
RestKeys(u) ==
    IF Timely(u) THEN {<<u, Secrets[i]>> : i \in FirstUsable} ELSE {}

StaticKeys(u) == IF u \in handler.logins THEN {<<u, Password>>} ELSE {}

AuthenticateRequest(u) ==
    IF handler.mode = "rest"
    THEN IF u \in Login THEN {} ELSE RestKeys(u)
    ELSE StaticKeys(u)

(* The library lets a request in when its integrity checks with the key.   *)
Accepts(u, secret) == up /\ <<u, secret>> \in AuthenticateRequest(u)

-----------------------------------------------------------------------------
TypeOK ==
    /\ now \in 0..MaxTime
    /\ file \in Auth /\ handler \in Auth
    /\ up \in BOOLEAN /\ reloaded \in BOOLEAN
    /\ issuer \in AnySecret
    /\ creds \subseteq [name : Name, secret : AnySecret]

Init ==
    /\ now = 0
    /\ file \in Auth
    /\ up = FALSE /\ reloaded = FALSE
    /\ issuer = NoSecret
    /\ handler = file
    /\ creds = {}

(* The operator edits the file.                                            *)
EditConfig ==
    /\ file' \in Auth \ {file}
    /\ UNCHANGED <<now, up, issuer, handler, creds, reloaded>>

(* runServer: config.Load, then New of each server.  It exits on an error. *)
Start ==
    /\ ~up /\ Valid(file)
    /\ up' = TRUE /\ reloaded' = FALSE
    /\ issuer' = file.secret
    /\ handler' = file
    /\ UNCHANGED <<now, file, creds>>

Stop ==
    /\ up /\ up' = FALSE
    /\ UNCHANGED <<now, file, issuer, handler, creds, reloaded>>

(* Mutated UpdateSecrets: takes the users too; swaps its parameters.       *)
UpdateSecretsAll(f) == handler' = [f EXCEPT !.mode = handler.mode]
UpdateSecretsSwapped(f) ==
    handler' = [handler EXCEPT !.secret = f.old, !.old = f.secret]

(* UpdateSecrets: the mode and the static users stay.                      *)
UpdateSecrets(f) ==
    handler' = [handler EXCEPT !.secret = f.secret, !.old = f.old]

(* SIGHUP: a file that does not load changes nothing.                      *)
Reload ==
    /\ up /\ Valid(file)
    /\ UpdateSecrets(file)
    /\ reloaded' = TRUE
    /\ UNCHANGED <<now, file, up, issuer, creds>>

(* generateTURNCredentials.  A request that gives no lifetime, or a zero   *)
(* one, gets the configured one; no other is refused.                      *)
Lifetime(ttl) == IF ttl = 0 THEN DefaultTtl ELSE ttl

NewName(plain, ttl) == [plain |-> plain, expiry |-> (now \div 2) + Lifetime(ttl)]

Issue(plain, ttl) ==
    /\ up /\ Cardinality(creds) < MaxCreds
    /\ creds' = creds \union {[name |-> NewName(plain, ttl), secret |-> issuer]}
    /\ UNCHANGED <<now, file, up, issuer, handler, reloaded>>

Tick ==
    /\ now < MaxTime
    /\ now' = now + 1
    /\ UNCHANGED <<file, up, issuer, handler, creds, reloaded>>

Next ==
    \/ EditConfig \/ Start \/ Stop \/ Reload \/ Tick
    \/ \E plain \in BOOLEAN, ttl \in Ttl : Issue(plain, ttl)

Spec == Init /\ [][Next]_vars

-----------------------------------------------------------------------------
(* Until a reload, every credential the running server has issued, or that *)
(* an earlier run issued with the same secret, gets in for as long as it   *)
(* lasts: the issuers of two packages and the handler of a third agree on  *)
(* the secret, whatever the list of old ones (auth.go:111-141,             *)
(* handlers.go:191-204, server.go:442-451).                                *)
FreshAccepted ==
    up /\ ~reloaded /\ handler.mode = "rest" =>
        \A c \in creds :
            c.secret = issuer /\ Timely(c.name) => Accepts(c.name, c.secret)

(* A running server never turns away what it let in before, a credential   *)
(* with time left or a static user, as long as the current secret stays    *)
(* and, in REST mode, is not empty, as it is after a reload of a file in   *)
(* static mode: neither the passing of time nor a reload that changes the  *)
(* old secrets, the mode or the users of the file does (auth.go:60-183).   *)
TimeLeft(u) == u \in Login \/ 2 * u.expiry >= now
AcceptanceStable ==
    [][\A u \in {c.name : c \in creds} \union Login,
          s \in AnySecret \union {Password} :
          /\ Accepts(u, s) /\ up' /\ TimeLeft(u)'
          /\ handler'.secret = handler.secret
          /\ handler.mode = "rest" => handler.secret # NoSecret
          => Accepts(u, s)']_vars

(* A REST server with a current secret lets in the timely names that       *)
(* secret signs and no others: no old secret of the file is of use, and    *)
(* after a reload that brings a new one neither what was issued before nor *)
(* what the issuers go on issuing with the secret of the start gets in     *)
(* (auth.go:108-141, handlers.go:191-204).                                 *)
CurrentSecretDecides ==
    up /\ handler.mode = "rest" /\ handler.secret # NoSecret =>
        \A u \in Name, s \in AnySecret :
            Accepts(u, s) <=> Timely(u) /\ s = handler.secret

(* auth.go:111 of the loop over the secrets: "Try current and old          *)
(* secrets".  The loop returns in its first round, so that what an old     *)
(* secret signed is refused.                                               *)
OldSecretsAccepted ==
    up /\ handler.mode = "rest" =>
        \A c \in creds, i \in DOMAIN handler.old :
            /\ Timely(c.name)
            /\ c.secret = handler.old[i] /\ c.secret # NoSecret
            => Accepts(c.name, c.secret)

(* README.md:293: "SIGHUP - Reload TURN secrets without restart".  What    *)
(* the server issues after a reload it would itself refuse: the issuers    *)
(* keep the secret of the start.                                           *)
NextCredentialWorks ==
    up /\ handler.mode = "rest" /\ handler.secret # NoSecret =>
        Accepts(NewName(TRUE, 0), issuer)

-----------------------------------------------------------------------------
(* Where the secrets come from.                                            *)
SecretsOf(a) == <<a.secret, a.old>>
Settings == AnySecret \X OldSecrets
Offered == IF Valid(file) THEN SecretsOf(file) ELSE <<>>
InForce == IF up THEN SecretsOf(handler) ELSE <<>>

Rotation == INSTANCE SecretRotation
            WITH Setting <- Settings, Refused <- <<>>, Down <- <<>>,
                 IssuerPart <- [p \in Settings |-> p[1]],
                 file <- Offered, handler <- InForce,
                 issuer <- IF up THEN issuer ELSE <<>>

(* Handler and issuers get their secrets as SecretRotation says, as the    *)
(* process of module Process does: the old secrets come with the current   *)
(* one, and no reload reaches the issuers (auth.go:173-183).               *)
SecretsRotate == Rotation!Spec

=============================================================================
