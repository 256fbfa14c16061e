--------------------------- MODULE TurnAuthProofs ---------------------------
(***************************************************************************)
(* Theorems about TurnAuth: for any secrets, users and lifetimes; and that *)
(* it implements SecretRotation.                                           *)
(***************************************************************************)
EXTENDS TurnAuth, TLAPS

(* Until a reload the running handler is the start's: its secret is the    *)
(* issuers', and in REST mode it has one.                                  *)
InStep ==
    up /\ ~reloaded => /\ handler.secret = issuer
                       /\ Valid(handler)

AuthInv == TypeOK /\ InStep

LEMMA InitInv == ASSUME Init PROVE AuthInv
<1>1. now \in 0..MaxTime
  BY TurnAssumption DEF Init
<1>2. file \in Auth /\ handler \in Auth
  BY DEF Init
<1>3. up \in BOOLEAN /\ reloaded \in BOOLEAN /\ ~up
  BY Zenon DEF Init
<1>4. issuer \in AnySecret
  BY DEF Init, AnySecret
<1>5. creds \subseteq [name : Name, secret : AnySecret]
  BY DEF Init
<1>6. QED
  BY <1>1, <1>2, <1>3, <1>4, <1>5, Zenon DEF AuthInv, TypeOK, InStep

LEMMA NewNameType ==
    ASSUME TypeOK, NEW plain \in BOOLEAN, NEW ttl \in Ttl
    PROVE  NewName(plain, ttl) \in Name
BY TurnAssumption DEF TypeOK, NewName, Lifetime, Name

LEMMA StepInv == ASSUME AuthInv, [Next]_vars PROVE AuthInv'
<1> USE TurnAssumption DEF AuthInv, TypeOK, InStep, Valid
<1>1. CASE EditConfig
  BY <1>1 DEF EditConfig
<1>2. CASE Start
  BY <1>2 DEF Start, Auth
<1>3. CASE Stop
  BY <1>3 DEF Stop
<1>4. CASE Reload
  BY <1>4 DEF Reload, UpdateSecrets, Auth
<1>5. CASE Tick
  BY <1>5 DEF Tick
<1>6. ASSUME NEW plain \in BOOLEAN, NEW ttl \in Ttl, Issue(plain, ttl)
      PROVE  AuthInv'
  <2>1. NewName(plain, ttl) \in Name
    BY NewNameType
  <2>2. [name |-> NewName(plain, ttl), secret |-> issuer]
            \in [name : Name, secret : AnySecret]
    BY <2>1
  <2>3. creds' \subseteq [name : Name, secret : AnySecret]
    BY <1>6, <2>2 DEF Issue
  <2>4. UNCHANGED <<now, file, up, issuer, handler, reloaded>>
    BY <1>6 DEF Issue
  <2>5. QED
    BY <2>3, <2>4
<1>7. CASE UNCHANGED vars
  BY <1>7 DEF vars
<1>8. QED
  BY <1>1, <1>2, <1>3, <1>4, <1>5, <1>6, <1>7 DEF Next

(* The type invariant and its strengthening hold in every state.           *)
THEOREM Invariant == Spec => []AuthInv
<1>1. Init => AuthInv
  BY InitInv
<1>2. AuthInv /\ [Next]_vars => AuthInv'
  BY StepInv
<1>3. QED
  BY <1>1, <1>2, PTL DEF Spec

(* Every variable stays in its type.                                       *)
THEOREM TypeCorrect == Spec => []TypeOK
<1>1. AuthInv => TypeOK
  BY DEF AuthInv
<1>2. QED
  BY <1>1, Invariant, PTL

-----------------------------------------------------------------------------
(* A current secret that is not empty comes first.                         *)
LEMMA CurrentFirst ==
    TypeOK /\ handler.secret # NoSecret
        => FirstUsable = {1} /\ Secrets[1] = handler.secret
<1> SUFFICES ASSUME TypeOK, handler.secret # NoSecret
             PROVE  FirstUsable = {1} /\ Secrets[1] = handler.secret
  OBVIOUS
<1>1. handler.old \in Seq(AnySecret) /\ handler.secret \in AnySecret
  BY TurnAssumption DEF TypeOK, Auth, AnySecret
<1>2. Secrets \in Seq(AnySecret) /\ Len(Secrets) >= 1
  BY <1>1 DEF Secrets
<1>3. Secrets[1] = handler.secret
  BY <1>1 DEF Secrets
<1>4. 1 \in Usable /\ \A i \in Usable : i \in Nat /\ 1 <= i
  BY <1>2, <1>3 DEF Usable
<1>5. FirstUsable = {1}
  BY <1>4 DEF FirstUsable
<1>6. QED
  BY <1>3, <1>5

(* A timely name gets the key of the current secret.                       *)
LEMMA TimelyAccepted ==
    ASSUME TypeOK, up, handler.mode = "rest", handler.secret # NoSecret,
           NEW u \in Name \ Login, Timely(u)
    PROVE  Accepts(u, handler.secret)
BY CurrentFirst DEF Accepts, AuthenticateRequest, RestKeys

(* Until a reload the server accepts what it issues, for as long as it     *)
(* lasts, whatever the old secrets of the file.                            *)
THEOREM FreshCredentials == Spec => []FreshAccepted
<1>1. AuthInv => FreshAccepted
  <2> SUFFICES ASSUME AuthInv, up, ~reloaded, handler.mode = "rest",
                      NEW c \in creds, c.secret = issuer, Timely(c.name)
               PROVE  Accepts(c.name, c.secret)
    BY DEF FreshAccepted
  <2>1. handler.secret = issuer /\ handler.secret # NoSecret
    BY DEF AuthInv, InStep, Valid
  <2>2. c.name \in Name \ Login
    BY TurnAssumption DEF AuthInv, TypeOK, Name
  <2>3. QED
    BY <2>1, <2>2, TimelyAccepted DEF AuthInv
<1>2. QED
  BY <1>1, Invariant, PTL

(* The current secret alone decides: what any other secret signed, an old  *)
(* one of the file or the one of the start, the server refuses.            *)
THEOREM OnlyCurrentAccepted == Spec => []CurrentSecretDecides
<1>1. TypeOK => CurrentSecretDecides
  <2> SUFFICES ASSUME TypeOK, up, handler.mode = "rest",
                      handler.secret # NoSecret,
                      NEW u \in Name, NEW s \in AnySecret
               PROVE  Accepts(u, s) <=> Timely(u) /\ s = handler.secret
    BY DEF CurrentSecretDecides
  <2>1. u \notin Login
    BY TurnAssumption DEF Name
  <2>2. AuthenticateRequest(u) =
            IF Timely(u) THEN {<<u, handler.secret>>} ELSE {}
    BY <2>1, CurrentFirst DEF AuthenticateRequest, RestKeys
  <2>3. QED
    BY <2>2 DEF Accepts
<1>2. QED
  BY <1>1, TypeCorrect, PTL

-----------------------------------------------------------------------------
LEMMA CurrentFirstNext ==
    (TypeOK /\ handler.secret # NoSecret
        => FirstUsable = {1} /\ Secrets[1] = handler.secret)'
BY CurrentFirst, PTL

(* While the server runs, its mode and its users stay and time goes on.    *)
LEMMA RunningStep ==
    ASSUME TypeOK, [Next]_vars, up
    PROVE  /\ handler'.mode = handler.mode /\ handler'.logins = handler.logins
           /\ now \in Nat /\ now' \in Nat /\ now <= now'
<1> USE TurnAssumption DEF TypeOK, Auth
<1>1. CASE EditConfig
  BY <1>1 DEF EditConfig
<1>2. CASE Start
  BY <1>2 DEF Start
<1>3. CASE Stop
  BY <1>3 DEF Stop
<1>4. CASE Reload
  BY <1>4 DEF Reload, UpdateSecrets
<1>5. CASE Tick
  BY <1>5 DEF Tick
<1>6. ASSUME NEW plain \in BOOLEAN, NEW ttl \in Ttl, Issue(plain, ttl)
      PROVE  /\ handler'.mode = handler.mode
             /\ handler'.logins = handler.logins
             /\ now \in Nat /\ now' \in Nat /\ now <= now'
  BY <1>6 DEF Issue
<1>7. CASE UNCHANGED vars
  BY <1>7 DEF vars
<1>8. QED
  BY <1>1, <1>2, <1>3, <1>4, <1>5, <1>6, <1>7 DEF Next

LEMMA AcceptanceStep ==
    ASSUME TypeOK, TypeOK', [Next]_vars,
           NEW u \in {c.name : c \in creds} \union Login, NEW s,
           Accepts(u, s), up', TimeLeft(u)', handler'.secret = handler.secret,
           handler.mode = "rest" => handler.secret # NoSecret
    PROVE  Accepts(u, s)'
<1>1. up /\ <<u, s>> \in AuthenticateRequest(u)
  BY DEF Accepts
<1>2. /\ handler'.mode = handler.mode /\ handler'.logins = handler.logins
      /\ now \in Nat /\ now' \in Nat /\ now <= now'
  BY <1>1, RunningStep
<1>3. CASE handler.mode # "rest"
  <2>1. <<u, s>> \in StaticKeys(u)'
    BY <1>1, <1>2, <1>3 DEF AuthenticateRequest, StaticKeys
  <2>2. QED
    BY <1>2, <1>3, <2>1 DEF Accepts, AuthenticateRequest
<1>4. CASE handler.mode = "rest"
  <2>1. u \notin Login /\ <<u, s>> \in RestKeys(u)
    BY <1>1, <1>4 DEF AuthenticateRequest
  <2>2. Timely(u) /\ s = handler.secret
    BY <2>1, <1>4, CurrentFirst DEF RestKeys
  <2>3. u.expiry \in Int
    BY <2>1 DEF TypeOK, Name
  <2>4. Timely(u)'
    BY <1>2, <2>1, <2>2, <2>3 DEF Timely, TimeLeft, Horizon
  <2>5. FirstUsable' = {1} /\ Secrets'[1] = handler'.secret
    BY <1>4, CurrentFirstNext
  <2>6. <<u, s>> \in RestKeys(u)'
    BY <2>2, <2>4, <2>5 DEF RestKeys
  <2>7. QED
    BY <1>2, <1>4, <2>1, <2>6 DEF Accepts, AuthenticateRequest
<1>5. QED
  BY <1>3, <1>4

(* What a running server lets in it goes on letting in while the current   *)
(* secret stays, through reloads, edits and the passing of time.           *)
THEOREM AcceptanceKept == Spec => AcceptanceStable
<1>1. TypeOK /\ TypeOK' /\ [Next]_vars =>
        [\A u \in {c.name : c \in creds} \union Login,
            s \in AnySecret \union {Password} :
            /\ Accepts(u, s) /\ up' /\ TimeLeft(u)'
            /\ handler'.secret = handler.secret
            /\ handler.mode = "rest" => handler.secret # NoSecret
            => Accepts(u, s)']_vars
  BY AcceptanceStep
<1>2. QED
  BY <1>1, TypeCorrect, PTL DEF Spec, AcceptanceStable

-----------------------------------------------------------------------------
LEMMA SettingShape ==
    ASSUME NEW a \in Auth
    PROVE  /\ SecretsOf(a) \in Settings /\ SecretsOf(a) # <<>>
           /\ SecretsOf(a)[1] = a.secret
BY DEF Auth, SecretsOf, Settings

(* Every step does to handler, issuers and file what SecretRotation does.  *)
LEMMA RotationStep ==
    ASSUME TypeOK, TypeOK', [Next]_vars
    PROVE  [Rotation!Next]_(Rotation!rotationVars)
<1> USE DEF TypeOK, Rotation!Next, Rotation!rotationVars
<1>1. /\ SecretsOf(file) \in Settings /\ SecretsOf(file) # <<>>
      /\ SecretsOf(file)' \in Settings
      /\ SecretsOf(file)[1] = file.secret /\ SecretsOf(handler) # <<>>
  BY SettingShape DEF SecretsOf
<1>2. CASE EditConfig
  <2>1. Offered' \in Settings \cup {<<>>}
    BY <1>1 DEF Offered
  <2> QED
    BY <1>2, <2>1 DEF EditConfig, Rotation!Write, InForce, SecretsOf
<1>3. CASE Start
  BY <1>1, <1>3 DEF Start, Rotation!Start, InForce, Offered, SecretsOf
<1>4. CASE Stop
  BY <1>1, <1>4 DEF Stop, Rotation!Stop, InForce, Offered, SecretsOf
<1>5. CASE Reload
  <2>1. SecretsOf(handler)' = SecretsOf(file)
    BY <1>5 DEF Reload, UpdateSecrets, SecretsOf, Auth
  <2>2. up /\ up' /\ InForce' = Offered /\ InForce # <<>> /\ Offered # <<>>
    BY <1>1, <1>5, <2>1 DEF Reload, InForce, Offered
  <2> QED
    BY <1>5, <2>2 DEF Reload, Rotation!Reload, Offered, SecretsOf
<1>6. CASE Tick \/ \E plain \in BOOLEAN, ttl \in Ttl : Issue(plain, ttl)
  BY <1>6 DEF Tick, Issue, InForce, Offered, SecretsOf
<1>7. CASE UNCHANGED vars
  BY <1>7 DEF vars, InForce, Offered, SecretsOf
<1> QED
  BY <1>2, <1>3, <1>4, <1>5, <1>6, <1>7 DEF Next

(* TurnAuth implements SecretRotation, with the reload as one step; module *)
(* ProcessProofs has the same of the two steps it is made of.              *)
THEOREM AuthRotates == Spec => SecretsRotate
<1>1. ASSUME Init PROVE Rotation!Init
  BY <1>1, SettingShape DEF Init, Rotation!Init, Offered, InForce
<1> QED
  BY <1>1, RotationStep, TypeCorrect, PTL DEF Spec, SecretsRotate, Rotation!Spec

=============================================================================
