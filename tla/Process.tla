------------------------------- MODULE Process -------------------------------
(***************************************************************************)
(* The life of the server process (cmd/server/cmd_server.go): it loads the *)
(* configuration, starts its components one after the other, waits for     *)
(* signals, reloads on SIGHUP, and on SIGTERM stops what it has started by *)
(* the deferred calls of runServer, in reverse order.                      *)
(*                                                                         *)
(* Around it: the operator, who edits the file and sends signals, the key  *)
(* tool (module ConfigFile), and REST clients, whose requests use the      *)
(* other components.  The process may crash and be started again.          *)
(*                                                                         *)
(* The API server listens in a goroutine of its own, which may get there   *)
(* late: after the main goroutine has received a signal and has called     *)
(* Stop, which then finds nothing to shut down (a listener of fasthttp can *)
(* only be shut down once it is there).                                    *)
(***************************************************************************)
EXTENDS ConfigFile

CONSTANTS
    WithAcme,  \* the versions of the settings that enable ACME
    Unusable   \* those that config.Load refuses

ASSUME ProcessAssumption ==
    /\ WithAcme \in SUBSET Version
    /\ Unusable \in SUBSET Version
    /\ 0 \notin Unusable   \* the default configuration is valid

VARIABLES
    srv,      \* the main goroutine
    up,       \* the components that have been started and not stopped
    booted,   \* the version of the settings of the start
    secrets,  \* the version whose secrets the TURN authenticator uses
    read,     \* what a reload has read from the file
    sigs,     \* sigChan, which holds one signal
    sockets,  \* the sockets of the TURN server
    listen,   \* the goroutine of the API server
    busy      \* a REST request is being served

procVars == <<srv, up, booted, secrets, read, sigs, sockets, listen, busy>>
vars == <<fileVars, procVars>>

\* The order of the calls in runServer.
Rank == [acme |-> 1, turn |-> 2, store |-> 3, signaling |-> 4, api |-> 5]
Component == {"acme", "turn", "store", "signaling", "api"}

Socket == {"udp", "tcp", "tls"}

TypeOK ==
    /\ FileTypeOK
    /\ srv \in {"down", "starting", "serving", "reloading", "applying", "stopping"}
    /\ up \in SUBSET Component
    /\ booted \in IF srv = "down" THEN {Lost} ELSE Version \ Unusable
    /\ secrets \in IF srv = "down" THEN {Lost} ELSE Version \ Unusable
    /\ read \in (Version \ Unusable) \cup {Lost}
    /\ sigs \in {"none", "HUP", "TERM"}
    /\ sockets \in SUBSET Socket
    /\ listen \in {"no", "yes", "closed", "late"}
    /\ busy \in BOOLEAN

Init ==
    /\ FileInit
    /\ srv = "down"
    /\ up = {}
    /\ booted = Lost
    /\ secrets = Lost
    /\ read = Lost
    /\ sigs = "none"
    /\ sockets = {}
    /\ listen = "no"
    /\ busy = FALSE

-----------------------------------------------------------------------------
(* Definitions that the actions share.                                     *)

\* config.Load succeeds: YAML, and all that validate asks for.
Loads(f) == Readable(f) /\ f.version \in Version \ Unusable

\* ACME is a component only where the settings enable it.
Needed == {c \in Component : c = "acme" => booted \in WithAcme}

Before(c) == {d \in Component : Rank[d] < Rank[c]}

\* The component that runServer starts next, if any.
IsNext(c) == c \in Needed \ up /\ Before(c) \cap Needed \subseteq up

\* What the TURN server must have open: TLS only with the ACME certificate.
Required == {"udp", "tcp"}
            \cup (IF booted \in WithAcme THEN {"tls"} ELSE {})

\* The process is gone, with all it had in memory.
Gone ==
    /\ srv' = "down"
    /\ up' = {}
    /\ booted' = Lost
    /\ secrets' = Lost
    /\ read' = Lost
    /\ sigs' = "none"
    /\ sockets' = {}
    /\ listen' = "no"
    /\ busy' = FALSE

-----------------------------------------------------------------------------
(* Start: config.Load, the check for a key, the components.                *)

Boot ==
    /\ srv = "down"
    /\ Loads(file)
    /\ file.key # NoKey
    /\ srv' = "starting"
    /\ booted' = file.version
    /\ secrets' = file.version
    /\ UNCHANGED <<fileVars, up, read, sigs, sockets, listen, busy>>

\* turn.Start opens its sockets (those for IPv6 are optional and left out).
StartComponent(c) ==
    /\ srv = "starting"
    /\ IsNext(c)
    /\ up' = up \cup {c}
    /\ sockets' = IF c = "turn" THEN Required ELSE sockets
    /\ UNCHANGED <<fileVars, srv, booted, secrets, read, sigs, listen, busy>>

\* os.Exit: the deferred calls do not run.
StartFails ==
    /\ srv = "starting"
    /\ \E c \in {"acme", "turn", "store"} : IsNext(c)
    /\ Gone
    /\ UNCHANGED fileVars

\* signal.Notify, the last thing before the main loop.
Notify ==
    /\ srv = "starting"
    /\ Needed \subseteq up
    /\ srv' = "serving"
    /\ UNCHANGED <<fileVars, up, booted, secrets, read, sigs, sockets, listen,
                   busy>>

\* apiServer.Start, in its goroutine, unless the port is taken.
Listen ==
    /\ srv # "down"
    /\ listen = "no"
    /\ "api" \in up \/ srv = "stopping"
    /\ listen' = IF "api" \in up THEN "yes" ELSE "late"
    /\ UNCHANGED <<fileVars, srv, up, booted, secrets, read, sigs, sockets, busy>>

-----------------------------------------------------------------------------
(* Signals.  Until Notify each of them ends the process.  Afterwards the   *)
(* runtime puts them into sigChan if there is room, and drops them if not. *)

Enqueue(sig) == sigs' = IF sigs = "none" THEN sig ELSE sigs

OperatorSends(sig) ==
    /\ srv \notin {"down", "starting"}
    /\ Enqueue(sig)
    /\ UNCHANGED <<fileVars, srv, up, booted, secrets, read, sockets, listen,
                   busy>>

\* Mutated form: the case of SIGTERM leaves the switch, but not the loop.
ReceiveAndGoOn ==
    /\ srv = "serving"
    /\ sigs # "none"
    /\ srv' = IF sigs = "HUP" THEN "reloading" ELSE "serving"
    /\ sigs' = "none"
    /\ UNCHANGED <<fileVars, up, booted, secrets, read, sockets, listen, busy>>

Receive ==
    /\ srv = "serving"
    /\ sigs # "none"
    /\ srv' = IF sigs = "HUP" THEN "reloading" ELSE "stopping"
    /\ sigs' = "none"
    /\ UNCHANGED <<fileVars, up, booted, secrets, read, sockets, listen, busy>>

\* Mutated form: the error of config.Load is not looked at.
ReloadReadsUnchecked ==
    /\ srv = "reloading"
    /\ srv' = "applying"
    /\ read' = file.version
    /\ UNCHANGED <<fileVars, up, booted, secrets, sigs, sockets, listen, busy>>

\* config.Load again; what it refuses changes nothing.
ReloadReads ==
    /\ srv = "reloading"
    /\ IF Loads(file)
       THEN srv' = "applying" /\ read' = file.version
       ELSE srv' = "serving" /\ UNCHANGED read
    /\ UNCHANGED <<fileVars, up, booted, secrets, sigs, sockets, listen, busy>>

\* Mutated form: a SIGHUP that has come during the reload counts as done.
ReloadAppliesAndDrains ==
    /\ srv = "applying"
    /\ srv' = "serving"
    /\ secrets' = read
    /\ read' = Lost
    /\ sigs' = IF sigs = "HUP" THEN "none" ELSE sigs
    /\ UNCHANGED <<fileVars, up, booted, sockets, listen, busy>>

\* turnServer.UpdateSecrets: of all settings only these take effect.
ReloadApplies ==
    /\ srv = "applying"
    /\ srv' = "serving"
    /\ secrets' = read
    /\ read' = Lost
    /\ UNCHANGED <<fileVars, up, booted, sigs, sockets, listen, busy>>

-----------------------------------------------------------------------------
(* Stop.                                                                   *)

\* Mutated form: components are stopped in the order of their start.
StopInStartOrder(c) ==
    /\ srv = "stopping"
    /\ c \in up
    /\ \A d \in up : d \notin Before(c)
    /\ c = "api" /\ listen = "yes" => ~busy
    /\ up' = up \ {c}
    /\ listen' = IF c = "api" /\ listen = "yes" THEN "closed" ELSE listen
    /\ sockets' = IF c = "turn" THEN {} ELSE sockets
    /\ UNCHANGED <<fileVars, srv, booted, secrets, read, sigs, busy>>

\* Shutdown of the API server takes no more requests and waits for those it
\* has, if its goroutine has come to listen.
StopComponent(c) ==
    /\ srv = "stopping"
    /\ c \in up
    /\ \A d \in up : c \notin Before(d)
    /\ c = "api" /\ listen = "yes" => ~busy
    /\ up' = up \ {c}
    /\ listen' = IF c = "api" /\ listen = "yes" THEN "closed" ELSE listen
    /\ sockets' = IF c = "turn" THEN {} ELSE sockets
    /\ UNCHANGED <<fileVars, srv, booted, secrets, read, sigs, busy>>

\* main returns, and ends whatever still runs.
Exit ==
    /\ srv = "stopping"
    /\ up = {}
    /\ Gone
    /\ UNCHANGED fileVars

\* A crash, SIGKILL, or a signal before Notify.
Crash ==
    /\ srv # "down"
    /\ Gone
    /\ UNCHANGED fileVars

-----------------------------------------------------------------------------
(* REST requests, which pass the key check of the start.                   *)

RequestBegins ==
    /\ ~busy
    /\ listen = "late" \/ (listen = "yes" /\ srv # "stopping")
    /\ busy' = TRUE
    /\ UNCHANGED <<fileVars, srv, up, booted, secrets, read, sigs, sockets,
                   listen>>

RequestEnds ==
    /\ busy
    /\ busy' = FALSE
    /\ UNCHANGED <<fileVars, srv, up, booted, secrets, read, sigs, sockets,
                   listen>>

-----------------------------------------------------------------------------

\* The main goroutine, once it has started.
Main ==
    \/ Receive \/ ReloadReads \/ ReloadApplies \/ Exit
    \/ \E c \in Component : StopComponent(c)

Server ==
    \/ Boot \/ StartFails \/ Notify \/ Listen \/ Main \/ Crash
    \/ \E c \in Component : StartComponent(c)

Next ==
    \/ Server
    \/ RequestBegins \/ RequestEnds
    \/ \E sig \in {"HUP", "TERM"} : OperatorSends(sig)
    \/ FileNext /\ UNCHANGED procVars

Spec == Init /\ [][Next]_vars

(* The main goroutine goes on once it has started, except that it waits    *)
(* for the end of a request, which no time-out bounds, and in the Stop of  *)
(* the signaling server for s.mu, which may never become free (module      *)
(* ClientConnect).  Nothing is assumed of the operator, the tool, the      *)
(* requests, and the start.                                                *)
Fairness == WF_vars(
    \/ Receive \/ ReloadReads \/ ReloadApplies \/ Exit
    \/ \E c \in Component \ {"signaling"} : StopComponent(c))

FairSpec == Spec /\ Fairness

-----------------------------------------------------------------------------
(* What the process promises.                                              *)

\* As long as a request is served, all that it may use is there: the storage,
\* the signaling server, and the TURN sockets its answer sends the client to
\* (the deferred calls run in reverse order, and Shutdown waits).  It does not
\* hold for requests to a server that came to listen after its Stop.
RequestsServed ==
    busy /\ listen # "late" =>
        /\ {"store", "signaling", "turn"} \subseteq up
        /\ Required \subseteq sockets

\* A SIGHUP brings the settings that are in the file while it waits, also one
\* that is dropped because another one waits, or that comes in the middle of a
\* reload: unless the process stops, the settings change again, or the file
\* cannot be loaded for a time, as in the middle of a key rewrite.
ReloadTakesEffect == \A v \in Version \ Unusable :
    sigs = "HUP" /\ latest = v ~> \/ secrets = v
                                 \/ srv \in {"down", "stopping"}
                                 \/ latest # v \/ raced \/ ~Loads(file)

\* Stop is held up where its two unbounded waits are: by a request that is
\* still being served (Shutdown), and for s.mu (Stop of the signaling server).
HeldByRequest == srv = "stopping" /\ "api" \in up /\ busy
HeldByLock == srv = "stopping" /\ "api" \notin up /\ "signaling" \in up

\* A SIGTERM in the channel ends the process, whatever it is doing, unless one
\* of these two waits never ends: nothing else can keep it, neither reloads
\* and further signals nor a late listener and its requests.
StopHonoured == sigs = "TERM" ~>
    srv = "down" \/ []HeldByRequest \/ []HeldByLock

-----------------------------------------------------------------------------
(* Where the TURN secrets come from.                                       *)

Offered == IF Loads(file) THEN file.version ELSE Lost

\* A reload counts from its read on.
InForce == IF srv = "applying" THEN read ELSE secrets

Rotation == INSTANCE SecretRotation
            WITH Setting <- Version \ Unusable, Refused <- Lost, Down <- Lost,
                 IssuerPart <- [v \in Version \ Unusable |-> v],
                 file <- Offered, issuer <- booted, handler <- InForce

\* The two steps of a reload are one for all who use the secrets: what happens
\* to the file between them, by the operator or by the key tool, does not get
\* through, and what the file never held is never in force.
SecretsRotate == Rotation!Spec

=============================================================================
