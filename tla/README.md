# A TLA+ verification of the ArqTurn server

ArqTurn is a TURN server with a WebRTC signaling server and a REST API in one Go
process. This directory holds TLA+ models of the parts of it that have behaviour
worth checking, TLC configurations that check them on small instances, and
proofs, checked by TLAPS, that hold for every number of sessions, ids and
requests. Definitions keep the names of the Go functions they translate;
`PROJECT.json` maps each to its lines.

## Inventory

| component | state | operations | talks to |
|---|---|---|---|
| Peer registry (`internal/registry`) | map id -> Peer, each with `Connected` and `LastPing`; own lock | AddPeer, RemovePeer, UpdateLastPing, CleanupStale, lookups | called by signaling and the REST API |
| Signaling sessions (`internal/signaling/server.go`) | map id -> PeerConnection under `s.mu`; per session a context, a socket, a handler and a monitor goroutine; one cleanup loop | handleWebSocket and its deferred function, monitorConnection, cleanupLoop, Start, Stop | registry, WebSocket library |
| REST rendezvous (`handleClientConnect`) | `ClientDataChans` of an edge session: client id -> channel | REST request, api-connect-response, their clean-ups | sessions, `s.mu` |
| Message forwarding (read loops of `signaling/server.go`) | none of its own; the sockets' buffers and deadlines | handleMessage, forwardMessage, sendMessage, answers | the map of connections, WebSocket library |
| Service sync (`service_handlers.go`, `validation.go`) | none of its own | single and batch sync, list | SQLite storage |
| Storage (`internal/storage`) | table `edge_services` | create, save, delete, first, lists | sync handlers, REST API |
| TURN authentication (`internal/turn/auth.go`) | mode, secret, old secrets, static users | AuthenticateRequest, UpdateSecrets | pion/turn |
| Credential issuing (`api/handlers.go`, `signaling/server.go`) | the TurnConfig of the start | POST /credentials, GET /ice-servers, turn-request | shares only the secret with the authenticator |
| TURN listeners (`internal/turn/server.go`) | sockets | Start, Stop | pion/turn |
| ACME manager (`internal/acme`) | current certificate; user and certificate files | obtain, load, renewal loop | ACME server, file system |
| API key tool and middleware | hash in the configuration file; hash of the start | generate, rotate, status, check | configuration file |
| Configuration | YAML file | Load, defaults, validate | start, SIGHUP, API key tool |
| Process (`cmd/server`) | signal channel of one, which components are up | start order, SIGHUP, deferred stops | everything |
| REST server, models, logger | - | routing, envelopes, dashboard, log lines | - |

What is hard about them:

- *Two maps, two locks.* A session is in the registry and in the map of
  connections; no lock covers both, and every removal is by id, whoever's entry
  it is. Reconnects, the cleanup loop and shutdown interleave there. Correct
  means: no entry outlives its session, an unrivalled session is reachable, a
  vanished peer is forgotten, no goroutine is left behind.
- *A REST handler that waits on another goroutine's channel*, keyed by client
  id, with a timeout, a deferred close under a lock, and a lookup without it.
  Correct means: answers go where they belong, every request ends, the lock
  comes back.
- *Read, check, write on a shared table* without a transaction, answers that
  summarise several steps of which each may fail, and a process that may die in
  between. Correct means: rows are genuine and answers true.
- *A secret that two packages sign with and a third checks*, replaced while the
  server runs. Correct means: what is issued is accepted, and rotation does not
  turn away what was let in.
- *Read loops that write to each other's sockets.* A forward is looked up under
  the lock and written after it, with a deadline, to a connection that may be
  replaced, full, in another's use, or back in the library's pool. Correct means:
  order per sender, the right receiver, nothing missing in between, nobody stuck.
- *Files written in several steps* (ACME account, certificate, configuration),
  with crashes in between, and with several writers without a lock in the case
  of the configuration.
- *One goroutine for signals*, with a channel of one, beside an API server that
  starts in a goroutine of its own. Correct means: a reload takes effect, a stop
  ends the process, and no request sees a component stopped before it.

## Modules

| module | contents |
|---|---|
| `Registry` | the registry's methods as operators on its map |
| `Signaling` | EXTENDS Registry: the session life cycle, one action per critical section or step between two |
| `PeerDirectory` | abstract specification of "a map from ids to sessions", with its own theorems; the registry, the map of connections, and the map of `ClientConnect` implement it |
| `Rendezvous` | abstract specification of a REST request to an edge, over a `PeerDirectory`; implemented by `ClientConnect` |
| `SecretRotation` | abstract specification of how the file's TURN secrets reach handler and issuers; implemented by `Process` and by `TurnAuth` |
| `ServiceTable` | abstract specification of the table of services as edges share it; implemented by `ServiceSync` |
| `SignalingProps`, `SignalingProofs`, `MCSignaling` | properties and the inductive invariant; theorems; instances |
| `ClientConnect` | the REST rendezvous with reconnects, drops, timeouts and shutdown |
| `ClientConnectProps`, `ClientConnectProofs`, `MCClientConnect` | likewise |
| `TurnAuth`, `TurnAuthProofs`, `MCTurnAuth` | issuing, acceptance, the file, start, stop and reload |
| `ServiceSync`, `ServiceSyncProofs`, `MCServiceSync` | sync handlers, storage calls, REST delete, restart |
| `AcmeManager`, `AcmeManagerProofs`, `MCAcmeManager` | account and certificate files, start, renewal, failures and crashes |
| `Forwarding`, `ForwardingProofs`, `MCForwarding` | messages between sessions: lookup, write, deadline, the library's pool |
| `ConfigFile` | the configuration file under the key tool and the editor |
| `Process`, `ProcessProofs`, `MCProcess` | EXTENDS ConfigFile: the server's start, signals, reload, stop and crashes, with requests in flight |

`ClientConnect` takes registration and removal of a session in one step each and
leaves their detail to `Signaling`, which leaves messages out; so does
`Forwarding`, which has the messages. `Signaling` and `ClientConnect` meet in the
map of connections: what the second assumes of it is `PeerDirectory`, and both
are proved to keep to it, so that the short cuts one takes promise no more than
the detailed model keeps. Whether two writers meet on one connection is chosen
freely in each module, as an action of its own: `WriteCollides` and `WriteCut` of
a read loop (`Forwarding`), `ReqSendPanics` of a REST request (`ClientConnect`),
`PingPanics` of a monitor (`Signaling`, `ClientConnect`).
`Process` has of each component only whether it is up; `Process`, which has the
reload in two steps and the file with its writers, and `TurnAuth`, which has the
credentials, meet in `SecretRotation` in the same way.

### Signaling

`pc[c]` is where the handler of session `c` stands: `idle`; `added`, after
`registry.AddPeer` and before `s.mu`; `reading`, in the read loop; `closed`,
after the deferred function's `cancel()` and `Close()`; `removed`, after
`RemovePeer`; `done`. `mon[c]` is its monitor. A tick of the cleanup loop is two
actions, `ReapRegistry` and `ReapConnections`, with the ids in `reaping` in
between; `Stop` is `StopCancel` and `StopClose`. `Age(c)` lets the record of a
session get older than the timeout and `Pong` renews it; `PeerDies` is a remote
end that vanishes in silence. A record does not age between `AddPeer` and
`Register`, two adjacent statements, while the timeout is minutes. Sections of
`s.mu` that only look something up are single steps, since they wait for nothing
while they hold it. A ping can fail (`PingFails`) or panic (`PingPanics`), when
somebody else is writing to the connection, or its handler has returned and the
library has it back in its pool: nothing recovers a monitor, and the process ends.

### ClientConnect

A request passes through two critical sections of `s.mu`; the first is left with
the channel in `ClientDataChans`, the second closes what is there under the
client's id (`ReqClose`) and then deletes it (`ReqDelete`). `mu` records who
holds the lock, since a panic between lock and unlock keeps it for ever
(`ReqClosePanics`, `wedged`). Between the sections the request writes to the
session it has found: `ReqSend`, `ReqSendFails`, or `ReqSendPanics` when somebody
else is writing there or the connection is in the library's pool, from where it
may by then serve another session (`Reaches`).

handleAPIConnectResponse looks at the message's `To` and at nothing else:
`EdgeResponse(e, k)` is a response for any client, at any time, on any session,
asked or not; an edge that has reconnected may answer on its new session what it
was asked on the old one. A response is the pair of the session it came over and
the client it names. The lookup takes no lock, and runs between any two steps of
a request, so that it may find a channel that is closed and about to be deleted
(`EdgeSendPanics` is the send on it). Where it overlaps a write of the map the
runtime may end the process (`EdgeResponseRaces`). The recover middleware turns a
panic of a REST handler into an answer; the WebSocket library recovers one of a
session's handler and the session ends. Fiber's Shutdown waits for handlers
(`HandlersReturned`).

### TurnAuth

A user name is the record of its expiry and of whether `SplitN` finds exactly
three fields in it; a password is named by the secret it was made with. The
clock runs in half seconds, as issuers drop the fraction of a second and the
handler does not. `file`, `issuer` and `handler` are the three copies of the
secret: on disk, in the TurnConfig of the start, in the AuthHandler. `Start`
sets both of the latter from the file, `Reload` (SIGHUP) the handler only, and
never its mode or its users. The TTL that UpdateSecrets stores is never read and
left out.

### ServiceSync

`pc[c]` says what the handler of a session does with item `pos[c]` of message
`job[c]`; every storage call is a step of its own and may fail. `Save` inserts
when there is no row, as gorm's does. A payload remembers who sent it, so that a
row can be compared with its owner. `view` records what the answers have told a
session about each id, and forgets an id when someone else writes it; `hit` has
the ids that others have written while a session worked on its message. `Restart`
drops all handlers and keeps the table.

### AcmeManager

One goroutine at a time works: `New` in the start, then `renewalLoop`. `pc` says
where it is, and is the name of the file while it writes one. `Truncate` and
`Fill` are the two halves of os.WriteFile; between them the file is `Torn`.
Accounts and certificates are numbered as the CA grants them, and `expiry` gives
a certificate's last day. `Fails` is every error return, of the CA, the disk, a
challenge provider, or of X509KeyPair when what the CA has sent is no pair (`Fill`
then leaves a certificate that is `Torn`); `Exit` a crash or the end of the
process, in the middle of a renewal too, since `Stop` waits for nothing. `Reuse`
reads two files in one step, as nothing else writes them.

The code takes any error of os.Stat for a missing user.json, and any error of a
read for a missing certificate, so `Register` and `Obtain` are possible whatever
is on disk. A start that registers although there is a user.json sets `blind`,
and the promises about the account are for the time before. After it, a crash
between the two writes leaves the new account beside the old one's key.

### Forwarding

`at[s]` is where the read loop of a session stands: about to `read`; with a
message and the Conn it looked up (`send`); inside the library's write
(`write`); past the loop (`forget`). `dest[s]` is the Conn in the first of these
and the session that has it by then in the second. Messages are named by sender
and number; `log[c]` is what has been written to a session, of which its peer
has read `got[c]`. Three things of the WebSocket library matter and are modelled
as the code meets them: a Conn that has missed a write deadline fails all later
writes (`broken`) and goes on reading; it takes one writer at a time; and it is
reused after its handler has returned, so that `conn[s]` can be the Conn of an
earlier session and a late writer finds either nobody (`WriteToPooled`) or the
wrong session (`BeginWrite`). A second writer is another read loop, a ping or a
REST request, none of which takes a lock: the library notices it and panics
(`WriteCollides`), or the second closes the first one's writer, whose message is
cut short or lost with an error that is only logged (`WriteCut`). `raced` has the
sessions this may have happened to. A ping or a REST request may miss the write
deadline as well (`PingTimesOut`). `Expire` may strike any session, since
session_timeout is not checked and may be shorter than the ping interval. All
answers of the server to a session's own messages are one message, `Reply`.

### ConfigFile

A run of the key tool is a program counter `tool[t]` from its first look at the
file to the printed key. `Truncate` and `WriteKey`, `CreateFile` and
`CreateDefault` are the halves of os.WriteFile, between which others find an
empty document, which parses. A write that overlaps another ends in the one, the
other, or in something that is no YAML (`Fill`). `generate` takes any error of
os.Stat for a missing file: `GenerateBlind` is the run that writes the defaults
over a file that is there, and counts as a race. Settings are a version, counted
by the operator's edits; a file that has lost them has the version `Lost`.
`raced` and `overlapped` are history: whether a write was torn or overlapped
since the last edit, and which runs had company.

### Process

`srv` is the main goroutine; `up` the components whose deferred stop is pending.
`StartComponent` and `StopComponent` take them one at a time in the order of
`Rank`, so that signals, crashes and requests come in between. `Listen` is the
API server's own goroutine: `late` says that it came to listen after its Stop had
found nothing to shut down. `sigs` is the channel, which drops what it has no
room for. `ReloadReads` and `ReloadApplies` are the two halves of a reload, with
an edit or a key rewrite possibly in between. One flag, `busy`, is enough for
the requests: Stop waits for the last one, without a limit, as the API server
sets no timeouts (`HeldByRequest`); and then, in the signaling server, for `s.mu`
(`HeldByLock`).

In all these modules a comment "Mutated ..." introduces a faulty form of the
definition below it. The mutants of `PROJECT.json` put it in the definition's
place and expect the property to fail.

## Runs

Passing:

| run | instance | shows |
|---|---|---|
| reconnect | 2 sessions, 1 id | both maps implement `PeerDirectory` in every interleaving with the cleanup loop and Stop (`RegistryIsDirectory`, `ConnectionsAreDirectory`): no entry outlives its session, an id never reverts to a session that left; `SoleSessionReachable`, `ListedAreConnected`; `DeadPeerForgotten`, `GoroutinesEnd`, `StaleRecordRemoved` under FairSpec |
| connect | 2 requests of one client, the edge reconnects | `IsRendezvous`: the handlers implement `Rendezvous`; `ResponseRouted`, `NoDanglingChannel`, `SoleRequestSafe`; `EveryRequestReturns`, `ShutdownCompletes` under FairSpec |
| turn_auth | 2 secrets, 1 static user, lifetimes -1, default, 48 h, 48 h + 1 s | `FreshAccepted` until a reload; `AcceptanceStable` |
| services_shared | 2 edges, 1 id, batches of up to 2 | `IsServiceTable`: the handlers implement `ServiceTable`; `AnswersTrue`, `TakenOnlyByRace` under contention, storage failures and restarts |
| acme | 2 accounts, 3 certificates of four days each, due below two | `ServedPairMatches`, `ServedIsSaved`, `AccountIsFinal`; `StartsAgain`, `Renewed` under FairSpec |
| forwarding | 2 sessions of one id, 1 that sends them 2 messages; sockets of one message | `PerSenderOrder`, `OnlyAddressed`, `NoGaps`; `ReadLoopsGoOn` under FairSpec |
| process | 2 runs of the key tool, 1 edit, which enables ACME; signals, starts and crashes without limit | `SettingsKept`, `KeysLeaveByRotation`, `RequestsServed`; `ReloadTakesEffect`, `StopHonoured` under FairSpec |

The bounds: one id is enough for sessions, as ids do not interact (every action
touches the entry of one id, and reaping a set of ids is covered by the proofs);
two sessions are the least that replace one another, and the invariants are
proved for any number of them. Two requests are the least that share a client, and
two sessions the least between which an answer can cross; one client is enough, as
another's requests have slots of their own (`SoleIsAlone`), and that a session
that is no edge refuses is the other branch of `ReqRefused`: the proofs cover
both.
Two edges and the API are the least that can delete and re-create a row between
another's read and save. Two items are the least for a partial or repeated
batch; with two ids the instance of services_shared grows to 5.4 million states,
which TLC was run on once with one value and found no error. Three certificates
are one at the start, one lost half-written, and one that replaces it; at the
last one the promises of AcmeManager end, as a CA's do at its rate limit. In
forwarding, two messages of one sender are the least that have an order, a
socket of one message the least that is full, and the session that answers makes
two read loops wait for each other. In process, two runs of the tool are the
least that overlap, and each is a generate or a rotate; one edit is the least
that a rewrite can lose or a reload can bring. With a second edit, whose
settings Load refuses, TLC was run once and found no error (499,000 states). A
session, request or run of the tool runs once; another life is another one.
Deadlock is not checked where every session, request or clock may come to its
end; ServiceSync, which never ends, is checked for it.

Runs that end in a counterexample show where the code does not do what a comment,
a test or the README says. `PROJECT.json` quotes the line of each:

| run | what happens |
|---|---|
| new_connection_active | a replaced session's deferred function deletes its successor from both maps |
| shutdown_retry | two overlapping requests of a client: the second clean-up closes nil with `s.mu` held, and Stop hangs (`ShutdownIsGraceful`; in connect, `ShutdownCompletes` says that it hangs for no other reason) |
| turn_old_secrets | the loop over the secrets returns in its first round: old secrets are never used |
| turn_reload | after SIGHUP the server refuses the credentials it goes on issuing |
| acme_half_saved | the process ends between user.json and a complete user.key: every later start fails to load the account, and none registers another (`EveryStartGetsAccount`) |

The models have more behaviours of this kind, which no run is spent on:

- The cleanup loop takes ids from the registry, and later cancels whoever is
  connected under them: a session that registered in between is cancelled and
  removed (`ReapRegistry`, then `ReapConnections`).
- Once an open session has lost its entry in one of these ways, a further
  session of its id finds nobody to close, and both stay open.
- An answer that found its channel just before the request timed out, or while the
  clean-up was between close and delete, is sent on a closed channel; the panic
  ends the edge's session (`EdgeSendPanics`).
- An edge that answers on a new session what it was asked on the old one serves a
  retry of that client with it, or nobody (`EdgeResponse`).
- A REST request whose edge has left may write its api-connect-request to another
  session that has got the connection (`Reaches`), or panic (`ReqSendPanics`).
- Two writers of one connection can end a session (`WriteCollides`), lose or cut a
  message (`WriteCut`), or, if one of them is a monitor, end the process
  (`PingPanics`).
- A request that stalls keeps SIGTERM from ending the process for as long as it
  likes: fiber has no timeouts set, and Shutdown waits (api/server.go:40-44,
  149-152; `HeldByRequest`).
- A reload of a file in static mode, which needs no secret, empties the secret
  of a handler that stays in REST mode.
- An update overwrites another edge's row, and its owner, if that edge created the
  row between the update's check and its save (service_handlers.go:270-284);
  `TakenOnlyByRace` says that nothing else makes a row change hands.
- An update whose row is deleted between its read and its save brings the row
  back, since gorm's `Save` inserts (`Save`).
- A start that cannot see user.json, for whatever error of os.Stat, registers a new
  account over a good one; a crash between its two writes leaves user.json of the
  one and user.key of the other (`Register`, `blind`).
- `generate` that cannot see the configuration file writes the defaults over it
  (`GenerateBlind`).
- A SIGTERM that arrives while a SIGHUP waits in the channel of one is dropped
  (`Enqueue`), and the process goes on.
- A signal during the start makes main call Stop before the API goroutine
  listens; the API then serves requests while, and after, storage and TURN are
  stopped, until the process ends (`Listen`, `late`).
- A running server takes the API key of its start only: a rotated key is refused,
  and the old one accepted, until a restart, although `rotate` warns that "This
  will invalidate the current API key" (cmd_apikey.go:129).
- A reload, or a start, in the middle of a key rewrite finds an empty document
  and is refused for want of a domain (`ReloadReads`).
- A rotation killed in the middle of its write leaves an empty file; the next
  generate finds no key in it and writes a file with nothing but the key, which
  no server starts with.
- Two runs of the tool that overlap may each print a key of which only one, or
  none, is in the file, and an edit during a rewrite is lost.
- A Conn that has missed one write deadline takes no more messages, which is only
  logged (`WriteTimesOut`, `WriteFails`). It stays in both maps until its missing
  pongs let the cleanup loop remove it (`Expire`), and even then its handler goes on reading
  and forwarding as long as its peer sends.
- A session whose Conn comes from the library's pool may get a message that was
  looked up for the session before it: OnlyAddressed fails in TLC without its
  first condition.
- Order is kept per session only: a message looked up for a session that is being
  replaced may come after a later one to its successor.
- Credentials name a `turns:` URL even when ACME, and with it the TLS listener,
  is off (server.go:423, against turn/server.go:154).
- A renewal truncates the certificate before the new key is safe: a crash then
  leaves no usable pair, though the old one was good for 30 more days, and the
  next start needs the CA.

## Fairness

`Signaling`: weak fairness of every step a handler, monitor, the cleanup loop or
a begun Stop can take by itself: Go schedules runnable goroutines, `s.mu` is not
held across anything that waits, reads have a deadline, the ticker ticks. (That
an overlap of REST requests can keep `s.mu` for ever is `ClientConnect`'s, which
has those requests.) Of peers, pings, pongs and the call of Stop nothing is
assumed.

`ClientConnect`: weak fairness of a running handler as a whole: it goes on, and
the timers make one of the select's branches possible for ever. Weak fairness of
taking `s.mu` for the clean-up and for Stop: each request takes it at most twice,
so a lock that does not stay free for ever comes to be kept for ever, which is
`Wedged`. An edge need not answer, nobody need connect, and nobody need stop the
server.

`Forwarding`: weak fairness of a read loop with a message to write: the write
begins, and ends in one of its ways, by the write deadline if by nothing else. No
other writer has to interfere; no peer has to read, send, or stay.

`Process`: weak fairness of the main goroutine once it is past the start, but for
its two unbounded waits: none that a request ends, and none of the Stop of the
signaling server, which needs `s.mu`. `StopHonoured` names both. Nothing is
assumed of the operator, the tool, the start, the clients of the API, or of
crashes not happening.

`AcmeManager`: weak fairness of the start (docs/SETUP.md:443, `Restart=always`),
of the ticker and of what only computes; strong fairness of what may fail, that
is, neither the CA nor the disk fails every time. Reads need not fail: nothing is
assumed of a registration over an account that is there, or of a renewal of a
certificate that is good. Crashes may go on for ever.
`Renewed` needs certificates that live longer than the renewal margin.

## Proofs

The theorems hold under the modules' named assumptions, which only say that the
constants have their types and that different things have different names.

`PeerDirectory`. `DirInv` says that an entry stands under the id of its session
and that the session is in service: entered, not left. `InService` proves it of
every directory, and `NeverReturns` that an id never goes back to a session it
has moved on from. Both are proved once, under `WellFormed` (each session has an
id, and the empty entry is no session). What implements the directory has them by
INSTANCE: `BothInService` and `LookupsInService` carry them over to the three maps
without another invariant.

`SignalingProofs`. `NoDanglingEntry` and `ListedAreConnected` are not enough for
`SoleSessionReachable`: that an unrivalled session stays in both maps depends on
which goroutine is where. `IInv` adds: a session outside `overlapped` has no
rivals (so no clean-up by id can hit it); ids are reaped only between the halves
of a tick; a record is out of date only after Register; a session that has
not yet registered is still listed; a session past its close is cancelled. From
it follow `TypeCorrect`, `NothingDangles`, `ListedConnected`, `SoleReachable`.
`RegistryImplementsDirectory` and `ConnectionsImplementDirectory` show each step
of the server to be a publish, a withdrawal, an expiry or a stutter of
`PeerDirectory`: the abstract phases are functions of `pc`.

`ClientConnectProofs`. `ConnectInv` follows a response from the edge to the
request: the channel a handler has found, the message in a channel and the
message a request got all come over the session of the request that made the
channel, and name its client (`TargetsRouted`, `BuffersRouted`,
`ResultsRouted`), although a session may respond for whom it likes. What makes
this so is the map the lookup uses, the sender's own, and the key. `LockHeld`
gives the critical sections mutual exclusion, `DeletesClosed` says that what a
clean-up is about to delete is what it has closed, and `SoleIsAlone` that requests
outside `overlapped` share their slot with nobody. From it follow `TypeCorrect`,
`ResponsesRouted`, `NoChannelDangles`, `SoleRequestsSafe`, the last for requests
whose write may fail or panic. `OnlineImplementsDirectory` is the map's part.
`ImplementsRendezvous` forgets channels, buffers, the lock and the clean-up: a
request's `sess`, the requests that were written to a session, and what it got are
all that is left, and each step is one of `Rendezvous` or a stutter. It needs
`AskInv` beside `ConnectInv`: a request has no session before its set-up and no
result before it leaves its select, and one that waits has been written, once
(`Unasked`, `Undecided`, `WrittenOnce`); whoever is not alone on a session has
another request of its client there, and such a one alone can lose an answer it
has got to the panic of its clean-up (`OverlapShared`); a session that is asked
has been online, and sessions die only together with all requests
(`AskedWasOnline`, `DieTogether`).

`TurnAuthProofs`. `AuthInv` adds to the types that until a reload the handler's
secret is the issuers' and is not empty in REST mode. As the first usable secret
is then the current one (`CurrentFirst`), `FreshCredentials` follows.
`AcceptanceKept` is an action property: no step of a running server changes mode
or users, or turns the clock back. `OnlyCurrentAccepted` is the other side of the
two runs that expect a violation: with a current secret nothing that another
secret signed is ever accepted, whatever the list of old ones.
`AuthRotates` shows that secrets move as `SecretRotation` says.

`ServiceSyncProofs`. `SyncInv` follows a payload from the message to the row: the
items of a session are its edge's, what it saves or creates has passed
validation, and a save is under way only with the edge the row was checked for.
`GenuineRows` holds although rows change hands under a save. `ViewInv` is about the
answers: `Progress` says, for each message under way, that an id nobody else has
written is as the last of its finished items asked if all have succeeded, and
otherwise as the edge was told before; `Seen` that a row read for a save is still
there unless `hit` has its id. `Frame` shows once that a session which does not
move keeps its part. From them follow `AnswersHold`, `TypeCorrect` and the action
property `TakenByRace`. `ImplementsTable` needs `SyncInv` only: a session that is
about to save has leave to write over the one row it has checked, and every step
of a handler, of the REST API or of a restart is one operation of `ServiceTable`
or none.

`AcmeManagerProofs`. `AcmeInv` says how far the files are: what is written has
been granted, the key is written when the certificate file holds the last
certificate, and by the time it is loaded both do. From it follow `MatchingPair`
and, as an action property, `SavedBeforeServed`. `AccountInOrder` does the same
for the account, up to the first start that is `blind`: its key is written only
after user.json holds it, and whoever is past loadOrCreateUser has both.
`AccountFinal` follows: a saved account is never written over. That a half-saved
one is never mended is no promise but a defect: `EveryStartGetsAccount` says what
manager.go:154 says, and TLC refutes it (acme_half_saved).

`ForwardingProofs`. Order follows from the place of the write: `WrittenOnce` says
that everything written has been taken before, and that the message at work has
not been written yet. `OneHolder` and `ConnNames` say how Conns are shared;
`SendsAddressed` and `WritesAddressed` carry the address of a message from the
lookup to the write across replacements. `MapHasIds` and `ForwardFound` do the
same for what must not be missing, as long as the session is the one in the map
and no write to it has raced (`Undisturbed`). From them follow `OrderKept`,
`NothingMisdelivered` and `NothingMissing`, for any number of sessions and any
size of sockets, with sessions expiring and writers interfering at any time.

`ProcessProofs`. `ServerInv`: components are up in the order of their start, so
that what listens has all it needs beneath it (`RequestsFindAll`). `SettingsInv`:
without a race one run at a time is between its load and its write, and it has
loaded the last settings (`SettingsStay`). `KeyInv`: a run that may write over a
key without being asked to rotate finds none but its own or one of a run that had
company, since whoever was active together is `overlapped` (`KeysStay`).
`ProcessRotates`: the step that reads the file for a reload is the abstract
reload, though the handler gets the secrets a step later: until then the mapping
takes what has been read for what the handler has, since the main goroutine does
nothing else in between, and a crash takes both.

`OnlineIsDirectory`, the two `SecretsRotate` and `CurrentSecretDecides` are
theorems without a run of their own. Each was also run through TLC once, on the
instances of connect, process and turn_auth (the last one over the names
around the bounds of `Timely`), and no error was found.

Only model-checked: the liveness properties, which are out of the prover's reach.
Every invariant, action property and refinement of a passing run is also a
theorem. `NoDanglingEntry` and `RowsAreGenuine` are theorems too; the runs check
the refinements that imply them.

## Not modelled

- The WebSocket library below the behaviour named above: which bytes of a message
  that is cut short arrive, and TCP.
- TURN itself, relay ports, and the optional sockets for IPv6; challenge
  providers and the environment variables they leave set.
- Default values and most rules of the configuration, which compute one record
  from another: no step of anything else comes in between. The numeric hazards
  of such values are in `PROJECT.json` without a property.
- The hash of an API key and its comparison (Argon2id, a library's); the status
  command, which only reads.
- Which of a client's requests an answer belongs to: the message carries only the
  client's id, and an answer to a request that has timed out can serve its retry.
- Routing, response envelopes, the dashboard, models, logging; handlers that only
  read (`GetPeersByType`, list requests).

## Plan

Done: `Registry`, `Signaling`, `ClientConnect`, `TurnAuth`, `ServiceSync`,
`AcmeManager`, `Forwarding`, `ConfigFile`, `Process`, proofs of all their
invariants and action properties, and the four abstract specifications with
their refinements.

Left, in this order:

1. Safety behind the liveness properties: what each of them waits for can happen
   at all, as invariants (a waiting request has a timer or an answer, a lock that
   is held has a holder that moves, or is wedged after an overlap).
2. Configuration values: `applyDefaults` and `validate` as operators, with the
   values that they let through and that the server cannot work with.
