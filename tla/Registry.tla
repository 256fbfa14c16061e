------------------------------ MODULE Registry ------------------------------
(***************************************************************************)
(* The peer registry (internal/registry): the map from peer id to Peer     *)
(* that the REST API lists.  One mutex guards the map, so every method is  *)
(* one atomic step.  The module has no next-state relation of its own: the *)
(* methods are the pieces from which Signaling builds the steps of the     *)
(* goroutines that call them.                                              *)
(*                                                                         *)
(* A Peer record is created by one WebSocket session and never shared      *)
(* between two, so a record is named by its session.  LastPing is          *)
(* abstracted to the one question the code asks of it: whether it is older *)
(* than SessionTimeout.                                                    *)
(***************************************************************************)
CONSTANTS
    Session,    \* the WebSocket sessions that ever reach the server
    Id,         \* the peer ids, chosen by the peers in their query string
    IdOf,       \* the id each session announced
    NoSession   \* marks an id the map has no entry for

ASSUME SessionAssumption == /\ IdOf \in [Session -> Id]
                            /\ NoSession \notin Session

VARIABLES
    peers,      \* Registry.peers: which session's Peer is stored under an id
    connected,  \* the sessions whose Peer.Connected flag is set
    stale       \* the sessions whose Peer.LastPing is out of date

registryVars == <<peers, connected, stale>>

RegistryTypeOK ==
    /\ peers \in [Id -> Session \cup {NoSession}]
    /\ connected \in SUBSET Session
    /\ stale \in SUBSET Session

RegistryInit ==
    /\ peers = [i \in Id |-> NoSession]
    /\ connected = {}
    /\ stale = {}

-----------------------------------------------------------------------------
(* Mutated forms of the methods below: each breaks a property on purpose. *)

\* AddPeer: "adds or updates" taken as adds only.
AddPeerIfAbsent(c) ==
    /\ peers' = [peers EXCEPT ![IdOf[c]] = IF @ = NoSession THEN c ELSE @]
    /\ connected' = connected \cup {c}
    /\ stale' = stale \ {c}

\* RemovePeer: marks the record and forgets to delete it.
RemovePeerMarkOnly(i) ==
    /\ connected' = connected \ {peers[i]}
    /\ UNCHANGED <<peers, stale>>

\* StaleIds: the comparison with the timeout the wrong way round.
StaleIdsInverted == {i \in Id : peers[i] \in connected \ stale}

-----------------------------------------------------------------------------
(* The methods of Registry.                                                *)

AddPeer(c) ==
    /\ peers' = [peers EXCEPT ![IdOf[c]] = c]
    /\ connected' = connected \cup {c}
    /\ stale' = stale \ {c}

\* Removes whatever record is stored under the id, its caller's or not.
RemovePeer(i) ==
    /\ peers' = [peers EXCEPT ![i] = NoSession]
    /\ connected' = connected \ {peers[i]}
    /\ stale' = stale

UpdateLastPing(i) ==
    /\ stale' = stale \ {peers[i]}
    /\ UNCHANGED <<peers, connected>>

StaleIds == {i \in Id : peers[i] \in stale}

CleanupStale ==
    /\ peers' = [i \in Id |-> IF i \in StaleIds THEN NoSession ELSE peers[i]]
    /\ connected' = connected \ {peers[i] : i \in StaleIds}
    /\ stale' = stale

\* The records GetAllPeers hands to the API.
GetAllPeers == {peers[i] : i \in Id} \ {NoSession}

-----------------------------------------------------------------------------
(* Time passes: SessionTimeout elapses since the last ping of a record.    *)
AgePing(c) ==
    /\ c \in GetAllPeers
    /\ stale' = stale \cup {c}
    /\ UNCHANGED <<peers, connected>>

=============================================================================
