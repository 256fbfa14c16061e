----------------------------- MODULE Rendezvous -----------------------------
(***************************************************************************)
(* What POST /signaling/client/connect promises to REST clients, whatever  *)
(* channels and locks it is made of, while edges come and go:              *)
(*   - a request is put to the edge that the directory of peers has under  *)
(*     the id asked for at one moment, and to no other; it is refused only *)
(*     if there is none;                                                   *)
(*   - it is written once, to that edge as long as it is in service;       *)
(*   - it is answered at most once, after it was written, with a response  *)
(*     of the edge it was put to that is addressed to its client;          *)
(*   - an answer is withdrawn, if at all, only from a client that had put  *)
(*     another request to the same session.                                *)
(* A request may fail at any time.  And there is much it does NOT promise: *)
(*   - once the edge has left, the request may be written to whichever     *)
(*     session has got its connection object;                              *)
(*   - the answer need not be to the request that gets it, nor to any      *)
(*     request: an edge that has reconnected may answer, on its new        *)
(*     session, what it was asked on the old one, and serve a retry.       *)
(***************************************************************************)
CONSTANTS Session, Edge, Id, IdOf, NoSession,
          Request, ClientOf, EdgeIdOf, None

VARIABLES
    phase, dir,  \* the directory of peers
    asked,       \* the session each request was put to
    inbox,       \* the requests that were written to each session
    outcome,     \* "open", "answered" or "failed"
    answer       \* what an answered request was answered

dirVars == <<phase, dir>>
askVars == <<asked, inbox, outcome, answer>>

Directory == INSTANCE PeerDirectory

Init ==
    /\ Directory!Init
    /\ asked = [r \in Request |-> None]
    /\ inbox = [e \in Session |-> {}]
    /\ outcome = [r \in Request |-> "open"]
    /\ answer = [r \in Request |-> None]

Ask(r) ==
    /\ asked[r] = None /\ outcome[r] = "open"
    /\ dir[EdgeIdOf[r]] \in Edge
    /\ asked' = [asked EXCEPT ![r] = dir[EdgeIdOf[r]]]
    /\ UNCHANGED <<inbox, outcome, answer>>

Refuse(r) ==
    /\ asked[r] = None /\ outcome[r] = "open"
    /\ dir[EdgeIdOf[r]] \notin Edge
    /\ outcome' = [outcome EXCEPT ![r] = "failed"]
    /\ UNCHANGED <<asked, inbox, answer>>

Written == UNION {inbox[e] : e \in Session}

\* e is the edge that was asked, or that one has left.
Write(r) ==
    /\ asked[r] # None /\ outcome[r] = "open"
    /\ r \notin Written
    /\ \E e \in Session :
           /\ phase[e] # "gone"
           /\ e = asked[r] \/ phase[asked[r]] = "gone"
           /\ inbox' = [inbox EXCEPT ![e] = @ \cup {r}]
    /\ UNCHANGED <<asked, outcome, answer>>

\* The edge may have left by then.
Answer(r) ==
    /\ outcome[r] = "open"
    /\ r \in Written
    /\ outcome' = [outcome EXCEPT ![r] = "answered"]
    /\ answer' = [answer EXCEPT ![r] = [from |-> asked[r], to |-> ClientOf[r]]]
    /\ UNCHANGED <<asked, inbox>>

Fail(r) ==
    /\ asked[r] # None /\ outcome[r] = "open"
    /\ outcome' = [outcome EXCEPT ![r] = "failed"]
    /\ UNCHANGED <<asked, inbox, answer>>

\* Requests of one client that are put to one session share a channel.
Shares(r) == \E q \in Request \ {r} :
    asked[q] = asked[r] /\ ClientOf[q] = ClientOf[r]

\* The handler fails after it has got its answer.
Withdraw(r) ==
    /\ outcome[r] = "answered"
    /\ Shares(r)
    /\ outcome' = [outcome EXCEPT ![r] = "failed"]
    /\ answer' = [answer EXCEPT ![r] = None]
    /\ UNCHANGED <<asked, inbox>>

RequestStep(r) ==
    Ask(r) \/ Refuse(r) \/ Write(r) \/ Answer(r) \/ Fail(r) \/ Withdraw(r)

Next ==
    \/ Directory!Next /\ UNCHANGED askVars
    \/ \E r \in Request : RequestStep(r) /\ UNCHANGED dirVars

Spec == Init /\ [][Next]_<<dirVars, askVars>>

=============================================================================
