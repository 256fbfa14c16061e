---------------------------- MODULE AcmeManager -----------------------------
(***************************************************************************)
(* The ACME manager (internal/acme/manager.go) and the four files it keeps *)
(* in cert_dir: who registers, obtains, writes, loads and renews, with     *)
(* failures and crashes between any two steps.                             *)
(*                                                                         *)
(* One goroutine at a time does the work: the start's, inside New, and     *)
(* then renewalLoop's.  pc says where it is; where it writes a file, pc is *)
(* the file.  os.WriteFile truncates and then writes, so a crash or a full *)
(* disk in between leaves a Torn file.                                     *)
(*                                                                         *)
(* Accounts and certificates are numbered in the order the CA grants them; *)
(* certificate n comes with a key of its own, n.  The clock counts days.   *)
(***************************************************************************)
EXTENDS Integers

CONSTANTS
    RenewBefore,   \* days before its end that a certificate is renewed: 30
    Lifetime,      \* days the CA makes a certificate valid for
    Absent,        \* no such file
    Torn,          \* a file whose content does not parse
    NoCert,        \* currentCert is nil
    MaxTime,       \* bound: days the model runs
    MaxAccounts,   \* bound: accounts the CA grants
    MaxIssued      \* bound: certificates the CA grants

ASSUME AcmeAssumption ==
    /\ RenewBefore \in Nat /\ Lifetime \in Nat
    /\ MaxTime \in Nat /\ MaxAccounts \in Nat /\ MaxIssued \in Nat
    /\ Absent \notin Nat /\ Torn \notin Nat /\ Absent # Torn
    /\ NoCert \notin [crt : Nat, key : Nat]

VARIABLES
    now,        \* the day
    pc,         \* where New or renewalLoop is; "down" without a process
    open,       \* the file it writes has been truncated, and not yet written
    disk,       \* the files of cert_dir
    current,    \* currentCert, a certificate and a key
    accounts,   \* accounts registered so far
    issued,     \* certificates granted so far
    expiry,     \* the NotAfter of each
    blind       \* history: a start could not see the account there was

vars == <<now, pc, open, disk, current, accounts, issued, expiry, blind>>

UserFile == {"user.json", "user.key"}
CertFile == {"crt", "key"}
File == UserFile \union CertFile
Account == 1..MaxAccounts
Serial == 1..MaxIssued
Pair == [crt : Serial, key : Serial]

Serving == current # NoCert

TypeOK ==
    /\ now \in 0..MaxTime
    /\ pc \in File \union {"down", "user", "cert", "load", "up"}
    /\ open \in BOOLEAN
    /\ disk \in [File -> Account \union Serial \union {Absent, Torn}]
    /\ current \in Pair \union {NoCert}
    /\ accounts \in 0..MaxAccounts
    /\ issued \in 0..MaxIssued
    /\ expiry \in [Serial -> Nat]
    /\ blind \in BOOLEAN
    /\ open => pc \in File
    /\ pc = "up" => Serving
    /\ pc \in UserFile \union {"down", "user"} => ~Serving

Init ==
    /\ now = 0
    /\ pc = "down"
    /\ open = FALSE
    /\ disk = [f \in File |-> Absent]
    /\ current = NoCert
    /\ accounts = 0
    /\ issued = 0
    /\ expiry = [n \in Serial |-> 0]
    /\ blind = FALSE

-----------------------------------------------------------------------------
(* The account: loadOrCreateUser.                                          *)

Start ==
    /\ pc = "down"
    /\ pc' = "user"
    /\ UNCHANGED <<now, open, disk, current, accounts, issued, expiry, blind>>

AccountComplete == \A f \in UserFile : disk[f] \in Account

(* Once there is a user.json it must load: a torn one, or a missing or     *)
(* torn user.key, is an error of every start from then on.                 *)
LoadUser ==
    /\ pc = "user"
    /\ AccountComplete
    /\ pc' = "cert"
    /\ UNCHANGED <<now, open, disk, current, accounts, issued, expiry, blind>>

(* Mutated Register: a new account at every start.                         *)
RegisterAnew ==
    /\ pc = "user"
    /\ accounts < MaxAccounts
    /\ accounts' = accounts + 1
    /\ pc' = "user.json"
    /\ UNCHANGED <<now, open, disk, current, issued, expiry, blind>>

(* Any error of os.Stat counts as the absence of user.json, also where     *)
(* there is one.                                                           *)
Register ==
    /\ pc = "user"
    /\ accounts < MaxAccounts
    /\ accounts' = accounts + 1
    /\ pc' = "user.json"
    /\ blind' = (blind \/ disk["user.json"] # Absent)
    /\ UNCHANGED <<now, open, disk, current, issued, expiry>>

-----------------------------------------------------------------------------
(* os.WriteFile, one file after the other.                                 *)

(* What the CA sent may turn out not to be a certificate with its key,     *)
(* which is counted against the certificate.                               *)
Content == CASE pc \in UserFile -> {accounts}
             [] pc = "crt"      -> {issued, Torn}
             [] OTHER           -> {issued}

AfterFile == [f \in File |-> CASE f = "user.json" -> "user.key"
                           [] f = "user.key"  -> "cert"
                           [] f = "crt"       -> "key"
                           [] f = "key"       -> "load"]

Truncate ==
    /\ pc \in File /\ ~open
    /\ disk' = [disk EXCEPT ![pc] = Torn]
    /\ open' = TRUE
    /\ UNCHANGED <<now, pc, current, accounts, issued, expiry, blind>>

Fill ==
    /\ open
    /\ \E c \in Content : disk' = [disk EXCEPT ![pc] = c]
    /\ open' = FALSE
    /\ pc' = AfterFile[pc]
    /\ UNCHANGED <<now, current, accounts, issued, expiry, blind>>

-----------------------------------------------------------------------------
(* The certificate: obtainCertificate, for a start and for a renewal.      *)

Left(n) == expiry[n] - now

(* Mutated Match: the key is not looked at, or not compared.               *)
MatchCertOnly == disk["crt"] \in Serial
MatchParses == disk["crt"] \in Serial /\ disk["key"] \in Serial

(* tls.X509KeyPair: both parse, and the key is the certificate's.          *)
Match == disk["crt"] \in Serial /\ disk["key"] = disk["crt"]

(* Mutated Reusable: the date is not looked at.                            *)
ReusableAlways == Match

Reusable == Match /\ Left(disk["crt"]) > RenewBefore

Reuse ==
    /\ pc = "cert"
    /\ Reusable
    /\ current' = [crt |-> disk["crt"], key |-> disk["key"]]
    /\ pc' = "up"
    /\ UNCHANGED <<now, open, disk, accounts, issued, expiry, blind>>

(* Mutated Obtain: only where there is no certificate yet.                 *)
ObtainFirst ==
    /\ pc = "cert"
    /\ disk["crt"] = Absent
    /\ issued < MaxIssued
    /\ issued' = issued + 1
    /\ expiry' = [expiry EXCEPT ![issued'] = now + Lifetime]
    /\ pc' = "crt"
    /\ UNCHANGED <<now, open, disk, current, accounts, blind>>

(* A pair that cannot be read, for whatever reason, counts as none.        *)
Obtain ==
    /\ pc = "cert"
    /\ issued < MaxIssued
    /\ issued' = issued + 1
    /\ expiry' = [expiry EXCEPT ![issued'] = now + Lifetime]
    /\ pc' = "crt"
    /\ UNCHANGED <<now, open, disk, current, accounts, blind>>

(* What New or the renewal keeps in memory is what the CA sent, if it is a *)
(* pair.                                                                   *)
Load ==
    /\ pc = "load"
    /\ disk["crt"] = issued
    /\ current' = [crt |-> issued, key |-> issued]
    /\ pc' = "up"
    /\ UNCHANGED <<now, open, disk, accounts, issued, expiry, blind>>

(* Twice a day; what it finds due is renewed by obtainCertificate.         *)
checkAndRenew ==
    /\ pc = "up"
    /\ Left(current.crt) < RenewBefore
    /\ pc' = "cert"
    /\ UNCHANGED <<now, open, disk, current, accounts, issued, expiry, blind>>

-----------------------------------------------------------------------------
(* Mutated Fails: a key that cannot be written is logged and passed over.  *)
FailsLogged ==
    /\ pc \in File \union {"user", "cert", "load"}
    /\ pc = "load" => disk["crt"] = Torn
    /\ open' = FALSE
    /\ pc' = IF pc = "key" THEN "load" ELSE IF Serving THEN "up" ELSE "down"
    /\ UNCHANGED <<now, disk, current, accounts, issued, expiry, blind>>

(* Any of the error returns, of the file system, the CA, the challenge, or *)
(* of X509KeyPair: a start ends in os.Exit, a renewal in a log line and    *)
(* the next round.                                                         *)
Fails ==
    /\ pc \in File \union {"user", "cert", "load"}
    /\ pc = "load" => disk["crt"] = Torn
    /\ open' = FALSE
    /\ pc' = IF Serving THEN "up" ELSE "down"
    /\ UNCHANGED <<now, disk, current, accounts, issued, expiry, blind>>

(* A crash, or the end of the process: Stop does not wait for a renewal.   *)
Exit ==
    /\ pc # "down"
    /\ pc' = "down"
    /\ open' = FALSE
    /\ current' = NoCert
    /\ UNCHANGED <<now, disk, accounts, issued, expiry, blind>>

Tick ==
    /\ now < MaxTime
    /\ now' = now + 1
    /\ UNCHANGED <<pc, open, disk, current, accounts, issued, expiry, blind>>

Next ==
    \/ Start \/ LoadUser \/ Register
    \/ Truncate \/ Fill
    \/ Reuse \/ Obtain \/ Load \/ checkAndRenew
    \/ Fails \/ Exit \/ Tick

Spec == Init /\ [][Next]_vars

(* A supervisor restarts the process (docs/SETUP.md:443: "Restart=always") *)
(* and the ticker ticks; neither CA nor disk fails for ever.  That a read  *)
(* fails is nothing to count on: an account and a certificate that are     *)
(* there need not be replaced.                                             *)
Fairness ==
    /\ WF_vars(Start) /\ WF_vars(checkAndRenew)
    /\ WF_vars(Load) /\ WF_vars(pc = "load" /\ Fails)
    /\ SF_vars(LoadUser) /\ SF_vars(disk["user.json"] = Absent /\ Register)
    /\ SF_vars(Truncate) /\ SF_vars(Fill)
    /\ SF_vars(Reuse) /\ SF_vars(~Reusable /\ Obtain)

FairSpec == Spec /\ Fairness

-----------------------------------------------------------------------------
(* The certificate a server hands to TLS has the key it was granted for,   *)
(* although the two are files written one after the other and a crash may  *)
(* leave one of them behind (manager.go:271-289, 304-327).                 *)
ServedPairMatches == Serving => current.key = current.crt

(* What goes into service is on disk, both halves of it, so that a restart *)
(* needs no CA as long as it is not due (manager.go:271-331).              *)
ServedIsSaved ==
    [][current' \notin {current, NoCert} =>
          disk'["crt"] = current'.crt /\ disk'["key"] = current'.key]_vars

(* user.json and user.key, once both are there, belong to one account and  *)
(* stay for good, through crashes, failed writes and restarts, as long as  *)
(* no start takes them for missing (manager.go:155-201).                   *)
AccountWhole == AccountComplete /\ disk["user.json"] = disk["user.key"]
AccountIsFinal ==
    [][AccountComplete /\ ~blind' =>
          AccountWhole /\ \A f \in UserFile : disk'[f] = disk[f]]_vars

(* manager.go:154: "loads an existing ACME user or creates a new one".     *)
(* Start after start, one of the two succeeds in the end, as long as the   *)
(* CA grants accounts.                                                     *)
EveryStartGetsAccount ==
    pc = "user" ~> AccountComplete \/ accounts = MaxAccounts

(* The CA's limit on certificates ends every promise of a certificate.     *)
Exhausted == issued = MaxIssued

(* Once the account is saved, no state of the certificate's files, however *)
(* the last process ended, keeps the server from coming up again, as long  *)
(* as no start takes the account for missing (manager.go:155-201,          *)
(* 271-331).                                                               *)
StartsAgain == AccountComplete ~> Serving \/ Exhausted \/ blind

(* docs/SETUP.md:951: "Certificates auto-renew 30 days before expiry".     *)
(* A certificate that is due is replaced, after failed attempts and across *)
(* restarts too (manager.go:334-382).                                      *)
Due == Serving /\ Left(current.crt) < RenewBefore
Renewed == Due ~> (Serving /\ ~Due) \/ Exhausted \/ blind
=============================================================================
