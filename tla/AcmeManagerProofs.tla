------------------------- MODULE AcmeManagerProofs --------------------------
(***************************************************************************)
(* Theorems about AcmeManager: for any lifetimes and limits of the CA.     *)
(***************************************************************************)
EXTENDS AcmeManager, TLAPS

(* What the writing goroutine has behind it: the account it writes and the *)
(* certificate it writes have been granted, and by the time it loads, both *)
(* files hold what the CA has sent last.                                   *)
Granted ==
    /\ pc \in UserFile => accounts \in Account
    /\ pc \in CertFile \union {"load"} => issued \in Serial

WrittenSoFar ==
    /\ pc \in {"key", "load"} => disk["crt"] \in {issued, Torn}
    /\ pc = "load" => disk["key"] = issued

AcmeInv == TypeOK /\ Granted /\ WrittenSoFar /\ ServedPairMatches

LEMMA InitInv == ASSUME Init PROVE AcmeInv
<1>1. now \in 0..MaxTime /\ accounts \in 0..MaxAccounts
      /\ issued \in 0..MaxIssued /\ expiry \in [Serial -> Nat]
  BY AcmeAssumption DEF Init
<1>2. open \in BOOLEAN /\ blind \in BOOLEAN /\ ~open /\ pc = "down" /\ ~Serving
  BY Zenon DEF Init, Serving
<1>3. disk \in [File -> Account \union Serial \union {Absent, Torn}]
  BY DEF Init
<1>4. current \in Pair \union {NoCert}
  BY DEF Init
<1>5. Granted /\ WrittenSoFar /\ ServedPairMatches
  BY <1>2 DEF Granted, WrittenSoFar, ServedPairMatches, UserFile, CertFile
<1>6. TypeOK
  BY <1>1, <1>2, <1>3, <1>4 DEF TypeOK
<1>7. QED
  BY <1>5, <1>6 DEF AcmeInv

(* Where the writer goes after a file, and what it writes.                 *)
LEMMA FileOrder ==
    /\ AfterFile["user.json"] = "user.key"
    /\ AfterFile["user.key"] = "cert"
    /\ AfterFile["crt"] = "key"
    /\ AfterFile["key"] = "load"
BY DEF AfterFile, File, UserFile, CertFile

(* What a write puts on disk, and where the writer goes then.              *)
LEMMA FillEffect ==
    ASSUME AcmeInv, Fill
    PROVE  /\ pc \in File /\ pc' = AfterFile[pc]
           /\ \E c \in Account \union Serial \union {Torn} :
                  /\ disk' = [disk EXCEPT ![pc] = c]
                  /\ pc \in UserFile => c = accounts
                  /\ pc = "crt" => c \in {issued, Torn}
                  /\ pc = "key" => c = issued
<1> USE DEF AcmeInv, TypeOK, Granted, File, UserFile, CertFile
<1>1. pc \in File /\ pc' = AfterFile[pc]
  BY DEF Fill
<1>2. PICK c \in Content : disk' = [disk EXCEPT ![pc] = c]
  BY DEF Fill
<1>3. /\ pc \in UserFile => c = accounts
      /\ pc = "crt" => c \in {issued, Torn}
      /\ pc = "key" => c = issued
  BY <1>2 DEF Content
<1>4. c \in Account \union Serial \union {Torn}
  BY <1>1, <1>3
<1> QED
  BY <1>1, <1>2, <1>3, <1>4

LEMMA StepInv == ASSUME AcmeInv, [Next]_vars PROVE AcmeInv'
<1> USE AcmeAssumption
    DEF AcmeInv, TypeOK, Granted, WrittenSoFar, ServedPairMatches, Serving,
        File, UserFile, CertFile
<1>1. CASE Start
  BY <1>1 DEF Start
<1>2. CASE LoadUser
  BY <1>2 DEF LoadUser
<1>3. CASE Register
  BY <1>3 DEF Register, Account
<1>4. CASE Truncate
  BY <1>4 DEF Truncate
<1>5. CASE Fill
  <2>1. PICK c \in Account \union Serial \union {Torn} :
            /\ disk' = [disk EXCEPT ![pc] = c]
            /\ pc \in UserFile => c = accounts
            /\ pc = "crt" => c \in {issued, Torn}
            /\ pc = "key" => c = issued
    BY <1>5, FillEffect
  <2>2. /\ pc \in File /\ pc' = AfterFile[pc] /\ open' = FALSE
        /\ UNCHANGED <<now, current, accounts, issued, expiry, blind>>
    BY <1>5 DEF Fill
  <2>3. CASE pc = "user.json"
    BY <2>1, <2>2, <2>3, FileOrder
  <2>4. CASE pc = "user.key"
    BY <2>1, <2>2, <2>4, FileOrder
  <2>5. CASE pc = "crt"
    BY <2>1, <2>2, <2>5, FileOrder
  <2>6. CASE pc = "key"
    BY <2>1, <2>2, <2>6, FileOrder
  <2> QED
    BY <2>2, <2>3, <2>4, <2>5, <2>6
<1>6. CASE Reuse
  <2>1. current' \in Pair /\ Serving' /\ current'.key = current'.crt
    BY <1>6 DEF Reuse, Reusable, Match, Pair, Serial
  <2>2. QED
    BY <1>6, <2>1 DEF Reuse
<1>7. CASE Obtain
  <2>1. issued' \in Serial /\ now + Lifetime \in Nat
    BY <1>7 DEF Obtain, Serial
  <2>2. expiry' \in [Serial -> Nat]
    BY <1>7, <2>1 DEF Obtain
  <2>3. QED
    BY <1>7, <2>1, <2>2 DEF Obtain, Serial
<1>8. CASE Load
  <2>1. current' \in Pair /\ Serving'
    BY <1>8 DEF Load, Pair, Serial
  <2>2. QED
    BY <1>8, <2>1 DEF Load
<1>9. CASE checkAndRenew
  BY <1>9 DEF checkAndRenew
<1>10. CASE Fails
  BY <1>10 DEF Fails
<1>11. CASE Exit
  BY <1>11 DEF Exit
<1>12. CASE Tick
  BY <1>12 DEF Tick
<1>13. CASE UNCHANGED vars
  BY <1>13 DEF vars
<1>14. QED
  BY <1>1, <1>2, <1>3, <1>4, <1>5, <1>6, <1>7, <1>8, <1>9, <1>10, <1>11,
     <1>12, <1>13 DEF Next

(* The inductive invariant holds in every state: what is written follows   *)
(* what was granted, file by file (manager.go:203-331).                    *)
THEOREM AcmeInvariant == Spec => []AcmeInv
<1>1. QED
  BY InitInv, StepInv, PTL DEF Spec

(* Every variable stays in its type; no torn file gets into memory.        *)
THEOREM TypeCorrect == Spec => []TypeOK
<1>1. AcmeInv => TypeOK
  BY DEF AcmeInv
<1>2. QED
  BY <1>1, AcmeInvariant, PTL

(* A server never serves a certificate with the key of another, whatever   *)
(* crashes left on disk (manager.go:271-289).                              *)
THEOREM MatchingPair == Spec => []ServedPairMatches
<1>1. AcmeInv => ServedPairMatches
  BY DEF AcmeInv
<1>2. QED
  BY <1>1, AcmeInvariant, PTL

(* Only Reuse and Load put a certificate into service: one comes from the  *)
(* disk, the other has both files behind it.                               *)
LEMMA SavedStep ==
    ASSUME AcmeInv, [Next]_vars, current' \notin {current, NoCert}
    PROVE  disk'["crt"] = current'.crt /\ disk'["key"] = current'.key
<1>1. Reuse \/ Load
  BY DEF Next, vars, Start, LoadUser, Register, Truncate, Fill, Obtain,
         checkAndRenew, Fails, Exit, Tick
<1>2. CASE Reuse
  BY <1>2 DEF Reuse
<1>3. CASE Load
  BY <1>3 DEF Load, AcmeInv, WrittenSoFar
<1>4. QED
  BY <1>1, <1>2, <1>3

(* What goes into service is on disk before (manager.go:303-327).          *)
THEOREM SavedBeforeServed == Spec => ServedIsSaved
<1>1. AcmeInv /\ [Next]_vars =>
        [current' \notin {current, NoCert} =>
            disk'["crt"] = current'.crt /\ disk'["key"] = current'.key]_vars
  BY SavedStep
<1>2. QED
  BY <1>1, AcmeInvariant, PTL DEF Spec, ServedIsSaved

-----------------------------------------------------------------------------
(* Of the account user.json is written first and user.key only after it;   *)
(* what comes after loadOrCreateUser has both.  All this as long as no     *)
(* second account is written over the first.                               *)
AccountInOrder == ~blind =>
    /\ disk["user.json"] = Absent => disk["user.key"] = Absent
    /\ pc = "user.json" => disk["user.key"] = Absent
    /\ pc = "user.key" => disk["user.json"] = accounts /\ disk["user.key"] \notin Account
    /\ pc \in CertFile \union {"cert", "load", "up"} => AccountComplete
    /\ AccountComplete => AccountWhole

LEMMA AccountStep ==
    ASSUME AcmeInv, AccountInOrder, [Next]_vars PROVE AccountInOrder'
<1> USE AcmeAssumption
    DEF AcmeInv, TypeOK, Granted, AccountInOrder, AccountComplete, AccountWhole,
        File, UserFile, CertFile, Account
<1>1. CASE Start
  BY <1>1 DEF Start
<1>2. CASE LoadUser
  BY <1>2 DEF LoadUser
<1>3. CASE Register
  BY <1>3 DEF Register
<1>4. CASE Truncate
  BY <1>4 DEF Truncate
<1>5. CASE Fill
  <2>1. PICK c \in Account \union Serial \union {Torn} :
            /\ disk' = [disk EXCEPT ![pc] = c]
            /\ pc \in UserFile => c = accounts
    BY <1>5, FillEffect
  <2>2. /\ pc \in File /\ pc' = AfterFile[pc]
        /\ UNCHANGED <<accounts, blind>>
    BY <1>5 DEF Fill
  <2>3. CASE pc = "user.json"
    BY <2>1, <2>2, <2>3, FileOrder
  <2>4. CASE pc = "user.key"
    BY <2>1, <2>2, <2>4, FileOrder
  <2>5. CASE pc \in CertFile
    BY <2>1, <2>2, <2>5, FileOrder
  <2> QED
    BY <2>2, <2>3, <2>4, <2>5
<1>6. CASE Reuse \/ Obtain \/ Load \/ checkAndRenew
  BY <1>6 DEF Reuse, Obtain, Load, checkAndRenew
<1>7. CASE Fails
  BY <1>7 DEF Fails, Serving
<1>8. CASE Exit \/ Tick \/ UNCHANGED vars
  BY <1>8 DEF Exit, Tick, vars
<1> QED
  BY <1>1, <1>2, <1>3, <1>4, <1>5, <1>6, <1>7, <1>8 DEF Next

(* A whole account is never written over.                                  *)
LEMMA FinalStep ==
    ASSUME AcmeInv, AccountInOrder, AccountInOrder', [Next]_vars
    PROVE  AccountComplete /\ ~blind' =>
               AccountWhole /\ \A f \in UserFile : disk'[f] = disk[f]
<1> USE AcmeAssumption
    DEF AcmeInv, TypeOK, AccountInOrder, AccountComplete, AccountWhole,
        File, UserFile, CertFile, Account
<1>1. CASE Truncate
  BY <1>1 DEF Truncate, Serving
<1>2. CASE Fill
  <2>1. pc \in UserFile => blind \/ ~AccountComplete
    BY DEF Granted
  <2>2. UNCHANGED blind /\ pc \in File
    BY <1>2 DEF Fill
  <2>3. pc \in CertFile => \A f \in UserFile : disk'[f] = disk[f]
    BY <1>2, FillEffect
  <2> QED
    BY <2>1, <2>2, <2>3
<1>3. CASE Start \/ LoadUser \/ Register \/ Obtain \/ checkAndRenew \/ Tick
  BY <1>3 DEF Start, LoadUser, Register, Obtain, checkAndRenew, Tick, Serving
<1>4. CASE Reuse \/ Load
  BY <1>4 DEF Reuse, Load
<1>5. CASE Fails \/ Exit \/ UNCHANGED vars
  BY <1>5 DEF Fails, Exit, vars, Serving
<1> QED
  BY <1>1, <1>2, <1>3, <1>4, <1>5 DEF Next

(* An account that has been saved is never lost or mixed up with another,  *)
(* unless a start takes it for missing (manager.go:155-201).               *)
THEOREM AccountFinal == Spec => AccountIsFinal
<1>1. Init => AccountInOrder
  BY AcmeAssumption DEF Init, AccountInOrder, AccountComplete, File, UserFile,
     CertFile, Account
<1>2. AcmeInv /\ AccountInOrder /\ [Next]_vars => AccountInOrder'
  BY AccountStep
<1>3. AcmeInv /\ AccountInOrder /\ AccountInOrder' /\ [Next]_vars =>
        [AccountComplete /\ ~blind' =>
             AccountWhole /\ \A f \in UserFile : disk'[f] = disk[f]]_vars
  BY FinalStep
<1>4. QED
  BY <1>1, <1>2, <1>3, AcmeInvariant, PTL DEF Spec, AccountIsFinal

=============================================================================
