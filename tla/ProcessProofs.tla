---------------------------- MODULE ProcessProofs ---------------------------
(***************************************************************************)
(* Theorems about Process and ConfigFile: for any runs of the tool, any    *)
(* number of edits, and any versions with ACME or without use; and that    *)
(* its start, reload and stop implement SecretRotation.                    *)
(***************************************************************************)
EXTENDS Process, TLAPS

\* What the server has: nothing when it is down, and what a reload has read
\* is settings.
OnlyWhenUp ==
    /\ srv = "down" => up = {} /\ listen = "no" /\ ~busy
    /\ srv = "applying" => read \in Version \ Unusable

\* Whoever serves requests is the API server before its stop, or a late one.
Listening ==
    /\ listen = "yes" => "api" \in up
    /\ busy => listen \in {"yes", "late"}

\* A component is up only with all that it needs from before.
InOrder == \A c \in up : Before(c) \cap Needed \subseteq up

SocketsOpen == "turn" \in up => sockets = Required

ServerInv == OnlyWhenUp /\ Listening /\ InOrder /\ SocketsOpen

\* The parts of what keeps the settings: the window is held by one run, which
\* has loaded the last settings and finds the file as it left it, and a file
\* that is created stands for no edits.
OneInWindow ==
    ~raced => \A t, u \in Tool : InWindow(t) /\ InWindow(u) => t = u

LoadedLatest ==
    ~raced => \A t \in Tool :
        tool[t] \in {"loaded", "writing"} => seen[t].version = latest

TornIsBlank == ~raced => \A t \in Tool : Torn(t) => file = Blank

CreatedFirst ==
    /\ file = Missing => latest = 0
    /\ ~raced => \A t \in Tool :
           /\ tool[t] = "creating" => file = Missing
           /\ tool[t] = "filling" => latest = 0

SettingsInv ==
    OneInWindow /\ LoadedLatest /\ TornIsBlank /\ CreatedFirst /\ SettingsKept

\* Runs that are active together both count as having had company.
Company ==
    \A t, u \in Tool : t # u /\ Active(t) /\ Active(u) => t \in overlapped

\* A run that will overwrite the file without having been asked to rotate, or
\* is in the middle of it, finds no foreign key in it but of such runs.
InHand(u) ==
    \/ Active(u) /\ kind[u] = "generate"
    \/ tool[u] \in {"creating", "filling", "writing"}

ForeignKeys ==
    file # Missing =>
        \A u, t \in Tool :
            InHand(u) /\ file.key = t => t = u \/ t \in overlapped

KeyInv == Company /\ ForeignKeys

-----------------------------------------------------------------------------
(* What the file may hold.                                                 *)
LEMMA Contents ==
    /\ Blank \in Content
    /\ Blank # Missing /\ Blank # Garbled
    /\ Garbled \notin Content
    /\ \A f \in Content : f # Missing /\ f # Garbled /\ Readable(f)
    /\ \A f \in Content, t \in Tool : [f EXCEPT !.key = t] \in Content
    /\ [version |-> 0, key |-> NoKey] \in Content
    /\ \A f \in Content \cup {Missing, Garbled} : Readable(f) => f \in Content
<1> USE FileAssumption
<1>1. Blank \in Content
  BY DEF Blank, Content
<1>2. Garbled \notin Content
  BY DEF Garbled, Content
<1>3. [version |-> 0, key |-> NoKey] \in Content
  BY DEF Content, Version
<1>4. \A f \in Content, t \in Tool : [f EXCEPT !.key = t] \in Content
  BY DEF Content
<1>5. QED
  BY <1>1, <1>2, <1>3, <1>4 DEF Readable

(* The steps of a file property are those of a run, and an edit.           *)
LEMMA FileTypeStep ==
    ASSUME FileTypeOK, FileNext PROVE FileTypeOK'
<1> USE FileAssumption, Contents
<1>1. ASSUME Edit PROVE FileTypeOK'
  <2>1. latest + 1 \in Version
    BY <1>1 DEF Edit, FileTypeOK, Version
  <2>2. (IF Readable(file) THEN file.key ELSE NoKey) \in Tool \cup {NoKey}
    BY DEF FileTypeOK, Content
  <2>3. file' \in Content
    BY <1>1, <2>1, <2>2 DEF Edit, Content
  <2>4. QED
    BY <1>1, <2>1, <2>3 DEF Edit, FileTypeOK
<1>2. ASSUME NEW t \in Tool, ToolStep(t) PROVE FileTypeOK'
  <2>1. CASE GenerateFindsNone(t)
    BY <2>1 DEF GenerateFindsNone, Begin, EnterWindow, FileTypeOK, ToolState, Others
  <2>2. CASE CreateFile(t)
    BY <2>2 DEF CreateFile, Proceed, FileTypeOK, ToolState, Others
  <2>3. CASE CreateDefault(t)
    BY <2>3 DEF CreateDefault, Proceed, Fill, FileTypeOK, ToolState, Others
  <2>4. CASE GenerateChecks(t)
    BY <2>4 DEF GenerateChecks, Begin, FileTypeOK, ToolState, Others
  <2>5. CASE RotateChecks(t)
    BY <2>5 DEF RotateChecks, Begin, FileTypeOK, ToolState, Others
  <2>6. CASE OperatorAnswers(t)
    BY <2>6 DEF OperatorAnswers, Proceed, FileTypeOK, ToolState, Others
  <2>7. CASE LoadAgain(t)
    BY <2>7 DEF LoadAgain, Proceed, EnterWindow, FileTypeOK, ToolState, Others
  <2>8. CASE LoadFails(t)
    BY <2>8 DEF LoadFails, Proceed, FileTypeOK, ToolState, Others
  <2>9. CASE Truncate(t)
    BY <2>9 DEF Truncate, Proceed, FileTypeOK, ToolState, Others
  <2>10. CASE WriteKey(t)
    BY <2>10 DEF WriteKey, Proceed, Fill, FileTypeOK, ToolState, Others
  <2>11. CASE Announce(t)
    BY <2>11 DEF Announce, Proceed, FileTypeOK, ToolState, Others
  <2>12. CASE Kill(t)
    BY <2>12 DEF Kill, FileTypeOK, ToolState, Others
  <2>13. CASE GenerateBlind(t)
    BY <2>13 DEF GenerateBlind, FileTypeOK, ToolState, Others
  <2>14. QED
    BY <1>2, <2>1, <2>2, <2>3, <2>4, <2>5, <2>6, <2>7, <2>8, <2>9, <2>10, <2>11, <2>12, <2>13 DEF ToolStep
<1>3. QED
  BY <1>1, <1>2 DEF FileNext

(* The window passes from run to run, and with it the last settings.       *)
LEMMA SettingsStep ==
    ASSUME FileTypeOK, SettingsInv, FileNext PROVE SettingsInv'
<1> USE FileAssumption, Contents
<1> USE DEF SettingsInv
<1>1. ASSUME Edit PROVE SettingsInv'
  BY <1>1 DEF Edit, FileTypeOK, Content, Version, OneInWindow, LoadedLatest, TornIsBlank, CreatedFirst, SettingsKept, InWindow, Torn
<1>2. ASSUME NEW t \in Tool, ToolStep(t) PROVE SettingsInv'
  <2>1. CASE GenerateFindsNone(t)
    <3>1. OneInWindow'
      BY <2>1 DEF GenerateFindsNone, Begin, EnterWindow, FileTypeOK, Blank, OneInWindow, LoadedLatest, TornIsBlank, CreatedFirst, SettingsKept, InWindow, Torn, Active
    <3>2. LoadedLatest'
      BY <2>1 DEF GenerateFindsNone, Begin, EnterWindow, FileTypeOK, Blank, OneInWindow, LoadedLatest, TornIsBlank, CreatedFirst, SettingsKept, InWindow, Torn, Active
    <3>3. TornIsBlank'
      BY <2>1 DEF GenerateFindsNone, Begin, EnterWindow, FileTypeOK, Blank, OneInWindow, LoadedLatest, TornIsBlank, CreatedFirst, SettingsKept, InWindow, Torn, Active
    <3>4. CreatedFirst'
      BY <2>1 DEF GenerateFindsNone, Begin, EnterWindow, FileTypeOK, Blank, OneInWindow, LoadedLatest, TornIsBlank, CreatedFirst, SettingsKept, InWindow, Torn, Active
    <3>5. SettingsKept'
      BY <2>1 DEF GenerateFindsNone, Begin, EnterWindow, FileTypeOK, Blank, OneInWindow, LoadedLatest, TornIsBlank, CreatedFirst, SettingsKept, InWindow, Torn, Active
    <3>6. QED
      BY <3>1, <3>2, <3>3, <3>4, <3>5
  <2>2. CASE CreateFile(t)
    <3>1. OneInWindow'
      BY <2>2 DEF CreateFile, Proceed, FileTypeOK, Blank, OneInWindow, LoadedLatest, TornIsBlank, CreatedFirst, SettingsKept, InWindow, Torn, Active
    <3>2. LoadedLatest'
      BY <2>2 DEF CreateFile, Proceed, FileTypeOK, Blank, OneInWindow, LoadedLatest, TornIsBlank, CreatedFirst, SettingsKept, InWindow, Torn, Active
    <3>3. TornIsBlank'
      BY <2>2 DEF CreateFile, Proceed, FileTypeOK, Blank, OneInWindow, LoadedLatest, TornIsBlank, CreatedFirst, SettingsKept, InWindow, Torn, Active
    <3>4. CreatedFirst'
      BY <2>2 DEF CreateFile, Proceed, FileTypeOK, Blank, OneInWindow, LoadedLatest, TornIsBlank, CreatedFirst, SettingsKept, InWindow, Torn, Active
    <3>5. SettingsKept'
      BY <2>2 DEF CreateFile, Proceed, FileTypeOK, Blank, OneInWindow, LoadedLatest, TornIsBlank, CreatedFirst, SettingsKept, InWindow, Torn, Active
    <3>6. QED
      BY <3>1, <3>2, <3>3, <3>4, <3>5
  <2>3. CASE CreateDefault(t)
    <3>1. OneInWindow'
      BY <2>3 DEF CreateDefault, Proceed, Fill, FileTypeOK, Blank, OneInWindow, LoadedLatest, TornIsBlank, CreatedFirst, SettingsKept, InWindow, Torn, Active
    <3>2. LoadedLatest'
      BY <2>3 DEF CreateDefault, Proceed, Fill, FileTypeOK, Blank, OneInWindow, LoadedLatest, TornIsBlank, CreatedFirst, SettingsKept, InWindow, Torn, Active
    <3>3. TornIsBlank'
      BY <2>3 DEF CreateDefault, Proceed, Fill, FileTypeOK, Blank, OneInWindow, LoadedLatest, TornIsBlank, CreatedFirst, SettingsKept, InWindow, Torn, Active
    <3>4. CreatedFirst'
      BY <2>3 DEF CreateDefault, Proceed, Fill, FileTypeOK, Blank, OneInWindow, LoadedLatest, TornIsBlank, CreatedFirst, SettingsKept, InWindow, Torn, Active
    <3>5. SettingsKept'
      BY <2>3 DEF CreateDefault, Proceed, Fill, FileTypeOK, Blank, OneInWindow, LoadedLatest, TornIsBlank, CreatedFirst, SettingsKept, InWindow, Torn, Active
    <3>6. QED
      BY <3>1, <3>2, <3>3, <3>4, <3>5
  <2>4. CASE GenerateChecks(t)
    <3>1. OneInWindow'
      BY <2>4 DEF GenerateChecks, Begin, FileTypeOK, Blank, OneInWindow, LoadedLatest, TornIsBlank, CreatedFirst, SettingsKept, InWindow, Torn, Active
    <3>2. LoadedLatest'
      BY <2>4 DEF GenerateChecks, Begin, FileTypeOK, Blank, OneInWindow, LoadedLatest, TornIsBlank, CreatedFirst, SettingsKept, InWindow, Torn, Active
    <3>3. TornIsBlank'
      BY <2>4 DEF GenerateChecks, Begin, FileTypeOK, Blank, OneInWindow, LoadedLatest, TornIsBlank, CreatedFirst, SettingsKept, InWindow, Torn, Active
    <3>4. CreatedFirst'
      BY <2>4 DEF GenerateChecks, Begin, FileTypeOK, Blank, OneInWindow, LoadedLatest, TornIsBlank, CreatedFirst, SettingsKept, InWindow, Torn, Active
    <3>5. SettingsKept'
      BY <2>4 DEF GenerateChecks, Begin, FileTypeOK, Blank, OneInWindow, LoadedLatest, TornIsBlank, CreatedFirst, SettingsKept, InWindow, Torn, Active
    <3>6. QED
      BY <3>1, <3>2, <3>3, <3>4, <3>5
  <2>5. CASE RotateChecks(t)
    <3>1. OneInWindow'
      BY <2>5 DEF RotateChecks, Begin, FileTypeOK, Blank, OneInWindow, LoadedLatest, TornIsBlank, CreatedFirst, SettingsKept, InWindow, Torn, Active
    <3>2. LoadedLatest'
      BY <2>5 DEF RotateChecks, Begin, FileTypeOK, Blank, OneInWindow, LoadedLatest, TornIsBlank, CreatedFirst, SettingsKept, InWindow, Torn, Active
    <3>3. TornIsBlank'
      BY <2>5 DEF RotateChecks, Begin, FileTypeOK, Blank, OneInWindow, LoadedLatest, TornIsBlank, CreatedFirst, SettingsKept, InWindow, Torn, Active
    <3>4. CreatedFirst'
      BY <2>5 DEF RotateChecks, Begin, FileTypeOK, Blank, OneInWindow, LoadedLatest, TornIsBlank, CreatedFirst, SettingsKept, InWindow, Torn, Active
    <3>5. SettingsKept'
      BY <2>5 DEF RotateChecks, Begin, FileTypeOK, Blank, OneInWindow, LoadedLatest, TornIsBlank, CreatedFirst, SettingsKept, InWindow, Torn, Active
    <3>6. QED
      BY <3>1, <3>2, <3>3, <3>4, <3>5
  <2>6. CASE OperatorAnswers(t)
    <3>1. OneInWindow'
      BY <2>6 DEF OperatorAnswers, Proceed, FileTypeOK, Blank, OneInWindow, LoadedLatest, TornIsBlank, CreatedFirst, SettingsKept, InWindow, Torn, Active
    <3>2. LoadedLatest'
      BY <2>6 DEF OperatorAnswers, Proceed, FileTypeOK, Blank, OneInWindow, LoadedLatest, TornIsBlank, CreatedFirst, SettingsKept, InWindow, Torn, Active
    <3>3. TornIsBlank'
      BY <2>6 DEF OperatorAnswers, Proceed, FileTypeOK, Blank, OneInWindow, LoadedLatest, TornIsBlank, CreatedFirst, SettingsKept, InWindow, Torn, Active
    <3>4. CreatedFirst'
      BY <2>6 DEF OperatorAnswers, Proceed, FileTypeOK, Blank, OneInWindow, LoadedLatest, TornIsBlank, CreatedFirst, SettingsKept, InWindow, Torn, Active
    <3>5. SettingsKept'
      BY <2>6 DEF OperatorAnswers, Proceed, FileTypeOK, Blank, OneInWindow, LoadedLatest, TornIsBlank, CreatedFirst, SettingsKept, InWindow, Torn, Active
    <3>6. QED
      BY <3>1, <3>2, <3>3, <3>4, <3>5
  <2>7. CASE LoadAgain(t)
    <3>1. OneInWindow'
      BY <2>7 DEF LoadAgain, Proceed, EnterWindow, FileTypeOK, Blank, OneInWindow, LoadedLatest, TornIsBlank, CreatedFirst, SettingsKept, InWindow, Torn, Active
    <3>2. LoadedLatest'
      BY <2>7 DEF LoadAgain, Proceed, EnterWindow, FileTypeOK, Blank, OneInWindow, LoadedLatest, TornIsBlank, CreatedFirst, SettingsKept, InWindow, Torn, Active
    <3>3. TornIsBlank'
      BY <2>7 DEF LoadAgain, Proceed, EnterWindow, FileTypeOK, Blank, OneInWindow, LoadedLatest, TornIsBlank, CreatedFirst, SettingsKept, InWindow, Torn, Active
    <3>4. CreatedFirst'
      BY <2>7 DEF LoadAgain, Proceed, EnterWindow, FileTypeOK, Blank, OneInWindow, LoadedLatest, TornIsBlank, CreatedFirst, SettingsKept, InWindow, Torn, Active
    <3>5. SettingsKept'
      BY <2>7 DEF LoadAgain, Proceed, EnterWindow, FileTypeOK, Blank, OneInWindow, LoadedLatest, TornIsBlank, CreatedFirst, SettingsKept, InWindow, Torn, Active
    <3>6. QED
      BY <3>1, <3>2, <3>3, <3>4, <3>5
  <2>8. CASE LoadFails(t)
    <3>1. OneInWindow'
      BY <2>8 DEF LoadFails, Proceed, FileTypeOK, Blank, OneInWindow, LoadedLatest, TornIsBlank, CreatedFirst, SettingsKept, InWindow, Torn, Active
    <3>2. LoadedLatest'
      BY <2>8 DEF LoadFails, Proceed, FileTypeOK, Blank, OneInWindow, LoadedLatest, TornIsBlank, CreatedFirst, SettingsKept, InWindow, Torn, Active
    <3>3. TornIsBlank'
      BY <2>8 DEF LoadFails, Proceed, FileTypeOK, Blank, OneInWindow, LoadedLatest, TornIsBlank, CreatedFirst, SettingsKept, InWindow, Torn, Active
    <3>4. CreatedFirst'
      BY <2>8 DEF LoadFails, Proceed, FileTypeOK, Blank, OneInWindow, LoadedLatest, TornIsBlank, CreatedFirst, SettingsKept, InWindow, Torn, Active
    <3>5. SettingsKept'
      BY <2>8 DEF LoadFails, Proceed, FileTypeOK, Blank, OneInWindow, LoadedLatest, TornIsBlank, CreatedFirst, SettingsKept, InWindow, Torn, Active
    <3>6. QED
      BY <3>1, <3>2, <3>3, <3>4, <3>5
  <2>9. CASE Truncate(t)
    <3>1. OneInWindow'
      BY <2>9 DEF Truncate, Proceed, FileTypeOK, Blank, OneInWindow, LoadedLatest, TornIsBlank, CreatedFirst, SettingsKept, InWindow, Torn, Active
    <3>2. LoadedLatest'
      BY <2>9 DEF Truncate, Proceed, FileTypeOK, Blank, OneInWindow, LoadedLatest, TornIsBlank, CreatedFirst, SettingsKept, InWindow, Torn, Active
    <3>3. TornIsBlank'
      BY <2>9 DEF Truncate, Proceed, FileTypeOK, Blank, OneInWindow, LoadedLatest, TornIsBlank, CreatedFirst, SettingsKept, InWindow, Torn, Active
    <3>4. CreatedFirst'
      BY <2>9 DEF Truncate, Proceed, FileTypeOK, Blank, OneInWindow, LoadedLatest, TornIsBlank, CreatedFirst, SettingsKept, InWindow, Torn, Active
    <3>5. SettingsKept'
      BY <2>9 DEF Truncate, Proceed, FileTypeOK, Blank, OneInWindow, LoadedLatest, TornIsBlank, CreatedFirst, SettingsKept, InWindow, Torn, Active
    <3>6. QED
      BY <3>1, <3>2, <3>3, <3>4, <3>5
  <2>10. CASE WriteKey(t)
    <3>1. OneInWindow'
      BY <2>10 DEF WriteKey, Proceed, Fill, FileTypeOK, Blank, OneInWindow, LoadedLatest, TornIsBlank, CreatedFirst, SettingsKept, InWindow, Torn, Active
    <3>2. LoadedLatest'
      BY <2>10 DEF WriteKey, Proceed, Fill, FileTypeOK, Blank, OneInWindow, LoadedLatest, TornIsBlank, CreatedFirst, SettingsKept, InWindow, Torn, Active
    <3>3. TornIsBlank'
      BY <2>10 DEF WriteKey, Proceed, Fill, FileTypeOK, Blank, OneInWindow, LoadedLatest, TornIsBlank, CreatedFirst, SettingsKept, InWindow, Torn, Active
    <3>4. CreatedFirst'
      BY <2>10 DEF WriteKey, Proceed, Fill, FileTypeOK, Blank, OneInWindow, LoadedLatest, TornIsBlank, CreatedFirst, SettingsKept, InWindow, Torn, Active
    <3>5. SettingsKept'
      <4>1. seen[t] \in Content /\ [seen[t] EXCEPT !.key = t].version = seen[t].version
        BY DEF FileTypeOK, Content
      <4>2. ~raced => file = Blank /\ seen[t].version = latest
        BY <2>10 DEF WriteKey, Proceed, LoadedLatest, TornIsBlank, Torn
      <4>3. ~raced => file'.version = latest
        BY <2>10, <4>1, <4>2 DEF WriteKey, Fill
      <4>4. QED
        BY <2>10, <4>3 DEF WriteKey, SettingsKept
    <3>6. QED
      BY <3>1, <3>2, <3>3, <3>4, <3>5
  <2>11. CASE Announce(t)
    <3>1. OneInWindow'
      BY <2>11 DEF Announce, Proceed, FileTypeOK, Blank, OneInWindow, LoadedLatest, TornIsBlank, CreatedFirst, SettingsKept, InWindow, Torn, Active
    <3>2. LoadedLatest'
      BY <2>11 DEF Announce, Proceed, FileTypeOK, Blank, OneInWindow, LoadedLatest, TornIsBlank, CreatedFirst, SettingsKept, InWindow, Torn, Active
    <3>3. TornIsBlank'
      BY <2>11 DEF Announce, Proceed, FileTypeOK, Blank, OneInWindow, LoadedLatest, TornIsBlank, CreatedFirst, SettingsKept, InWindow, Torn, Active
    <3>4. CreatedFirst'
      BY <2>11 DEF Announce, Proceed, FileTypeOK, Blank, OneInWindow, LoadedLatest, TornIsBlank, CreatedFirst, SettingsKept, InWindow, Torn, Active
    <3>5. SettingsKept'
      BY <2>11 DEF Announce, Proceed, FileTypeOK, Blank, OneInWindow, LoadedLatest, TornIsBlank, CreatedFirst, SettingsKept, InWindow, Torn, Active
    <3>6. QED
      BY <3>1, <3>2, <3>3, <3>4, <3>5
  <2>12. CASE Kill(t)
    <3>1. OneInWindow'
      BY <2>12 DEF Kill, FileTypeOK, Blank, OneInWindow, LoadedLatest, TornIsBlank, CreatedFirst, SettingsKept, InWindow, Torn, Active
    <3>2. LoadedLatest'
      BY <2>12 DEF Kill, FileTypeOK, Blank, OneInWindow, LoadedLatest, TornIsBlank, CreatedFirst, SettingsKept, InWindow, Torn, Active
    <3>3. TornIsBlank'
      BY <2>12 DEF Kill, FileTypeOK, Blank, OneInWindow, LoadedLatest, TornIsBlank, CreatedFirst, SettingsKept, InWindow, Torn, Active
    <3>4. CreatedFirst'
      BY <2>12 DEF Kill, FileTypeOK, Blank, OneInWindow, LoadedLatest, TornIsBlank, CreatedFirst, SettingsKept, InWindow, Torn, Active
    <3>5. SettingsKept'
      BY <2>12 DEF Kill, FileTypeOK, Blank, OneInWindow, LoadedLatest, TornIsBlank, CreatedFirst, SettingsKept, InWindow, Torn, Active
    <3>6. QED
      BY <3>1, <3>2, <3>3, <3>4, <3>5
  <2>13. CASE GenerateBlind(t)
    BY <2>13 DEF GenerateBlind, OneInWindow, LoadedLatest, TornIsBlank, CreatedFirst, SettingsKept
  <2>14. QED
    BY <1>2, <2>1, <2>2, <2>3, <2>4, <2>5, <2>6, <2>7, <2>8, <2>9, <2>10, <2>11, <2>12, <2>13 DEF ToolStep
<1>3. QED
  BY <1>1, <1>2 DEF FileNext

(* A key of one run comes under the hand of another only when both were    *)
(* active together, or by a rotation.                                      *)
LEMMA KeyStep ==
    ASSUME FileTypeOK, KeyInv, FileNext PROVE KeyInv'
<1> USE FileAssumption, Contents
<1> USE DEF KeyInv
<1>1. ASSUME Edit PROVE KeyInv'
  <2>1. Company'
    BY <1>1 DEF Edit, Company, Active
  <2>2. ForeignKeys'
    BY <1>1 DEF Edit, ForeignKeys, InHand, Active, FileTypeOK, Readable
  <2>3. QED
    BY <2>1, <2>2
<1>2. ASSUME NEW t \in Tool, ToolStep(t) PROVE KeyInv'
  <2>1. CASE GenerateFindsNone(t)
    <3>1. Company'
      BY <2>1 DEF GenerateFindsNone, Begin, EnterWindow, FileTypeOK, Company, Active, Others
    <3>2. ForeignKeys'
      BY <2>1 DEF GenerateFindsNone, Begin, EnterWindow, FileTypeOK, Blank, Garbled, Company, ForeignKeys, InHand, Active, Others
    <3>3. QED
      BY <3>1, <3>2
  <2>2. CASE CreateFile(t)
    <3>1. Company'
      BY <2>2 DEF CreateFile, Proceed, FileTypeOK, Company, Active, Others
    <3>2. ForeignKeys'
      BY <2>2 DEF CreateFile, Proceed, FileTypeOK, Blank, Garbled, Company, ForeignKeys, InHand, Active, Others
    <3>3. QED
      BY <3>1, <3>2
  <2>3. CASE CreateDefault(t)
    <3>1. Company'
      BY <2>3 DEF CreateDefault, Proceed, Fill, FileTypeOK, Company, Active, Others
    <3>2. ForeignKeys'
      BY <2>3 DEF CreateDefault, Proceed, Fill, FileTypeOK, Blank, Garbled, Company, ForeignKeys, InHand, Active, Others
    <3>3. QED
      BY <3>1, <3>2
  <2>4. CASE GenerateChecks(t)
    <3>1. Company'
      BY <2>4 DEF GenerateChecks, Begin, FileTypeOK, Company, Active, Others
    <3>2. ForeignKeys'
      BY <2>4 DEF GenerateChecks, Begin, FileTypeOK, Blank, Garbled, Company, ForeignKeys, InHand, Active, Others
    <3>3. QED
      BY <3>1, <3>2
  <2>5. CASE RotateChecks(t)
    <3>1. Company'
      BY <2>5 DEF RotateChecks, Begin, FileTypeOK, Company, Active, Others
    <3>2. ForeignKeys'
      BY <2>5 DEF RotateChecks, Begin, FileTypeOK, Blank, Garbled, Company, ForeignKeys, InHand, Active, Others
    <3>3. QED
      BY <3>1, <3>2
  <2>6. CASE OperatorAnswers(t)
    <3>1. Company'
      BY <2>6 DEF OperatorAnswers, Proceed, FileTypeOK, Company, Active, Others
    <3>2. ForeignKeys'
      BY <2>6 DEF OperatorAnswers, Proceed, FileTypeOK, Blank, Garbled, Company, ForeignKeys, InHand, Active, Others
    <3>3. QED
      BY <3>1, <3>2
  <2>7. CASE LoadAgain(t)
    <3>1. Company'
      BY <2>7 DEF LoadAgain, Proceed, EnterWindow, FileTypeOK, Company, Active, Others
    <3>2. ForeignKeys'
      BY <2>7 DEF LoadAgain, Proceed, EnterWindow, FileTypeOK, Blank, Garbled, Company, ForeignKeys, InHand, Active, Others
    <3>3. QED
      BY <3>1, <3>2
  <2>8. CASE LoadFails(t)
    <3>1. Company'
      BY <2>8 DEF LoadFails, Proceed, FileTypeOK, Company, Active, Others
    <3>2. ForeignKeys'
      BY <2>8 DEF LoadFails, Proceed, FileTypeOK, Blank, Garbled, Company, ForeignKeys, InHand, Active, Others
    <3>3. QED
      BY <3>1, <3>2
  <2>9. CASE Truncate(t)
    <3>1. Company'
      BY <2>9 DEF Truncate, Proceed, FileTypeOK, Company, Active, Others
    <3>2. ForeignKeys'
      BY <2>9 DEF Truncate, Proceed, FileTypeOK, Blank, Garbled, Company, ForeignKeys, InHand, Active, Others
    <3>3. QED
      BY <3>1, <3>2
  <2>10. CASE WriteKey(t)
    <3>1. Company'
      BY <2>10 DEF WriteKey, Proceed, Fill, FileTypeOK, Company, Active, Others
    <3>2. ForeignKeys'
      <4>1. seen[t] \in Content /\ [seen[t] EXCEPT !.key = t].key = t
        BY DEF FileTypeOK, Content
      <4>2. file'.key = t \/ file' = file \/ file'.key = Lost
        <5>1. Garbled.key = Lost
          BY DEF Garbled
        <5>2. \/ file' = [seen[t] EXCEPT !.key = t]
              \/ file' = file \/ file' = Garbled
          BY <2>10 DEF WriteKey, Fill
        <5>3. QED
          BY <4>1, <5>1, <5>2
      <4>3. ASSUME NEW v \in Tool \ {t}, Active(v) PROVE t \in overlapped
        BY <2>10, <4>3 DEF WriteKey, Proceed, Company, Active
      <4>4. QED
        BY <2>10, <4>2, <4>3 DEF WriteKey, Proceed, FileTypeOK, Blank, Garbled, Company, ForeignKeys, InHand, Active, Others
    <3>3. QED
      BY <3>1, <3>2
  <2>11. CASE Announce(t)
    <3>1. Company'
      BY <2>11 DEF Announce, Proceed, FileTypeOK, Company, Active, Others
    <3>2. ForeignKeys'
      BY <2>11 DEF Announce, Proceed, FileTypeOK, Blank, Garbled, Company, ForeignKeys, InHand, Active, Others
    <3>3. QED
      BY <3>1, <3>2
  <2>12. CASE Kill(t)
    <3>1. Company'
      BY <2>12 DEF Kill, FileTypeOK, Company, Active, Others
    <3>2. ForeignKeys'
      BY <2>12 DEF Kill, FileTypeOK, Blank, Garbled, Company, ForeignKeys, InHand, Active, Others
    <3>3. QED
      BY <3>1, <3>2
  <2>13. CASE GenerateBlind(t)
    <3>1. Company'
      BY <2>13 DEF GenerateBlind, FileTypeOK, Company, Active, Others
    <3>2. ForeignKeys'
      BY <2>13 DEF GenerateBlind, FileTypeOK, ForeignKeys, InHand, Active, Others
    <3>3. QED
      BY <3>1, <3>2
  <2>14. QED
    BY <1>2, <2>1, <2>2, <2>3, <2>4, <2>5, <2>6, <2>7, <2>8, <2>9, <2>10, <2>11, <2>12, <2>13 DEF ToolStep
<1>3. QED
  BY <1>1, <1>2 DEF FileNext

-----------------------------------------------------------------------------
(* Components go up and down in order, the sockets with the TURN server.   *)
LEMMA ServerStep ==
    ASSUME TypeOK, ServerInv, [Next]_vars PROVE ServerInv'
<1> USE ProcessAssumption DEF ServerInv
<1>1. CASE Boot
  BY <1>1 DEF Boot, TypeOK, OnlyWhenUp, Listening, InOrder, SocketsOpen, Needed, Required, Loads
<1>2. CASE StartFails
  BY <1>2 DEF StartFails, Gone, TypeOK, OnlyWhenUp, Listening, InOrder, SocketsOpen, Needed, Required, Loads
<1>3. CASE Notify
  BY <1>3 DEF Notify, TypeOK, OnlyWhenUp, Listening, InOrder, SocketsOpen, Needed, Required, Loads
<1>4. CASE Listen
  BY <1>4 DEF Listen, TypeOK, OnlyWhenUp, Listening, InOrder, SocketsOpen, Needed, Required, Loads
<1>5. CASE Receive
  BY <1>5 DEF Receive, TypeOK, OnlyWhenUp, Listening, InOrder, SocketsOpen, Needed, Required, Loads
<1>6. CASE ReloadReads
  BY <1>6 DEF ReloadReads, TypeOK, OnlyWhenUp, Listening, InOrder, SocketsOpen, Needed, Required, Loads
<1>7. CASE ReloadApplies
  BY <1>7 DEF ReloadApplies, TypeOK, OnlyWhenUp, Listening, InOrder, SocketsOpen, Needed, Required, Loads
<1>8. CASE Exit
  BY <1>8 DEF Exit, Gone, TypeOK, OnlyWhenUp, Listening, InOrder, SocketsOpen, Needed, Required, Loads
<1>9. CASE Crash
  BY <1>9 DEF Crash, Gone, TypeOK, OnlyWhenUp, Listening, InOrder, SocketsOpen, Needed, Required, Loads
<1>10. CASE RequestBegins
  BY <1>10 DEF RequestBegins, TypeOK, OnlyWhenUp, Listening, InOrder, SocketsOpen, Needed, Required, Loads
<1>11. CASE RequestEnds
  BY <1>11 DEF RequestEnds, TypeOK, OnlyWhenUp, Listening, InOrder, SocketsOpen, Needed, Required, Loads
<1>12. ASSUME NEW c \in Component, StartComponent(c) PROVE ServerInv'
  BY <1>12 DEF StartComponent, TypeOK, OnlyWhenUp, Listening, InOrder, SocketsOpen, Needed, Required, IsNext, Before, Rank, Component
<1>13. ASSUME NEW c \in Component, StopComponent(c) PROVE ServerInv'
  BY <1>13 DEF StopComponent, TypeOK, OnlyWhenUp, Listening, InOrder, SocketsOpen, Needed, Required, Before, Rank, Component
<1>14. ASSUME NEW sig \in {"HUP", "TERM"}, OperatorSends(sig) PROVE ServerInv'
  BY <1>14 DEF OperatorSends, Enqueue, TypeOK, OnlyWhenUp, Listening, InOrder, SocketsOpen, Needed, Required, Loads
<1>15. CASE FileNext /\ UNCHANGED procVars
  BY <1>15 DEF procVars, TypeOK, OnlyWhenUp, Listening, InOrder, SocketsOpen, Needed, Required, Loads
<1>16. CASE UNCHANGED vars
  BY <1>16 DEF vars, procVars, fileVars, TypeOK, OnlyWhenUp, Listening, InOrder, SocketsOpen, Needed, Required, Loads
<1>17. QED
  BY <1>1, <1>2, <1>3, <1>4, <1>5, <1>6, <1>7, <1>8, <1>9, <1>10, <1>11, <1>12, <1>13, <1>14, <1>15, <1>16 DEF Next, Server, Main

-----------------------------------------------------------------------------
(* The same for the types of the whole.                                    *)
LEMMA TypeStep ==
    ASSUME TypeOK, ServerInv, [Next]_vars PROVE TypeOK'
<1> USE ProcessAssumption, FileAssumption, Contents
<1>0. ASSUME UNCHANGED fileVars PROVE FileTypeOK'
  BY <1>0 DEF TypeOK, FileTypeOK, fileVars
<1>1. CASE Boot
  BY <1>1, <1>0 DEF Boot, TypeOK, ServerInv, OnlyWhenUp, Loads, FileTypeOK
<1>2. CASE StartFails
  BY <1>2, <1>0 DEF StartFails, Gone, TypeOK, ServerInv, OnlyWhenUp, Loads
<1>3. CASE Notify
  BY <1>3, <1>0 DEF Notify, TypeOK, ServerInv, OnlyWhenUp, Loads
<1>4. CASE Listen
  BY <1>4, <1>0 DEF Listen, TypeOK, ServerInv, OnlyWhenUp, Loads
<1>5. CASE Receive
  BY <1>5, <1>0 DEF Receive, TypeOK, ServerInv, OnlyWhenUp, Loads
<1>6. CASE ReloadReads
  BY <1>6, <1>0 DEF ReloadReads, TypeOK, ServerInv, OnlyWhenUp, Loads, FileTypeOK
<1>7. CASE ReloadApplies
  BY <1>7, <1>0 DEF ReloadApplies, TypeOK, ServerInv, OnlyWhenUp, Loads
<1>8. CASE Exit
  BY <1>8, <1>0 DEF Exit, Gone, TypeOK, ServerInv, OnlyWhenUp, Loads
<1>9. CASE Crash
  BY <1>9, <1>0 DEF Crash, Gone, TypeOK, ServerInv, OnlyWhenUp, Loads
<1>10. CASE RequestBegins
  BY <1>10, <1>0 DEF RequestBegins, TypeOK, ServerInv, OnlyWhenUp, Loads
<1>11. CASE RequestEnds
  BY <1>11, <1>0 DEF RequestEnds, TypeOK, ServerInv, OnlyWhenUp, Loads
<1>12. ASSUME NEW c \in Component, StartComponent(c) PROVE TypeOK'
  BY <1>12, <1>0 DEF StartComponent, IsNext, Required, Socket, TypeOK, ServerInv, OnlyWhenUp, Loads
<1>13. ASSUME NEW c \in Component, StopComponent(c) PROVE TypeOK'
  BY <1>13, <1>0 DEF StopComponent, TypeOK, ServerInv, OnlyWhenUp, Loads
<1>14. ASSUME NEW sig \in {"HUP", "TERM"}, OperatorSends(sig) PROVE TypeOK'
  BY <1>14, <1>0 DEF OperatorSends, Enqueue, TypeOK, ServerInv, OnlyWhenUp, Loads
<1>15. CASE FileNext /\ UNCHANGED procVars
  <2>1. FileTypeOK'
    BY <1>15, FileTypeStep DEF TypeOK
  <2>2. QED
    BY <1>15, <2>1 DEF TypeOK, procVars
<1>16. CASE UNCHANGED vars
  BY <1>16, <1>0 DEF TypeOK, vars, procVars
<1>17. QED
  BY <1>1, <1>2, <1>3, <1>4, <1>5, <1>6, <1>7, <1>8, <1>9, <1>10, <1>11, <1>12, <1>13, <1>14, <1>15, <1>16 DEF Next, Server, Main

-----------------------------------------------------------------------------
ProcInv == TypeOK /\ ServerInv /\ SettingsInv /\ KeyInv

(* The inductive invariant, and why it is one.                             *)
LEMMA InvInit == ASSUME Init PROVE ProcInv
<1> USE FileAssumption, ProcessAssumption, Contents
<1>1. TypeOK
  <2>1. 0 \in Version
    BY DEF Version
  <2>2. FileTypeOK
    BY <2>1 DEF Init, FileInit, FileTypeOK, ToolState
  <2>3. QED
    BY <2>2 DEF Init, TypeOK
<1>2. ServerInv
  BY DEF Init, ServerInv, OnlyWhenUp, Listening, InOrder, SocketsOpen
<1>3. SettingsInv
  BY DEF Init, FileInit, SettingsInv, OneInWindow, LoadedLatest, TornIsBlank,
         CreatedFirst, SettingsKept, InWindow, Torn
<1>4. KeyInv
  BY DEF Init, FileInit, KeyInv, Company, ForeignKeys, InHand, Active
<1>5. QED
  BY <1>1, <1>2, <1>3, <1>4 DEF ProcInv

(* The steps of the process leave the file alone.                          *)
LEMMA FileOrNot ==
    ASSUME [Next]_vars PROVE FileNext \/ UNCHANGED fileVars
<1> USE DEF Gone
<1>1. CASE Boot
  BY <1>1 DEF Boot
<1>2. CASE StartFails
  BY <1>2 DEF StartFails
<1>3. CASE Notify
  BY <1>3 DEF Notify
<1>4. CASE Listen
  BY <1>4 DEF Listen
<1>5. CASE Receive
  BY <1>5 DEF Receive
<1>6. CASE ReloadReads
  BY <1>6 DEF ReloadReads
<1>7. CASE ReloadApplies
  BY <1>7 DEF ReloadApplies
<1>8. CASE Exit
  BY <1>8 DEF Exit
<1>9. CASE Crash
  BY <1>9 DEF Crash
<1>10. CASE RequestBegins
  BY <1>10 DEF RequestBegins
<1>11. CASE RequestEnds
  BY <1>11 DEF RequestEnds
<1>12. ASSUME NEW c \in Component, StartComponent(c) PROVE FileNext \/ UNCHANGED fileVars
  BY <1>12 DEF StartComponent
<1>13. ASSUME NEW c \in Component, StopComponent(c) PROVE FileNext \/ UNCHANGED fileVars
  BY <1>13 DEF StopComponent
<1>14. ASSUME NEW sig \in {"HUP", "TERM"}, OperatorSends(sig) PROVE FileNext \/ UNCHANGED fileVars
  BY <1>14 DEF OperatorSends
<1>15. CASE FileNext /\ UNCHANGED procVars
  BY <1>15
<1>16. CASE UNCHANGED vars
  BY <1>16 DEF vars
<1>17. QED
  BY <1>1, <1>2, <1>3, <1>4, <1>5, <1>6, <1>7, <1>8, <1>9, <1>10, <1>11, <1>12, <1>13, <1>14, <1>15, <1>16 DEF Next, Server, Main

(* A step of the file keeps the parts about the file, a step of the server *)
(* does not touch them.                                                    *)
LEMMA InvStep == ASSUME ProcInv, [Next]_vars PROVE ProcInv'
<1> USE DEF ProcInv
<1>1. TypeOK'
  BY TypeStep
<1>2. ServerInv'
  BY ServerStep
<1>3. SettingsInv' /\ KeyInv'
  <2>1. CASE FileNext
    BY <2>1, SettingsStep, KeyStep DEF TypeOK
  <2>2. CASE UNCHANGED fileVars
    <3>1. SettingsInv'
      BY <2>2 DEF fileVars, SettingsInv, OneInWindow, LoadedLatest, TornIsBlank,
                  CreatedFirst, SettingsKept, InWindow, Torn
    <3>2. KeyInv'
      BY <2>2 DEF fileVars, KeyInv, Company, ForeignKeys, InHand, Active
    <3>3. QED
      BY <3>1, <3>2
  <2>3. QED
    BY <2>1, <2>2, FileOrNot
<1>4. QED
  BY <1>1, <1>2, <1>3

(* The invariant holds in every reachable state.                           *)
THEOREM InvHolds == Spec => []ProcInv
<1>1. QED
  BY InvInit, InvStep, PTL DEF Spec

(* Types: a running server always has settings that config.Load accepted.  *)
THEOREM TypeCorrect == Spec => []TypeOK
<1>1. ProcInv => TypeOK
  BY DEF ProcInv
<1>2. QED
  BY <1>1, InvHolds, PTL

(* The key tool, which loads the file anew before it rewrites it, never    *)
(* brings back settings that the operator has replaced: for any number of  *)
(* runs and edits.                                                         *)
THEOREM SettingsStay == Spec => []SettingsKept
<1>1. ProcInv => SettingsKept
  BY DEF ProcInv, SettingsInv
<1>2. QED
  BY <1>1, InvHolds, PTL

(* A request that is being served finds its components up and the sockets  *)
(* of the TURN server open, through start, reload and stop.                *)
THEOREM RequestsFindAll == Spec => []RequestsServed
<1>1. ASSUME ProcInv PROVE RequestsServed
  BY <1>1 DEF ProcInv, ServerInv, Listening, InOrder, SocketsOpen, RequestsServed,
              Needed, Before, Rank, Component
<1>2. QED
  BY <1>1, InvHolds, PTL

(* An announced key goes only by a rotation.                               *)
THEOREM KeysStay == Spec => KeysLeaveByRotation
<1>1. ASSUME ProcInv, [Next]_vars,
             NEW t \in Tool \ overlapped,
             tool[t] = "done", file # Missing, file.key = t, file'.key # t
      PROVE  \E u \in Tool : kind[u] = "rotate" /\ tool'[u] = "writing"
  <2> USE FileAssumption, Contents, <1>1 DEF ProcInv, TypeOK
  <2>1. CASE UNCHANGED fileVars
    BY <2>1 DEF fileVars
  <2>2. CASE Edit
    BY <2>2 DEF Edit, FileTypeOK, Readable, Garbled
  <2>3. ASSUME NEW u \in Tool, ToolStep(u)
        PROVE  kind[u] = "rotate" /\ tool'[u] = "writing"
    <3>1. CASE GenerateFindsNone(u)
      BY <3>1 DEF GenerateFindsNone, Begin, EnterWindow, FileTypeOK, Blank, KeyInv, Company, ForeignKeys, InHand, Active
    <3>2. CASE CreateFile(u)
      BY <3>2 DEF CreateFile, Proceed, FileTypeOK, Blank, KeyInv, Company, ForeignKeys, InHand, Active
    <3>3. CASE CreateDefault(u)
      BY <3>3 DEF CreateDefault, Proceed, Fill, FileTypeOK, Blank, KeyInv, Company, ForeignKeys, InHand, Active
    <3>4. CASE GenerateChecks(u)
      BY <3>4 DEF GenerateChecks, Begin, FileTypeOK, Blank, KeyInv, Company, ForeignKeys, InHand, Active
    <3>5. CASE RotateChecks(u)
      BY <3>5 DEF RotateChecks, Begin, FileTypeOK, Blank, KeyInv, Company, ForeignKeys, InHand, Active
    <3>6. CASE OperatorAnswers(u)
      BY <3>6 DEF OperatorAnswers, Proceed, FileTypeOK, Blank, KeyInv, Company, ForeignKeys, InHand, Active
    <3>7. CASE LoadAgain(u)
      BY <3>7 DEF LoadAgain, Proceed, EnterWindow, FileTypeOK, Blank, KeyInv, Company, ForeignKeys, InHand, Active
    <3>8. CASE LoadFails(u)
      BY <3>8 DEF LoadFails, Proceed, FileTypeOK, Blank, KeyInv, Company, ForeignKeys, InHand, Active
    <3>9. CASE Truncate(u)
      BY <3>9 DEF Truncate, Proceed, FileTypeOK, Blank, KeyInv, Company, ForeignKeys, InHand, Active
    <3>10. CASE WriteKey(u)
      BY <3>10 DEF WriteKey, Proceed, Fill, FileTypeOK, Blank, KeyInv, Company, ForeignKeys, InHand, Active
    <3>11. CASE Announce(u)
      BY <3>11 DEF Announce, Proceed, FileTypeOK, Blank, KeyInv, Company, ForeignKeys, InHand, Active
    <3>12. CASE Kill(u)
      BY <3>12 DEF Kill, FileTypeOK, Blank, KeyInv, Company, ForeignKeys, InHand, Active
    <3>13. CASE GenerateBlind(u)
      BY <3>13 DEF GenerateBlind
    <3>14. QED
      BY <2>3, <3>1, <3>2, <3>3, <3>4, <3>5, <3>6, <3>7, <3>8, <3>9, <3>10, <3>11, <3>12, <3>13 DEF ToolStep
  <2>4. QED
    BY <2>1, <2>2, <2>3, FileOrNot DEF FileNext
<1>2. ProcInv /\ [Next]_vars => [
        \A t \in Tool \ overlapped :
            tool[t] = "done" /\ file # Missing /\ file.key = t /\ file'.key # t
            => \E u \in Tool : kind[u] = "rotate" /\ tool'[u] = "writing"
        ]_fileVars
  BY <1>1
<1>3. QED
  BY <1>2, InvHolds, PTL DEF Spec, KeysLeaveByRotation

-----------------------------------------------------------------------------
(* Refinement of SecretRotation.  What is in force changes with Boot, with *)
(* the read of a reload, and with the end of the process.                  *)

LEMMA Unloaded == Lost \notin Version
BY FileAssumption DEF Version

LEMMA OfferedType == Offered \in (Version \ Unusable) \cup {Lost}
BY DEF Offered, Loads

\* Only a running process has secrets.
LEMMA ForceWhenUp ==
    ASSUME ProcInv
    PROVE  /\ srv = "down" => booted = Lost /\ InForce = Lost
           /\ srv # "down" => InForce \in Version \ Unusable
BY DEF ProcInv, TypeOK, ServerInv, OnlyWhenUp, InForce

LEMMA GoneStops ==
    ASSUME ProcInv, srv # "down", Gone, UNCHANGED fileVars PROVE Rotation!Stop
<1>1. InForce # Lost
  BY Unloaded, ForceWhenUp
<1>2. InForce' = Lost /\ booted' = Lost /\ Offered' = Offered
  BY DEF Gone, InForce, Offered, fileVars
<1> QED
  BY <1>1, <1>2 DEF Rotation!Stop

LEMMA RotationStep ==
    ASSUME ProcInv, [Next]_vars
    PROVE  [Rotation!Next]_<<Offered, booted, InForce>>
<1>1. CASE Boot
  <2>1. InForce = Lost /\ file.version # Lost /\ Loads(file)
    BY <1>1, ForceWhenUp, Unloaded DEF Boot, Loads
  <2>2. Offered = file.version /\ Offered \in Version \ Unusable
    BY <2>1 DEF Offered, Loads
  <2>3. InForce' = file.version /\ booted' = file.version /\ Offered' = Offered
    BY <1>1 DEF Boot, InForce, Offered, fileVars
  <2>4. Rotation!Start
    BY <2>1, <2>2, <2>3 DEF Rotation!Start
  <2> QED
    BY <2>4 DEF Rotation!Next
<1>2. CASE ReloadReads
  <2>1. /\ InForce # Lost /\ UNCHANGED <<booted, Offered>>
        /\ srv = "reloading" /\ InForce = secrets
    BY <1>2, ForceWhenUp, Unloaded DEF ReloadReads, InForce, Offered, fileVars
  <2>2. CASE Loads(file)
    <3>1. InForce' = file.version /\ Offered = file.version /\ Offered # Lost
      BY <1>2, <2>2, Unloaded DEF ReloadReads, InForce, Offered, Loads
    <3>2. Rotation!Reload
      BY <2>1, <3>1 DEF Rotation!Reload
    <3> QED
      BY <3>2 DEF Rotation!Next
  <2>3. CASE ~Loads(file)
    BY <1>2, <2>1, <2>3 DEF ReloadReads, InForce
  <2> QED
    BY <2>2, <2>3
<1>3. CASE ReloadApplies
  BY <1>3 DEF ReloadApplies, InForce, Offered, fileVars
<1>4. CASE StartFails \/ Exit \/ Crash
  <2>1. srv # "down" /\ Gone /\ UNCHANGED fileVars
    BY <1>4 DEF StartFails, Exit, Crash
  <2> QED
    BY <2>1, GoneStops DEF Rotation!Next
<1>5. CASE FileNext /\ UNCHANGED procVars
  <2>1. UNCHANGED <<booted, InForce>>
    BY <1>5 DEF procVars, InForce
  <2>2. Offered' \in (Version \ Unusable) \cup {Lost}
    BY DEF Offered, Loads
  <2> QED
    BY <2>1, <2>2 DEF Rotation!Next, Rotation!Write
<1>6. ASSUME UNCHANGED <<fileVars, booted, secrets, read>>,
             srv # "applying", srv' # "applying"
      PROVE  UNCHANGED <<Offered, booted, InForce>>
  BY <1>6 DEF fileVars, Offered, InForce
<1>7. ASSUME UNCHANGED <<fileVars, srv, booted, secrets, read>>
      PROVE  UNCHANGED <<Offered, booted, InForce>>
  BY <1>7 DEF fileVars, Offered, InForce
<1>8. CASE Notify \/ Receive
  BY <1>6, <1>8 DEF Notify, Receive
<1>9. CASE Listen \/ RequestBegins \/ RequestEnds
  BY <1>7, <1>9 DEF Listen, RequestBegins, RequestEnds
<1>10. ASSUME NEW c \in Component, StartComponent(c) \/ StopComponent(c)
       PROVE  UNCHANGED <<Offered, booted, InForce>>
  BY <1>7, <1>10 DEF StartComponent, StopComponent
<1>11. ASSUME NEW sig \in {"HUP", "TERM"}, OperatorSends(sig)
       PROVE  UNCHANGED <<Offered, booted, InForce>>
  BY <1>7, <1>11 DEF OperatorSends
<1>12. CASE UNCHANGED vars
  BY <1>7, <1>12 DEF vars, procVars
<1> QED
  BY <1>1, <1>2, <1>3, <1>4, <1>5, <1>8, <1>9, <1>10, <1>11, <1>12
     DEF Next, Server, Main

\* The process implements SecretRotation: config.Load and UpdateSecrets of a
\* reload, with edits, key rewrites, signals and crashes between them, act as
\* one step that gives the handler what the file holds.
THEOREM ProcessRotates == Spec => SecretsRotate
<1>1. ASSUME Init PROVE Rotation!Init
  <2>1. booted = Lost /\ InForce = Lost
    BY <1>1 DEF Init, InForce
  <2> QED
    BY <2>1, OfferedType DEF Rotation!Init
<1>2. ProcInv /\ [Next]_vars => [Rotation!Next]_<<Offered, booted, InForce>>
  BY RotationStep
<1> QED
  BY <1>1, <1>2, InvHolds, PTL
     DEF Spec, SecretsRotate, Rotation!Spec, Rotation!rotationVars

=============================================================================
