----------------------------- MODULE ConfigFile -----------------------------
(***************************************************************************)
(* The configuration file and those who write it: runs of the API key tool *)
(* (cmd/server/cmd_apikey.go) and the operator's editor.                   *)
(*                                                                         *)
(* The tool looks at the file, may ask the operator, loads the file again, *)
(* and rewrites it in place with a new key: os.WriteFile first truncates,  *)
(* then writes.  Nothing locks the file.  A run may be killed at any       *)
(* moment; an error of a write is the same as a kill at that point.        *)
(*                                                                         *)
(* The settings in the file are abstracted to a version, which counts the  *)
(* operator's edits, and a key to the run that made it; of a key the file  *)
(* holds the hash, and nobody else has the key before it is printed.       *)
(***************************************************************************)
EXTENDS Naturals

CONSTANTS
    Tool,      \* the runs of the tool
    NoKey,
    Missing,   \* there is no file
    Lost,      \* the version of a file without the settings
    MaxEdits   \* how often the operator edits the file

Version == 0..MaxEdits
Content == [version : Version \cup {Lost}, key : Tool \cup {NoKey}]

\* Rewritten by several at once, and no longer YAML.
Garbled == [version |-> Lost, key |-> Lost]

\* Truncated and not yet written: for the YAML parser an empty document.
Blank == [version |-> Lost, key |-> NoKey]

ASSUME FileAssumption ==
    /\ MaxEdits \in Nat
    /\ NoKey \notin Tool
    /\ Lost \notin Nat /\ Lost \notin Tool /\ Lost # NoKey
    /\ Missing \notin Content /\ Missing # Garbled

VARIABLES
    file,       \* what is on the disk
    tool,       \* how far each run of the tool is
    kind,       \* what it has been told to do
    seen,       \* what each run has loaded to rewrite
    latest,     \* the version the operator saved last
    raced,      \* history: since then, a write was torn, or two overlapped,
                \* or a generate could not see the file
    overlapped  \* history: the runs that had company, or whose key in the file
                \* a generate could not see

fileVars == <<file, tool, kind, seen, latest, raced, overlapped>>

ToolState == {"idle", "creating", "filling", "prompt", "checked", "loaded",
              "writing", "written", "done", "failed"}

FileTypeOK ==
    /\ file \in Content \cup {Missing, Garbled}
    /\ tool \in [Tool -> ToolState]
    /\ kind \in [Tool -> {"generate", "rotate"}]
    /\ seen \in [Tool -> Content]
    /\ latest \in Version
    /\ raced \in BOOLEAN
    /\ overlapped \in SUBSET Tool

FileInit ==
    /\ file \in {Missing, [version |-> 0, key |-> NoKey]}
    /\ tool = [t \in Tool |-> "idle"]
    /\ kind = [t \in Tool |-> "generate"]
    /\ seen = [t \in Tool |-> Blank]
    /\ latest = 0
    /\ raced = FALSE
    /\ overlapped = {}

-----------------------------------------------------------------------------

Active(t) == tool[t] \notin {"idle", "done", "failed"}
Others(t) == {u \in Tool \ {t} : Active(u)}

\* Between its look at what it will write and the end of the write.
InWindow(t) == tool[t] \in {"creating", "filling", "loaded", "writing"}
Torn(t) == tool[t] \in {"filling", "writing"}

EnterWindow(t) == raced' = (raced \/ \E u \in Tool \ {t} : InWindow(u))

\* loadConfigForAPIKey succeeds.
Readable(f) == f \notin {Missing, Garbled}

\* A run begins, perhaps beside others.
Begin(t, k, state) ==
    /\ tool[t] = "idle"
    /\ kind' = [kind EXCEPT ![t] = k]
    /\ tool' = [tool EXCEPT ![t] = state]
    /\ overlapped' = IF Others(t) = {} THEN overlapped
                     ELSE overlapped \cup Others(t) \cup {t}

Proceed(t, from, to) ==
    /\ tool[t] = from
    /\ tool' = [tool EXCEPT ![t] = to]
    /\ UNCHANGED <<kind, overlapped>>

\* The second half of os.WriteFile.  If the file is not as the first half
\* left it, someone else has written: what comes of both is up to the lengths,
\* and to whether the other one has put a new file in the place of the old.
Fill(content) ==
    file' \in IF file = Blank THEN {content} ELSE {content, file, Garbled}

-----------------------------------------------------------------------------
(* generateAPIKey and rotateAPIKey, up to the new key.                     *)

\* No file: the default configuration is written first, over a file that
\* has come into being since.
GenerateFindsNone(t) ==
    /\ file = Missing
    /\ Begin(t, "generate", "creating")
    /\ EnterWindow(t)
    /\ UNCHANGED <<file, seen, latest>>

\* os.Stat fails for another reason than that there is no file, which is all
\* the same to generateAPIKey.
GenerateBlind(t) ==
    /\ file # Missing
    /\ tool[t] = "idle"
    /\ kind' = [kind EXCEPT ![t] = "generate"]
    /\ tool' = [tool EXCEPT ![t] = "creating"]
    /\ raced' = TRUE
    /\ overlapped' = overlapped \cup Others(t)
                     \cup {u \in Tool : u = t \/ file.key = u}
    /\ UNCHANGED <<file, seen, latest>>

CreateFile(t) ==
    /\ Proceed(t, "creating", "filling")
    /\ file' = Blank
    /\ UNCHANGED <<seen, latest, raced>>

CreateDefault(t) ==
    /\ Proceed(t, "filling", "checked")
    /\ Fill([version |-> 0, key |-> NoKey])
    /\ UNCHANGED <<seen, latest, raced>>

\* Mutated form: a key is generated whatever there is.
GenerateAlways(t) ==
    /\ file # Missing
    /\ Begin(t, "generate", IF Readable(file) THEN "checked" ELSE "failed")
    /\ UNCHANGED <<file, seen, latest, raced>>

\* A key is only generated if there is none.
GenerateChecks(t) ==
    /\ file # Missing
    /\ Begin(t, "generate", IF Readable(file) /\ file.key = NoKey
                            THEN "checked" ELSE "failed")
    /\ UNCHANGED <<file, seen, latest, raced>>

\* A key is only rotated if there is one, and if the operator wants it.
RotateChecks(t) ==
    /\ Begin(t, "rotate", IF Readable(file) /\ file.key # NoKey
                          THEN "prompt" ELSE "failed")
    /\ UNCHANGED <<file, seen, latest, raced>>

OperatorAnswers(t) ==
    /\ \E answer \in {"checked", "failed"} : Proceed(t, "prompt", answer)
    /\ UNCHANGED <<file, seen, latest, raced>>

-----------------------------------------------------------------------------
(* updateConfigWithAPIKey, in the steps in which it touches the file.      *)

\* Mutated form: the key goes into the default configuration.
LoadDefault(t) ==
    /\ Readable(file)
    /\ Proceed(t, "checked", "loaded")
    /\ seen' = [seen EXCEPT ![t] = [version |-> 0, key |-> file.key]]
    /\ EnterWindow(t)
    /\ UNCHANGED <<file, latest>>

LoadAgain(t) ==
    /\ Readable(file)
    /\ Proceed(t, "checked", "loaded")
    /\ seen' = [seen EXCEPT ![t] = file]
    /\ EnterWindow(t)
    /\ UNCHANGED <<file, latest>>

LoadFails(t) ==
    /\ ~Readable(file)
    /\ Proceed(t, "checked", "failed")
    /\ UNCHANGED <<file, seen, latest, raced>>

Truncate(t) ==
    /\ Proceed(t, "loaded", "writing")
    /\ file' = Blank
    /\ UNCHANGED <<seen, latest, raced>>

WriteKey(t) ==
    /\ Proceed(t, "writing", "written")
    /\ Fill([seen[t] EXCEPT !.key = t])
    /\ seen' = [seen EXCEPT ![t] = Blank]
    /\ UNCHANGED <<latest, raced>>

\* The key is printed; only now does anybody know it.
Announce(t) ==
    /\ Proceed(t, "written", "done")
    /\ UNCHANGED <<file, seen, latest, raced>>

-----------------------------------------------------------------------------

\* The run ends early: a signal, a crash, a full disk.
Kill(t) ==
    /\ Active(t)
    /\ tool' = [tool EXCEPT ![t] = "failed"]
    /\ seen' = [seen EXCEPT ![t] = Blank]
    /\ raced' = (raced \/ Torn(t))
    /\ UNCHANGED <<file, kind, latest, overlapped>>

\* The operator's editor replaces the settings and leaves the key alone.
Edit ==
    /\ file # Missing
    /\ latest < MaxEdits
    /\ latest' = latest + 1
    /\ file' = [version |-> latest + 1,
                key |-> IF Readable(file) THEN file.key ELSE NoKey]
    /\ raced' = \E t \in Tool : InWindow(t)
    /\ overlapped' = overlapped \cup {t \in Tool : InWindow(t)}
    /\ UNCHANGED <<tool, kind, seen>>

ToolStep(t) ==
    \/ GenerateFindsNone(t) \/ GenerateBlind(t) \/ CreateFile(t)
    \/ CreateDefault(t) \/ GenerateChecks(t) \/ RotateChecks(t)
    \/ OperatorAnswers(t)
    \/ LoadAgain(t) \/ LoadFails(t) \/ Truncate(t) \/ WriteKey(t)
    \/ Announce(t) \/ Kill(t)

FileNext == Edit \/ \E t \in Tool : ToolStep(t)

-----------------------------------------------------------------------------
(* What the tool promises.                                                 *)

\* The file holds the operator's last settings, unless someone is in the
\* middle of writing it, or was killed there, or two wrote at once, or the
\* tool took the file for missing: it loads the file anew after the prompt,
\* however long that takes (updateConfigWithAPIKey).
SettingsKept ==
    ~raced /\ file # Missing /\ (\A t \in Tool : ~Torn(t))
        => file.version = latest

\* A key that was announced by a run without company leaves the file only
\* when a rotation rewrites it, never by an edit or by a second generate that
\* gets to see the file (generateAPIKey refuses when there is a key).
KeysLeaveByRotation == [][
    \A t \in Tool \ overlapped :
        tool[t] = "done" /\ file # Missing /\ file.key = t /\ file'.key # t
        => \E u \in Tool : kind[u] = "rotate" /\ tool'[u] = "writing"
    ]_fileVars

=============================================================================
