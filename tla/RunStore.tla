------------------------------ MODULE RunStore ------------------------------
(***************************************************************************)
(* The files behind SaveRun, LoadRun and ListRuns, and the resumption of    *)
(* runs from them.  SaveRun writes a temporary file in the directory of the *)
(* run files and renames it over the run's file; ListRuns reads every file   *)
(* of that directory whose name ends in .json, and so do the names of the    *)
(* temporary files.  BatchRunner takes a save to be one step; this module is  *)
(* about the steps inside it.                                               *)
(*                                                                          *)
(* A run is abstracted to how far it has come: 0 when it is saved first,     *)
(* Last when its verdict is saved.                                          *)
(***************************************************************************)
EXTENDS Naturals, FiniteSets

CONSTANTS Runs, Last,
          None,           \* no content, no holder
          Partial,        \* the content of a file that is not written yet
          MaxCrashes,     \* bound of the crashes
          MaxWriteErrors  \* bound of the writes that fail

StoreAssumption ==
  /\ Last \in Nat \ {0} /\ MaxCrashes \in Nat /\ MaxWriteErrors \in Nat
  /\ {None, Partial} \cap 0..Last = {} /\ None \notin Runs

VARIABLES
  up,      \* the process serves; ResumeRuns has succeeded
  mutex,   \* Store.mu: the run whose save holds it, or None
  saving,  \* step of the save: "none", "temp" (file created), "whole" (written)
  memory,  \* progress of the run in the executing goroutine, None without one
  file,    \* the run's file, None without one
  temps,   \* temporary files: [run, content], content Partial while unwritten
  crashes, errors

vars == <<up, mutex, saving, memory, file, temps, crashes, errors>>

Progress == 0..Last
Entry    == [run: Runs, content: Progress \cup {Partial}]
Held(r)  == mutex = r

\* What the goroutine of r writes next: StartRun's first save, or one step on.
NextContent(r) == IF memory[r] = None THEN 0 ELSE memory[r] + 1

Init ==
  /\ up = TRUE /\ mutex = None /\ saving = "none"
  /\ memory = [r \in Runs |-> None]
  /\ file = [r \in Runs |-> None]
  /\ temps = {} /\ crashes = 0 /\ errors = 0

CreateTemp(r) ==
  /\ up /\ mutex = None
  /\ IF memory[r] = None THEN file[r] = None ELSE memory[r] < Last
  /\ mutex' = r /\ saving' = "temp"
  /\ temps' = temps \cup {[run |-> r, content |-> Partial]}
  /\ UNCHANGED <<up, memory, file, crashes, errors>>

\* Encode and Close.
WriteTemp(r) ==
  /\ up /\ Held(r) /\ saving = "temp"
  /\ saving' = "whole"
  /\ temps' = (temps \ {[run |-> r, content |-> Partial]})
                \cup {[run |-> r, content |-> NextContent(r)]}
  /\ UNCHANGED <<up, mutex, memory, file, crashes, errors>>

BugFailWrite(r) ==
  /\ up /\ Held(r) /\ saving = "temp" /\ errors < MaxWriteErrors
  /\ errors' = errors + 1
  /\ mutex' = None /\ saving' = "none"
  /\ UNCHANGED <<up, memory, file, temps, crashes>>

\* The deferred Remove takes the temporary file away.  The caller goes on, a
\* first save excepted, which StartRun gives up on.
FailWrite(r) ==
  /\ up /\ Held(r) /\ saving = "temp" /\ errors < MaxWriteErrors
  /\ errors' = errors + 1
  /\ mutex' = None /\ saving' = "none"
  /\ temps' = temps \ {[run |-> r, content |-> Partial]}
  /\ memory' = IF memory[r] = None THEN memory ELSE [memory EXCEPT ![r] = @ + 1]
  /\ UNCHANGED <<up, file, crashes>>

\* The rename makes the new content the run file at once; saves are over.
Rename(r) ==
  /\ up /\ Held(r) /\ saving = "whole"
  /\ file' = [file EXCEPT ![r] = NextContent(r)]
  /\ memory' = [memory EXCEPT ![r] = NextContent(r)]
  /\ temps' = temps \ {[run |-> r, content |-> NextContent(r)]}
  /\ mutex' = None /\ saving' = "none"
  /\ UNCHANGED <<up, crashes, errors>>

\* The goroutine of a run ends after the verdict.
Leave(r) ==
  /\ up /\ memory[r] = Last /\ ~Held(r)
  /\ memory' = [memory EXCEPT ![r] = None]
  /\ file[r] # None
  /\ UNCHANGED <<up, mutex, saving, file, temps, crashes, errors>>

Crash ==
  /\ up /\ crashes < MaxCrashes
  /\ crashes' = crashes + 1
  /\ up' = FALSE /\ mutex' = None /\ saving' = "none"
  /\ memory' = [r \in Runs |-> None]
  /\ UNCHANGED <<file, temps, errors>>

\* ListRuns: the run files and the temporary files are the same to it.  A file
\* that does not decode is an error of the whole list.
Listed == {[run |-> r, content |-> file[r]] : r \in {q \in Runs : file[q] # None}} \cup temps
ListFails == \E entry \in temps : entry.content = Partial

\* ResumeRuns, in the order of the creation times, which the two files of one
\* run share: either may come first, and the first unfinished one is resumed.
Resume ==
  /\ ~up /\ ~ListFails
  /\ up' = TRUE
  /\ \E chosen \in [Runs -> Progress \cup {None}] :
       /\ \A r \in Runs :
            LET unfinished == {e.content : e \in {x \in Listed : x.run = r /\ x.content < Last}}
            IN  IF unfinished = {} THEN chosen[r] = None ELSE chosen[r] \in unfinished
       /\ memory' = chosen
  /\ UNCHANGED <<mutex, saving, file, temps, crashes, errors>>

Next ==
  \/ Crash \/ Resume
  \/ \E r \in Runs : CreateTemp(r) \/ WriteTemp(r) \/ FailWrite(r) \/ Rename(r) \/ Leave(r)

Spec == Init /\ [][Next]_vars

-----------------------------------------------------------------------------
TypeOK ==
  /\ up \in BOOLEAN
  /\ mutex \in Runs \cup {None}
  /\ saving \in {"none", "temp", "whole"}
  /\ memory \in [Runs -> Progress \cup {None}]
  /\ file \in [Runs -> Progress \cup {None}]
  /\ temps \subseteq Entry
  /\ crashes \in 0..MaxCrashes /\ errors \in 0..MaxWriteErrors

\* As long as the process lives, whoever holds Store.mu for a list sees every run
\* once and whole: a temporary file exists only while its save holds the mutex
\* (store.go:34-63, 83-111), also when the write failed.
ListIsClean == (crashes = 0 /\ mutex = None) => temps = {}

\* The file of a run never goes back to an earlier state of the run, whichever
\* saves fail and wherever one crash interrupts a save (store.go:63).
FileMonotone ==
  [][\A r \in Runs : file[r] # None => file'[r] # None /\ file'[r] >= file[r]]_vars

\* A run that is written down and has no verdict goes on after a restart, and
\* from a state at least as new as its file (runner.go:78-106).
ResumesFromFile ==
  [][\A r \in Runs : ~up /\ up' /\ file[r] \in 0..(Last - 1) =>
       memory'[r] # None /\ memory'[r] >= file[r]]_vars

\* Saving and resuming never lose what is written down.
SavesAreSafe == [](TypeOK /\ ListIsClean) /\ FileMonotone /\ ResumesFromFile

\* runner.go:78, "ResumeRuns reconnects the runner to unfinished work recorded on
\* persistent storage": it does not take up a run whose file has the verdict.
FinishedIsNotResumed ==
  [][\A r \in Runs : ~up /\ up' /\ file[r] = Last => memory'[r] = None]_vars
=============================================================================
