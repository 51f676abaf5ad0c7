---------------------------- MODULE RunStoreProofs ----------------------------
(***************************************************************************)
(* Proofs about RunStore: saving and resuming lose nothing that is written    *)
(* down, for any runs, steps of a run and failed writes, while the process is *)
(* killed at most once.                                                       *)
(***************************************************************************)
EXTENDS RunStore, TLAPS

-----------------------------------------------------------------------------
(* The invariant. *)

\* Store.mu is held exactly while a save is at work, and nothing is held or in memory
\* while the process is down.
SavesHoldMutex ==
  /\ mutex = None <=> saving = "none"
  /\ ~up => mutex = None /\ crashes # 0 /\ \A r \in Runs : memory[r] = None

\* The content a save is at work on is a progress of its run, and the first save of a run
\* is only begun without a file.
SavesAreSteps ==
  \A r \in Runs : Held(r) =>
    IF memory[r] = None THEN file[r] = None ELSE memory[r] < Last

\* What a goroutine knows of its run is no older than the run's file.
MemoryAhead ==
  \A r \in Runs : memory[r] # None /\ file[r] # None => memory[r] >= file[r]

\* Until the process is killed, the only temporary file is the one of the save at work,
\* with the content that save is about to write.
OneTemp ==
  crashes = 0 =>
    temps = CASE saving = "none"  -> {}
              [] saving = "temp"  -> {[run |-> mutex, content |-> Partial]}
              [] saving = "whole" -> {[run |-> mutex, content |-> NextContent(mutex)]}

\* What a killed save left behind is unwritten, or no older than its run's file.
LeftoverAhead ==
  ~up => \A e \in temps :
           e.content # Partial /\ file[e.run] # None => e.content >= file[e.run]

StoreInv ==
  TypeOK /\ SavesHoldMutex /\ SavesAreSteps /\ MemoryAhead /\ OneTemp /\ LeftoverAhead

-----------------------------------------------------------------------------
\* What is written next of a run is a progress of it, and later than its file.
LEMMA NextIsLater ==
  ASSUME StoreAssumption, StoreInv, NEW r \in Runs, Held(r)
  PROVE  /\ NextContent(r) \in Progress
         /\ file[r] # None => NextContent(r) >= file[r]
<1>1. CASE memory[r] = None
  <2>1. file[r] = None /\ NextContent(r) = 0
    BY <1>1 DEF StoreInv, SavesAreSteps, NextContent
  <2>. QED  BY <2>1 DEF StoreAssumption, Progress
<1>2. CASE memory[r] # None
  <2>1. memory[r] \in Progress /\ memory[r] < Last /\ file[r] \in Progress \cup {None}
    BY <1>2 DEF StoreInv, TypeOK, SavesAreSteps
  <2>2. NextContent(r) = memory[r] + 1
    BY <1>2 DEF NextContent
  <2>3. file[r] # None => memory[r] >= file[r]
    BY <1>2 DEF StoreInv, MemoryAhead
  <2>. QED  BY <2>1, <2>2, <2>3 DEF StoreAssumption, Progress
<1>. QED  BY <1>1, <1>2

\* At first nothing is saved.
LEMMA StoreInit == ASSUME StoreAssumption, Init PROVE StoreInv
BY DEF StoreAssumption, Init, StoreInv, TypeOK, Progress, Entry, SavesHoldMutex, SavesAreSteps,
       MemoryAhead, OneTemp, LeftoverAhead, Held

\* A save creates its temporary file.
LEMMA CreateTempKeeps ==
  ASSUME StoreAssumption, StoreInv, NEW r \in Runs, CreateTemp(r)
  PROVE  StoreInv'
<1>. USE DEF StoreInv
<1>1. TypeOK'
  BY DEF StoreAssumption, TypeOK, CreateTemp, Entry
<1>2. SavesHoldMutex'
  BY DEF StoreAssumption, SavesHoldMutex, CreateTemp
<1>3. SavesAreSteps'
  BY DEF SavesAreSteps, CreateTemp, Held
<1>4. MemoryAhead'
  BY DEF MemoryAhead, CreateTemp
<1>5. OneTemp'
  BY DEF OneTemp, SavesHoldMutex, CreateTemp
<1>6. LeftoverAhead'
  BY DEF LeftoverAhead, CreateTemp
<1>. QED  BY <1>1, <1>2, <1>3, <1>4, <1>5, <1>6

\* A save writes its temporary file.
LEMMA WriteTempKeeps ==
  ASSUME StoreAssumption, StoreInv, NEW r \in Runs, WriteTemp(r)
  PROVE  StoreInv'
<1>. USE DEF StoreInv
<1>0. NextContent(r) \in Progress
  BY NextIsLater DEF WriteTemp
<1>1. TypeOK'
  BY <1>0 DEF StoreAssumption, TypeOK, WriteTemp, Entry
<1>2. SavesHoldMutex'
  BY DEF StoreAssumption, SavesHoldMutex, WriteTemp
<1>3. SavesAreSteps'
  BY DEF SavesAreSteps, WriteTemp, Held
<1>4. MemoryAhead'
  BY DEF MemoryAhead, WriteTemp
<1>5. OneTemp'
  <2>1. NextContent(r)' = NextContent(r)
    BY DEF WriteTemp, NextContent
  <2>2. mutex = r /\ mutex' = r /\ saving' = "whole" /\ saving = "temp"
    BY DEF WriteTemp, Held
  <2>. QED  BY <2>1, <2>2 DEF OneTemp, WriteTemp, NextContent
<1>6. LeftoverAhead'
  BY DEF LeftoverAhead, WriteTemp
<1>. QED  BY <1>1, <1>2, <1>3, <1>4, <1>5, <1>6

\* A write that fails takes its temporary file away, and the run goes on.
LEMMA FailWriteKeeps ==
  ASSUME StoreAssumption, StoreInv, NEW r \in Runs, FailWrite(r)
  PROVE  StoreInv'
<1>. USE DEF StoreInv
<1>0. memory[r] # None => memory[r] \in Progress /\ memory[r] < Last /\ memory[r] + 1 \in Progress
  <2>1. Held(r)
    BY DEF FailWrite
  <2>2. memory[r] # None => memory[r] < Last /\ memory[r] \in Progress
    BY <2>1 DEF SavesAreSteps, TypeOK
  <2>. QED  BY <2>2 DEF Progress, StoreAssumption
<1>1. TypeOK'
  BY <1>0 DEF StoreAssumption, TypeOK, FailWrite, Entry
<1>2. SavesHoldMutex'
  BY DEF StoreAssumption, SavesHoldMutex, FailWrite
<1>3. SavesAreSteps'
  BY DEF StoreAssumption, SavesAreSteps, FailWrite, Held
<1>4. MemoryAhead'
  <2>. SUFFICES ASSUME NEW q \in Runs, memory'[q] # None, file[q] # None
                PROVE  memory'[q] >= file[q]
    BY DEF MemoryAhead, FailWrite
  <2>1. memory'[q] = memory[q] \/ (q = r /\ memory[r] # None /\ memory'[r] = memory[r] + 1)
    BY DEF TypeOK, FailWrite
  <2>2. memory[q] # None => memory[q] >= file[q]
    BY DEF MemoryAhead
  <2>3. file[q] \in Progress
    BY DEF TypeOK
  <2>. QED  BY <1>0, <2>1, <2>2, <2>3 DEF Progress, StoreAssumption
<1>5. OneTemp'
  BY DEF OneTemp, FailWrite, Held
<1>6. LeftoverAhead'
  BY DEF LeftoverAhead, FailWrite
<1>. QED  BY <1>1, <1>2, <1>3, <1>4, <1>5, <1>6

\* A save renames its temporary file, and the run goes on.
LEMMA RenameKeeps ==
  ASSUME StoreAssumption, StoreInv, NEW r \in Runs, Rename(r)
  PROVE  StoreInv'
<1>. USE DEF StoreInv
<1>0. NextContent(r) \in Progress /\ NextContent(r) # None
  BY NextIsLater DEF Rename, StoreAssumption, Progress
<1>. DEFINE c == NextContent(r)
<1>a. /\ file' = [file EXCEPT ![r] = c] /\ memory' = [memory EXCEPT ![r] = c]
      /\ temps' = temps \ {[run |-> r, content |-> c]}
      /\ mutex' = None /\ saving' = "none" /\ up /\ saving = "whole" /\ mutex = r
      /\ up' = up /\ crashes' = crashes /\ errors' = errors
  BY DEF Rename, Held
<1>b. OneTemp /\ crashes = 0 => temps = {[run |-> r, content |-> c]}
  BY <1>a DEF OneTemp
<1>. HIDE DEF c
<1>1. TypeOK'
  BY <1>0, <1>a DEF StoreAssumption, TypeOK, Entry, c
<1>2. SavesHoldMutex'
  BY <1>a DEF SavesHoldMutex
<1>3. SavesAreSteps'
  BY <1>a DEF StoreAssumption, SavesAreSteps, Held
<1>4. MemoryAhead'
  <2>1. c \in Nat
    BY <1>0 DEF Progress, StoreAssumption, c
  <2>. QED  BY <1>a, <2>1 DEF MemoryAhead, TypeOK
<1>5. OneTemp'
  BY <1>a, <1>b DEF OneTemp
<1>6. LeftoverAhead'
  BY <1>a DEF LeftoverAhead
<1>. QED  BY <1>1, <1>2, <1>3, <1>4, <1>5, <1>6

\* The goroutine of a run with its verdict ends.
LEMMA LeaveKeeps ==
  ASSUME StoreAssumption, StoreInv, NEW r \in Runs, Leave(r)
  PROVE  StoreInv'
<1>. USE DEF StoreInv
<1>1. TypeOK'
  BY DEF TypeOK, Leave, Entry
<1>2. SavesHoldMutex'
  BY DEF SavesHoldMutex, Leave
<1>3. SavesAreSteps'
  BY DEF SavesAreSteps, Leave, Held, TypeOK
<1>4. MemoryAhead'
  BY DEF MemoryAhead, Leave, TypeOK
<1>5. OneTemp'
  <2>1. saving # "none" => mutex # r
    BY DEF Leave, Held
  <2>2. mutex \in Runs /\ mutex # r => memory'[mutex] = memory[mutex]
    BY DEF Leave, TypeOK
  <2>3. saving # "none" => mutex \in Runs
    BY DEF SavesHoldMutex, TypeOK
  <2>4. saving = "whole" => NextContent(mutex)' = NextContent(mutex)
    BY <2>1, <2>2, <2>3 DEF NextContent, Leave
  <2>. QED  BY <2>4 DEF OneTemp, Leave, TypeOK
<1>6. LeftoverAhead'
  BY DEF LeftoverAhead, Leave
<1>. QED  BY <1>1, <1>2, <1>3, <1>4, <1>5, <1>6

\* The process is killed, once: the file of the save at work is what is left.
LEMMA CrashKeeps ==
  ASSUME StoreAssumption, MaxCrashes <= 1, StoreInv, Crash
  PROVE  StoreInv'
<1>. USE DEF StoreInv
<1>0. crashes = 0 /\ crashes' = 1 /\ crashes' \in 0..MaxCrashes
  BY DEF Crash, TypeOK, StoreAssumption
<1>1. TypeOK'
  <2>1. memory' \in [Runs -> Progress \cup {None}]
    BY DEF Crash
  <2>. QED  BY <1>0, <2>1 DEF TypeOK, Crash, Entry
<1>2. SavesHoldMutex'
  BY <1>0 DEF SavesHoldMutex, Crash
<1>3. SavesAreSteps'
  BY DEF SavesAreSteps, Crash, Held, StoreAssumption
<1>4. MemoryAhead'
  BY DEF MemoryAhead, Crash
<1>5. OneTemp'
  BY <1>0 DEF OneTemp
<1>6. LeftoverAhead'
  <2>. SUFFICES ASSUME NEW e \in temps, e.content # Partial, file[e.run] # None
                PROVE  e.content >= file[e.run]
    BY DEF LeftoverAhead, Crash
  <2>1. saving = "whole" /\ e = [run |-> mutex, content |-> NextContent(mutex)]
    BY <1>0 DEF OneTemp, TypeOK
  <2>2. mutex \in Runs /\ Held(mutex)
    BY <2>1 DEF SavesHoldMutex, TypeOK, Held
  <2>. QED  BY <2>1, <2>2, NextIsLater
<1>. QED  BY <1>1, <1>2, <1>3, <1>4, <1>5, <1>6

\* What a restart takes up of a run comes from its file, or from what a killed save left,
\* and is no older than the file; an unfinished run is taken up.
LEMMA ResumedAhead ==
  ASSUME StoreAssumption, StoreInv, Resume, NEW r \in Runs
  PROVE  /\ memory'[r] \in Progress \cup {None}
         /\ memory'[r] # None /\ file[r] # None => memory'[r] >= file[r]
         /\ file[r] \in 0..(Last - 1) => memory'[r] # None
<1>. DEFINE unfinished == {e.content : e \in {x \in Listed : x.run = r /\ x.content < Last}}
<1>1. PICK chosen \in [Runs -> Progress \cup {None}] :
        /\ \A q \in Runs :
             LET open == {e.content : e \in {x \in Listed : x.run = q /\ x.content < Last}}
             IN  IF open = {} THEN chosen[q] = None ELSE chosen[q] \in open
        /\ memory' = chosen
  BY DEF Resume
<1>2. IF unfinished = {} THEN memory'[r] = None ELSE memory'[r] \in unfinished
  BY <1>1
<1>3. ASSUME NEW c \in unfinished
      PROVE  c \in Progress /\ (file[r] # None => c >= file[r])
  <2>1. PICK e \in Listed : e.run = r /\ e.content < Last /\ c = e.content
    OBVIOUS
  <2>2. CASE e \in temps
    <3>1. e.content # Partial /\ ~up
      BY <2>2 DEF Resume, ListFails
    <3>2. e.content \in Progress
      BY <2>2, <3>1 DEF StoreInv, TypeOK, Entry
    <3>3. file[r] # None => c >= file[r]
      BY <2>1, <2>2, <3>1 DEF StoreInv, LeftoverAhead
    <3>. QED  BY <2>1, <3>2, <3>3
  <2>3. CASE e \notin temps
    <3>1. PICK q \in {p \in Runs : file[p] # None} : e = [run |-> q, content |-> file[q]]
      BY <2>3 DEF Listed
    <3>2. c = file[r] /\ file[r] # None
      BY <2>1, <3>1
    <3>3. file[r] \in Progress
      BY <3>2 DEF StoreInv, TypeOK
    <3>. QED  BY <3>2, <3>3 DEF Progress
  <2>. QED  BY <2>2, <2>3
<1>4. file[r] \in 0..(Last - 1) => file[r] \in unfinished
  <2>. SUFFICES ASSUME file[r] \in 0..(Last - 1) PROVE file[r] \in unfinished
    OBVIOUS
  <2>1. file[r] # None /\ file[r] < Last
    BY DEF StoreAssumption
  <2>2. [run |-> r, content |-> file[r]] \in Listed
    BY <2>1 DEF Listed
  <2>. QED  BY <2>1, <2>2
<1>5. None \notin Progress
  BY DEF StoreAssumption, Progress
<1>. HIDE DEF unfinished
<1>. QED  BY <1>2, <1>3, <1>4, <1>5

\* A restart resumes the unfinished runs.
LEMMA ResumeKeeps ==
  ASSUME StoreAssumption, StoreInv, Resume
  PROVE  StoreInv'
<1>. USE DEF StoreInv
<1>1. TypeOK'
  BY DEF TypeOK, Resume, Entry
<1>2. SavesHoldMutex'
  BY DEF SavesHoldMutex, Resume
<1>3. SavesAreSteps'
  BY DEF SavesAreSteps, SavesHoldMutex, Resume, Held, StoreAssumption
<1>4. MemoryAhead'
  BY ResumedAhead DEF MemoryAhead, Resume
<1>5. OneTemp'
  BY DEF OneTemp, SavesHoldMutex, Resume
<1>6. LeftoverAhead'
  BY DEF LeftoverAhead, Resume
<1>. QED  BY <1>1, <1>2, <1>3, <1>4, <1>5, <1>6

\* Every step keeps the invariant.
LEMMA StoreStep ==
  ASSUME StoreAssumption, MaxCrashes <= 1, StoreInv, [Next]_vars
  PROVE  StoreInv'
<1>1. CASE UNCHANGED vars
  BY <1>1 DEF vars, StoreInv, TypeOK, SavesHoldMutex, SavesAreSteps, MemoryAhead, OneTemp,
              LeftoverAhead, Held, NextContent
<1>2. CASE Next
  BY <1>2, CreateTempKeeps, WriteTempKeeps, FailWriteKeeps, RenameKeeps, LeaveKeeps, CrashKeeps,
     ResumeKeeps DEF Next
<1>. QED  BY <1>1, <1>2

\* Only a rename writes a run's file, and it writes a later state of the run.
LEMMA FilesAdvance ==
  ASSUME StoreAssumption, StoreInv, [Next]_vars, NEW q \in Runs, file[q] # None
  PROVE  file'[q] # None /\ file'[q] >= file[q]
<1>0. file[q] \in Progress /\ file[q] >= file[q]
  BY DEF StoreInv, TypeOK, Progress, StoreAssumption
<1>1. CASE file' = file
  BY <1>0, <1>1
<1>2. CASE \E r \in Runs : Rename(r)
  <2>1. PICK r \in Runs : Rename(r)
    BY <1>2
  <2>2. NextContent(r) \in Progress /\ (file[r] # None => NextContent(r) >= file[r])
    BY <2>1, NextIsLater DEF Rename
  <2>3. NextContent(r) # None
    BY <2>2 DEF StoreAssumption, Progress
  <2>4. file'[q] = IF q = r THEN NextContent(r) ELSE file[q]
    BY <2>1 DEF Rename, StoreInv, TypeOK
  <2>. QED  BY <1>0, <2>2, <2>3, <2>4
<1>3. file' = file \/ \E r \in Runs : Rename(r)
  BY DEF Next, vars, CreateTemp, WriteTemp, FailWrite, Leave, Crash, Resume
<1>. QED  BY <1>1, <1>2, <1>3

\* Only Resume brings the process back up.
LEMMA RestartIsResume ==
  ASSUME [Next]_vars, ~up, up' PROVE Resume
BY DEF Next, vars, Crash, CreateTemp, WriteTemp, FailWrite, Rename, Leave

-----------------------------------------------------------------------------
\* A process killed at most once, at any point of any save, loses nothing that is written
\* down: until then the list holds run files only; a run's file never goes back to an earlier
\* state; and a restart takes up every unfinished run, from a state no older than its file
\* (store.go:34-63, 83-111 and runner.go:78-106).  A second kill is excluded because what the
\* first left behind is taken for a run (FinishedIsNotResumed).
THEOREM SavedStaysSaved ==
  ASSUME StoreAssumption, MaxCrashes <= 1
  PROVE  Spec => SavesAreSafe
<1>1. Init => StoreInv
  BY StoreInit
<1>2. StoreInv /\ [Next]_vars => StoreInv'
  BY StoreStep
<1>3. StoreInv => TypeOK /\ ListIsClean
  BY DEF StoreInv, ListIsClean, OneTemp, SavesHoldMutex
<1>4. StoreInv /\ [Next]_vars =>
        [\A r \in Runs : file[r] # None => file'[r] # None /\ file'[r] >= file[r]]_vars
  BY FilesAdvance
<1>5. StoreInv /\ [Next]_vars =>
        [\A r \in Runs : ~up /\ up' /\ file[r] \in 0..(Last - 1) =>
           memory'[r] # None /\ memory'[r] >= file[r]]_vars
  <2>. SUFFICES ASSUME StoreInv, [Next]_vars, NEW r \in Runs, ~up, up', file[r] \in 0..(Last - 1)
                PROVE  memory'[r] # None /\ memory'[r] >= file[r]
    OBVIOUS
  <2>1. Resume
    BY RestartIsResume
  <2>2. file[r] # None
    BY DEF StoreAssumption
  <2>. QED  BY <2>1, <2>2, ResumedAhead
<1>. QED  BY <1>1, <1>2, <1>3, <1>4, <1>5, PTL DEF Spec, SavesAreSafe, FileMonotone, ResumesFromFile
=============================================================================
