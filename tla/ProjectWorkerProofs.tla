------------------------ MODULE ProjectWorkerProofs ------------------------
(***************************************************************************)
(* Stop is final, and the semaphore bounds the indexing calls, for every   *)
(* set of files, number of goroutines and bound.  With one goroutine no    *)
(* change of a file is forgotten.                                          *)
(***************************************************************************)
EXTENDS ProjectWorker, CodeIndexProofs, FiniteSetTheorems

USE WorkerAssumption

WorkerInv == IndexInv /\ WorkerTypeOK

\* A set of goroutines that at most one joins, within the semaphore's capacity.
LEMMA RunningBound ==
  ASSUME NEW R, NEW S, IsFiniteSet(R), NEW c, S \subseteq R \cup {c},
         \/ S \subseteq R /\ Cardinality(R) <= MaxBackgroundJobs
         \/ Cardinality(R) < MaxBackgroundJobs
  PROVE  Cardinality(S) <= MaxBackgroundJobs
<1>1. /\ Cardinality(R) \in Nat
      /\ IsFiniteSet(R \cup {c})
      /\ Cardinality(R \cup {c}) <= Cardinality(R) + 1 /\ Cardinality(R \cup {c}) \in Nat
  <2>1. /\ IsFiniteSet(R \cup {c})
        /\ Cardinality(R \cup {c}) = IF c \in R THEN Cardinality(R) ELSE Cardinality(R) + 1
    BY FS_AddElement
  <2>2. Cardinality(R) \in Nat
    BY FS_CardinalityType
  <2>3. QED BY <2>1, <2>2
<1>2. CASE S \subseteq R /\ Cardinality(R) <= MaxBackgroundJobs
  BY <1>1, <1>2, FS_Subset, FS_CardinalityType
<1>3. CASE Cardinality(R) < MaxBackgroundJobs
  <2>1. Cardinality(S) <= Cardinality(R \cup {c}) /\ Cardinality(S) \in Nat
    BY <1>1, FS_Subset, FS_CardinalityType
  <2>2. QED BY <1>1, <1>3, <2>1
<1>4. QED BY <1>2, <1>3

\* The goroutines that index are finitely many.
LEMMA RunningFinite == IsFiniteSet(Running)
BY FS_Subset DEF Running

\* What a goroutine of runMaintenance can become is well typed.
LEMMA RunnerRecords ==
  /\ NoRunner \in Runner
  /\ \A r \in Runner : r.take \in SUBSET File
  /\ \A r \in Runner, where \in {"none", "top", "sem", "run", "end"} :
       [r EXCEPT !.at = where] \in Runner
  /\ \A S \in SUBSET File : [at |-> "sem", take |-> S] \in Runner
BY DEF NoRunner, Runner

\* Nothing of the graph or of a call changes without a step of CodeIndex.
LEMMA WorkerIndexStep == WorkerInv /\ [WorkerNext]_workerVars => [IndexNext]_indexVars
<1>. SUFFICES ASSUME WorkerInv, [WorkerNext]_workerVars PROVE [IndexNext]_indexVars
  OBVIOUS
<1>1. ASSUME NEW c \in Call, Acquire(c) PROVE [IndexNext]_indexVars
  <2>1. runner[c].take \in SUBSET File
    BY RunnerRecords DEF WorkerInv, WorkerTypeOK
  <2>2. QED BY <1>1, <2>1 DEF Acquire, IndexNext
<1>2. ASSUME NEW c \in Call, Index(c) \/ Release(c) PROVE [IndexNext]_indexVars
  BY <1>2 DEF Index, Release, IndexNext
<1>3. ASSUME NEW c \in Call, Take(c) \/ GiveUp(c) \/ End(c) \/ AcquireFails(c)
      PROVE [IndexNext]_indexVars
  BY <1>3 DEF Take, GiveUp, End, AcquireFails
<1>4. ASSUME NEW f \in File, FileEvent(f) \/ DropEvent(f) \/ OnEvent(f)
      PROVE [IndexNext]_indexVars
  BY <1>4 DEF FileEvent, DropEvent, OnEvent, IndexNext
<1>5. CASE OnEventAsks \/ Tick \/ Stop
  BY <1>5 DEF OnEventAsks, Tick, Stop
<1>6. CASE UNCHANGED workerVars
  BY <1>6 DEF workerVars
<1>7. QED BY <1>1, <1>2, <1>3, <1>4, <1>5, <1>6 DEF WorkerNext, RunnerStep

\* The worker's first state, one goroutine started, satisfies the invariant.
LEMMA WorkerInitInv == WorkerInit => WorkerInv
<1>. SUFFICES ASSUME WorkerInit PROVE WorkerInv
  OBVIOUS
<1>1. IndexInv
  BY IndexInitInv DEF WorkerInit
<1>2. PICK c \in Call :
        runner = [d \in Call |-> IF d = c THEN [NoRunner EXCEPT !.at = "top"] ELSE NoRunner]
  BY DEF WorkerInit
<1>3. [NoRunner EXCEPT !.at = "top"] \in Runner /\ [NoRunner EXCEPT !.at = "top"].at = "top"
  BY RunnerRecords DEF NoRunner
<1>4. runner \in [Call -> Runner] /\ \A d \in Call : runner[d].at # "run"
  BY <1>2, <1>3, RunnerRecords DEF NoRunner
<1>5. Running = {} /\ Cardinality({}) = 0
  BY <1>4, FS_EmptySet DEF Running
<1>6. \A d \in Call : job[d] = NoJob
  BY DEF WorkerInit, IndexInit
<1>7. Cardinality(Running) <= MaxBackgroundJobs
  BY <1>5
<1>8. /\ {pending, indexing, stopped, dirtyOverflow} \subseteq BOOLEAN
      /\ dirty \subseteq File /\ notices \subseteq File /\ callers \in 0..MaxCallers
  <2>1. {pending, indexing, stopped, dirtyOverflow} \subseteq BOOLEAN
    BY Zenon DEF WorkerInit
  <2>2. dirty \subseteq File /\ notices \subseteq File /\ callers \in 0..MaxCallers
    BY DEF WorkerInit
  <2>3. QED BY <2>1, <2>2
<1>9. QED BY <1>1, <1>4, <1>6, <1>7, <1>8 DEF WorkerInv, WorkerTypeOK

\* The step of goroutine c to another place.
LEMMA Moves ==
  ASSUME WorkerInv, NEW c \in Call,
         NEW r \in Runner, runner' = [runner EXCEPT ![c] = r],
         \A d \in Call : job'[d] # NoJob => IF d = c THEN r.at = "run" ELSE job[d] # NoJob,
         r.at = "run" => Cardinality(Running) < MaxBackgroundJobs
  PROVE  /\ runner' \in [Call -> Runner]
         /\ Cardinality(Running') <= MaxBackgroundJobs
         /\ \A d \in Call : job'[d] # NoJob => runner'[d].at = "run"
<1>1. runner' \in [Call -> Runner]
  BY DEF WorkerInv, WorkerTypeOK
<1>2. \A d \in Call : runner'[d] = IF d = c THEN r ELSE runner[d]
  BY DEF WorkerInv, WorkerTypeOK
<1>3. Running' \subseteq Running \cup {c} /\ (r.at # "run" => Running' \subseteq Running)
  BY <1>2 DEF Running
<1>4. Cardinality(Running) <= MaxBackgroundJobs
  BY DEF WorkerInv, WorkerTypeOK
<1>5. Cardinality(Running') <= MaxBackgroundJobs
  BY <1>3, <1>4, RunningBound, RunningFinite
<1>6. \A d \in Call : job'[d] # NoJob => runner'[d].at = "run"
  BY <1>2 DEF WorkerInv, WorkerTypeOK
<1>7. QED BY <1>1, <1>5, <1>6

\* No goroutine moves and no call begins.
LEMMA Stays ==
  ASSUME WorkerInv, UNCHANGED runner, \A d \in Call : job'[d] # NoJob => job[d] # NoJob
  PROVE  /\ runner' \in [Call -> Runner]
         /\ Cardinality(Running') <= MaxBackgroundJobs
         /\ \A d \in Call : job'[d] # NoJob => runner'[d].at = "run"
<1>1. Running' = Running
  BY DEF Running
<1>2. QED BY <1>1 DEF WorkerInv, WorkerTypeOK

\* RunMaintenance starts at most one goroutine, which does not index yet.
LEMMA RunMaintenanceType ==
  ASSUME WorkerInv, RunMaintenance, UNCHANGED job
  PROVE  /\ pending' \in BOOLEAN
         /\ runner' \in [Call -> Runner]
         /\ Cardinality(Running') <= MaxBackgroundJobs
         /\ \A d \in Call : job'[d] # NoJob => runner'[d].at = "run"
<1>1. pending' \in BOOLEAN
  BY DEF RunMaintenance, WorkerInv, WorkerTypeOK
<1>2. CASE UNCHANGED runner
  BY <1>1, <1>2, Stays
<1>3. ASSUME NEW c \in Call, runner[c].at = "none", Go(c, "top")
      PROVE  /\ runner' \in [Call -> Runner]
             /\ Cardinality(Running') <= MaxBackgroundJobs
             /\ \A d \in Call : job'[d] # NoJob => runner'[d].at = "run"
  <2>1. runner[c] \in Runner
    BY DEF WorkerInv, WorkerTypeOK
  <2>2. PICK r \in Runner : r.at = "top" /\ runner' = [runner EXCEPT ![c] = r]
    <3>1. [runner[c] EXCEPT !.at = "top"] \in Runner /\ [runner[c] EXCEPT !.at = "top"].at = "top"
      BY <2>1, RunnerRecords DEF Runner
    <3>2. runner' = [runner EXCEPT ![c] = [runner[c] EXCEPT !.at = "top"]]
      BY <1>3 DEF Go
    <3>3. QED BY <3>1, <3>2
  <2>3. job[c] = NoJob
    BY <1>3 DEF WorkerInv, WorkerTypeOK
  <2>4. QED BY <2>2, <2>3, Moves
<1>4. QED BY <1>1, <1>2, <1>3 DEF RunMaintenance

\* A step of CodeIndex that belongs to call c begins no other call.
LEMMA NoOtherCall ==
  ASSUME IndexInv, NEW c \in Call,
         \/ CallStep(c) \/ Return(c)
         \/ \E incremental \in BOOLEAN : BeginRepository(c, incremental)
         \/ \E files \in SUBSET File : BeginFiles(c, files)
  PROVE  /\ \A d \in Call : d # c => job'[d] = job[d]
         /\ CallStep(c) => job'[c] = job[c] \/ job[c] # NoJob
         /\ Return(c) => job'[c] = NoJob
<1>1. \A d \in Call : d # c => job'[d] = job[d]
  <2>1. \/ UNCHANGED job \/ \E x : job' = [job EXCEPT ![c] = x]
    BY DEF CallStep, ReadFile, ApplyFile, ApplySymbols, RemoveMissing, FilesIndexed, Return,
           BeginRepository, BeginFiles
  <2>2. QED BY <2>1 DEF IndexInv, IndexTypeOK
<1>2. CallStep(c) => job'[c] = job[c] \/ job[c] # NoJob
  <2>1. NoJob.step = "none"
    BY DEF NoJob
  <2>2. CASE UNCHANGED job
    BY <2>2
  <2>3. CASE job[c].step \in {"repo", "files"}
    BY <2>1, <2>3
  <2>4. QED BY <2>2, <2>3
            DEF CallStep, ReadFile, ApplyFile, ApplySymbols, RemoveMissing, FilesIndexed
<1>3. Return(c) => job'[c] = NoJob
  BY DEF Return, IndexInv, IndexTypeOK
<1>4. QED BY <1>1, <1>2, <1>3

\* The goroutines and their calls stay in step.
LEMMA RunnersStep ==
  ASSUME WorkerInv, WorkerNext
  PROVE  /\ runner' \in [Call -> Runner]
         /\ Cardinality(Running') <= MaxBackgroundJobs
         /\ \A d \in Call : job'[d] # NoJob => runner'[d].at = "run"
<1> DEFINE Goal == /\ runner' \in [Call -> Runner]
                   /\ Cardinality(Running') <= MaxBackgroundJobs
                   /\ \A d \in Call : job'[d] # NoJob => runner'[d].at = "run"
<1>. SUFFICES Goal
  OBVIOUS
<1>0. /\ runner \in [Call -> Runner] /\ dirty \in SUBSET File
      /\ \A d \in Call : job[d] # NoJob => runner[d].at = "run"
  BY DEF WorkerInv, WorkerTypeOK
<1>1. ASSUME NEW f \in File, FileEvent(f) \/ DropEvent(f) \/ OnEvent(f) PROVE Goal
  <2>1. UNCHANGED <<job, runner>>
    BY <1>1 DEF FileEvent, Edit, DropEvent, OnEvent, indexVars
  <2>2. QED BY <2>1, Stays
<1>2. CASE OnEventAsks \/ Tick
  BY <1>2, RunMaintenanceType DEF OnEventAsks, Tick, indexVars
<1>3. CASE Stop
  BY <1>3, Stays DEF Stop, indexVars
<1>4. ASSUME NEW c \in Call, NEW r \in Runner, r.at # "run", UNCHANGED job,
             runner[c].at # "run", runner' = [runner EXCEPT ![c] = r]
      PROVE  Goal
  BY <1>0, <1>4, Moves
<1>5. ASSUME NEW c \in Call, Take(c) PROVE Goal
  <2>1. PICK r \in Runner : r.at # "run" /\ runner' = [runner EXCEPT ![c] = r]
    <3>1. CASE ~pending
      BY <1>5, <3>1, RunnerRecords DEF Take, Gone, NoRunner
    <3>2. CASE pending
      <4>1. PICK S \in SUBSET File : runner' = [runner EXCEPT ![c] = [at |-> "sem", take |-> S]]
        BY <1>0, <1>5, <3>2 DEF Take
      <4>2. QED BY <4>1, RunnerRecords
    <3>3. QED BY <3>1, <3>2
  <2>2. QED BY <1>4, <1>5, <2>1 DEF Take, indexVars
<1>6. ASSUME NEW c \in Call, NEW where \in {"none", "top", "sem", "run", "end"}, Go(c, where)
      PROVE  \E r \in Runner : r.at = where /\ runner' = [runner EXCEPT ![c] = r]
  <2>1. runner[c] \in Runner
    BY <1>0
  <2>2. [runner[c] EXCEPT !.at = where] \in Runner /\ [runner[c] EXCEPT !.at = where].at = where
    BY <2>1, RunnerRecords DEF Runner
  <2>3. runner' = [runner EXCEPT ![c] = [runner[c] EXCEPT !.at = where]]
    BY <1>6 DEF Go
  <2>4. QED BY <2>2, <2>3
<1>7. ASSUME NEW c \in Call, Acquire(c) PROVE Goal
  <2>1. PICK r \in Runner : r.at = "run" /\ runner' = [runner EXCEPT ![c] = r]
    BY <1>6, <1>7 DEF Acquire
  <2>2. runner[c].take \in SUBSET File
    BY <1>0, RunnerRecords
  <2>3. \A d \in Call : d # c => job'[d] = job[d]
    BY <1>7, <2>2, NoOtherCall DEF Acquire, WorkerInv
  <2>4. QED BY <1>7, <2>1, <2>3, Moves DEF Acquire
<1>8. ASSUME NEW c \in Call, AcquireFails(c) PROVE Goal
  <2>1. PICK r \in Runner : r.at = "end" /\ runner' = [runner EXCEPT ![c] = r]
    BY <1>6, <1>8 DEF AcquireFails
  <2>2. QED BY <1>4, <1>8, <2>1 DEF AcquireFails, indexVars
<1>9. ASSUME NEW c \in Call, GiveUp(c) PROVE Goal
  <2>1. NoRunner \in Runner /\ NoRunner.at # "run"
    BY RunnerRecords DEF NoRunner
  <2>2. QED BY <1>4, <1>9, <2>1 DEF GiveUp, Gone, indexVars
<1>10. ASSUME NEW c \in Call, Index(c) PROVE Goal
  BY <1>10, NoOtherCall, Stays DEF Index, WorkerInv
<1>11. ASSUME NEW c \in Call, Release(c) PROVE Goal
  <2>1. PICK r \in Runner : r.at = "end" /\ runner' = [runner EXCEPT ![c] = r]
    BY <1>6, <1>11 DEF Release
  <2>2. \A d \in Call : job'[d] # NoJob => d # c /\ job[d] # NoJob
    BY <1>11, NoOtherCall DEF Release, WorkerInv
  <2>3. QED BY <2>1, <2>2, Moves
<1>12. ASSUME NEW c \in Call, End(c) PROVE Goal
  <2>1. PICK r \in Runner : r.at # "run" /\ runner' = [runner EXCEPT ![c] = r]
    <3>1. CASE pending /\ ~stopped
      BY <1>6, <1>12, <3>1 DEF End
    <3>2. CASE ~(pending /\ ~stopped)
      BY <1>12, <3>2, RunnerRecords DEF End, Gone, NoRunner
    <3>3. QED BY <3>1, <3>2
  <2>2. QED BY <1>4, <1>12, <2>1 DEF End, indexVars
<1>13. QED BY <1>1, <1>2, <1>3, <1>5, <1>7, <1>8, <1>9, <1>10, <1>11, <1>12
           DEF WorkerNext, RunnerStep

\* Every step keeps the invariant.
LEMMA WorkerStepInv == WorkerInv /\ [WorkerNext]_workerVars => WorkerInv'
<1>. SUFFICES ASSUME WorkerInv, [WorkerNext]_workerVars PROVE WorkerInv'
  OBVIOUS
<1>1. IndexInv'
  BY WorkerIndexStep, IndexStepInv DEF WorkerInv
<1>2. CASE UNCHANGED workerVars
  BY <1>1, <1>2 DEF WorkerInv, WorkerTypeOK, Running, workerVars, indexVars, flagVars, dirtyVars
<1>3. CASE WorkerNext
  <2>1. /\ {pending', indexing', stopped', dirtyOverflow'} \subseteq BOOLEAN
        /\ dirty' \subseteq File /\ notices' \subseteq File /\ callers' \in 0..MaxCallers
    <3>. USE DEF WorkerInv, WorkerTypeOK, flagVars, dirtyVars
    <3>1. ASSUME NEW f \in File, FileEvent(f) \/ DropEvent(f) \/ OnEvent(f)
          PROVE  /\ {pending', indexing', stopped', dirtyOverflow'} \subseteq BOOLEAN
                 /\ dirty' \subseteq File /\ notices' \subseteq File /\ callers' \in 0..MaxCallers
      <4>1. dirtyOverflow' \in BOOLEAN
        BY <3>1, Zenon DEF FileEvent, DropEvent, OnEvent
      <4>2. dirty' \subseteq File /\ notices' \subseteq File
        BY <3>1 DEF FileEvent, DropEvent, OnEvent
      <4>3. callers' \in 0..MaxCallers
        BY <3>1 DEF FileEvent, DropEvent, OnEvent
      <4>4. UNCHANGED <<pending, indexing, stopped>>
        BY <3>1 DEF FileEvent, DropEvent, OnEvent
      <4>5. QED BY <4>1, <4>2, <4>3, <4>4
    <3>2. CASE OnEventAsks \/ Tick
      <4>1. UNCHANGED <<indexing, stopped, dirty, dirtyOverflow, notices>>
        BY <3>2 DEF OnEventAsks, Tick
      <4>2. callers' \in 0..MaxCallers
        BY <3>2 DEF OnEventAsks, Tick
      <4>3. pending' \in BOOLEAN
        BY <3>2, RunMaintenanceType DEF OnEventAsks, Tick, indexVars
      <4>4. QED BY <4>1, <4>2, <4>3
    <3>3. CASE Stop
      BY <3>3 DEF Stop
    <3>4. ASSUME NEW c \in Call, Take(c)
          PROVE  /\ {pending', indexing', stopped', dirtyOverflow'} \subseteq BOOLEAN
                 /\ dirty' \subseteq File /\ notices' \subseteq File /\ callers' \in 0..MaxCallers
      BY <3>4 DEF Take
    <3>5. ASSUME NEW c \in Call, Acquire(c) \/ AcquireFails(c) \/ GiveUp(c)
          PROVE  /\ {pending', indexing', stopped', dirtyOverflow'} \subseteq BOOLEAN
                 /\ dirty' \subseteq File /\ notices' \subseteq File /\ callers' \in 0..MaxCallers
      <4>1. runner[c].take \in SUBSET File
        BY RunnerRecords
      <4>2. QED BY <3>5, <4>1 DEF Acquire, AcquireFails, GiveUp
    <3>6. ASSUME NEW c \in Call, Index(c) \/ Release(c) \/ End(c)
          PROVE  /\ {pending', indexing', stopped', dirtyOverflow'} \subseteq BOOLEAN
                 /\ dirty' \subseteq File /\ notices' \subseteq File /\ callers' \in 0..MaxCallers
      BY <3>6 DEF Index, Release, End
    <3>7. QED BY <1>3, <3>1, <3>2, <3>3, <3>4, <3>5, <3>6 DEF WorkerNext, RunnerStep
  <2>2. QED BY <1>1, <1>3, <2>1, RunnersStep DEF WorkerInv, WorkerTypeOK
<1>4. QED BY <1>2, <1>3

\* WorkerInv holds in every reachable state of ProjectWorker: goroutines and the
\* indexing calls they make stay well typed and in step (runMaintenance).
THEOREM WorkerInvariance == WorkerSpec => []WorkerInv
BY WorkerInitInv, WorkerStepInv, PTL DEF WorkerSpec

\* The worker's state is well typed; at most MaxBackgroundJobs goroutines index
\* at once, and only a goroutine that holds the semaphore has a call in progress.
THEOREM WorkerTypeCorrect == WorkerSpec => []WorkerTypeOK
BY WorkerInvariance, PTL DEF WorkerInv

\* When no goroutine is left after Stop, no step starts one or changes the graph.
LEMMA StoppedStep ==
  ASSUME WorkerInv, [WorkerNext]_workerVars, stopped, \A c \in Call : runner[c].at = "none"
  PROVE  (\A c \in Call : runner'[c].at = "none") /\ UNCHANGED graphVars
<1>1. \A c \in Call : job[c] = NoJob
  BY DEF WorkerInv, WorkerTypeOK
<1>2. \A c \in Call : job[c].step = "none" /\ \A f \in File : work[c][f].at = "none"
  BY <1>1 DEF NoJob, WorkerInv, IndexInv, Busy
<1>3. ASSUME NEW c \in Call, RunnerStep(c) \/ AcquireFails(c) PROVE FALSE
  <2>1. ~CallStep(c) /\ ~Return(c)
    BY <1>2 DEF CallStep, ReadFile, ApplyFile, ApplySymbols, RemoveMissing, FilesIndexed, Return
  <2>2. QED BY <1>3, <2>1 DEF RunnerStep, Take, Acquire, AcquireFails, GiveUp, Index, Release, End
<1>4. ASSUME NEW f \in File, FileEvent(f) \/ DropEvent(f) \/ OnEvent(f)
      PROVE  UNCHANGED <<runner, graphVars>>
  BY <1>4 DEF FileEvent, Edit, DropEvent, OnEvent, indexVars
<1>5. CASE OnEventAsks \/ Tick \/ Stop
  BY <1>5 DEF OnEventAsks, Tick, Stop, RunMaintenance, indexVars
<1>6. CASE UNCHANGED workerVars
  BY <1>6 DEF workerVars, indexVars
<1>7. QED BY <1>3, <1>4, <1>5, <1>6 DEF WorkerNext

\* After Stop has returned neither an event, nor a tick, nor a caller that was
\* already inside OnEvent starts a goroutine or touches the graph.
THEOREM StopStaysFinal == WorkerSpec => StopIsFinal
<1>1. WorkerInv /\ [WorkerNext]_workerVars =>
        [stopped /\ (\A c \in Call : runner[c].at = "none") =>
           /\ \A c \in Call : runner'[c].at = "none"
           /\ UNCHANGED graphVars]_workerVars
  BY StoppedStep
<1>2. QED BY <1>1, WorkerInvariance, PTL DEF WorkerSpec, StopIsFinal

-----------------------------------------------------------------------------
(* One goroutine over a graph that was right at the start: what changes is   *)
(* not forgotten.                                                            *)

\* The daemon starts over a graph that is up to date.
IndexedSpec == WorkerInit /\ hash = content /\ [][WorkerNext]_workerVars

\* The graph has the file as it is, or by its modification time seems to.
InGraph(f) == hash[f] = content[f] \/ (utc /\ mtime[f] = ftime[f])

\* Somebody will have the file looked at.
Asked(f) ==
  \/ f \in notices \cup dirty \/ dirtyOverflow
  \/ \E c \in Call : runner[c].at = "sem" /\ (runner[c].take = {} \/ f \in runner[c].take)

\* A call is to bring the file up to date ...
Covers(c, f) == job[c].step = "repo" \/ (job[c].step = "files" /\ f \in job[c].all)

\* ... and wherever it is with it, it goes by the present content.
OnCourse(c, f) ==
  /\ ftime[f] <= job[c].began
  /\ work[c][f].at = "todo" => content[f] # Absent
  /\ work[c][f].at = "parsed" => work[c][f].ver = content[f]
  /\ work[c][f].at = "applying" => hash[f] = content[f]
  /\ work[c][f].at = "none" /\ f \in job[c].all => InGraph(f)
  /\ f \notin job[c].all => content[f] = Absent

\* A call has work only on files it covers.
Within == \A c \in Call, f \in File : work[c][f].at # "none" => Covers(c, f)

Kept(f) ==
  ~Asked(f) => /\ \A c \in Call : Covers(c, f) => OnCourse(c, f)
               /\ (\A c \in Call : ~Covers(c, f)) => InGraph(f)

RememberInv ==
  /\ \A f \in File : ftime[f] <= edits
  /\ stopped \/ \A f \in File : Kept(f)

\* What ChangesRemembered asks for is there.
LEMMA Remembering == WorkerInv /\ RememberInv => ChangesRemembered
<1>. SUFFICES ASSUME WorkerInv, RememberInv, ~stopped, NEW f \in File, hash[f] # content[f]
              PROVE  \/ f \in notices \cup dirty \/ dirtyOverflow \/ FullRunAhead(f)
                     \/ utc /\ mtime[f] = ftime[f]
                     \/ \E c \in Call : \/ runner[c].at = "sem" /\ f \in runner[c].take
                                        \/ work[c][f].at # "none"
  BY DEF ChangesRemembered
<1>1. CASE Asked(f)
  BY <1>1 DEF Asked, FullRunAhead
<1>2. CASE ~Asked(f) /\ \A c \in Call : ~Covers(c, f)
  BY <1>2 DEF RememberInv, Kept, InGraph
<1>3. ASSUME NEW c \in Call, ~Asked(f), Covers(c, f)
      PROVE  FullRunAhead(f) \/ (utc /\ mtime[f] = ftime[f]) \/ work[c][f].at # "none"
  <2>1. OnCourse(c, f)
    BY <1>3 DEF RememberInv, Kept
  <2>2. QED BY <1>3, <2>1 DEF OnCourse, Covers, InGraph, FullRunAhead
<1>4. QED BY <1>1, <1>2, <1>3

\* Nothing happens to the file, in the workspace, the graph or a call.
LEMMA Untouched ==
  ASSUME NEW f \in File, Kept(f), Asked(f) => Asked(f)',
         content'[f] = content[f], ftime'[f] = ftime[f], utc' = utc,
         hash'[f] = hash[f], mtime'[f] = mtime[f], job' = job,
         \A c \in Call : work'[c][f] = work[c][f]
  PROVE  Kept(f)'
BY DEF Kept, Covers, OnCourse, InGraph

\* The workspace, the graph and the calls stay.
LEMMA OutsideCalls ==
  ASSUME NEW f \in File, Kept(f), Asked(f) => Asked(f)', UNCHANGED indexVars
  PROVE  Kept(f)'
BY Untouched DEF indexVars, diskVars, graphVars

\* A call that begins looks at what was asked for.
LEMMA AcquireKeeps ==
  ASSUME OneCall, ~GitRoot, WorkerInv, \A f \in File : ftime[f] <= edits /\ Kept(f),
         NEW c \in Call, Acquire(c), NEW f \in File
  PROVE  Kept(f)'
<1>. SUFFICES ASSUME ~Asked(f)' PROVE (Covers(c, f) => OnCourse(c, f))' /\ (~Covers(c, f) => InGraph(f))'
  BY DEF OneCall, Kept
<1>1. /\ job \in [Call -> Job] /\ work \in [Call -> [File -> Work]] /\ content \in [File -> 0..MaxVersion]
      /\ runner[c] \in Runner /\ runner[c].take \in SUBSET File
  BY RunnerRecords DEF WorkerInv, WorkerTypeOK, IndexInv, IndexTypeOK
<1>2. CASE runner[c].take = {}
  <2>. DEFINE chosen == IF Incremental /\ ChangedOnDisk # {} THEN ChangedOnDisk ELSE OnDisk
  <2>1. GitChanged = {}
    BY DEF GitChanged
  <2>2. BeginRepository(c, Incremental)
    BY <1>2 DEF Acquire
  <2>3. /\ job' = [job EXCEPT ![c] = Started("repo", Incremental, FALSE, OnDisk)]
        /\ work' = [work EXCEPT ![c] = Todo(chosen)]
        /\ UNCHANGED <<content, ftime, utc, edits, hash, mtime>>
    BY <2>1, <2>2, Zenon DEF BeginRepository, diskVars, graphVars
  <2>4. job'[c].step = "repo" /\ job'[c].all = OnDisk /\ job'[c].began = edits
    BY <1>1, <2>3 DEF Started
  <2>5. work'[c][f].at = IF f \in chosen THEN "todo" ELSE "none"
    BY <1>1, <2>3 DEF Todo, NoWork
  <2>6. f \in chosen => content[f] # Absent
    BY DEF ChangedOnDisk, OnDisk
  <2>7. ASSUME f \in OnDisk, f \notin chosen PROVE InGraph(f)
    <3>1. f \notin ChangedOnDisk
      BY <2>7
    <3>2. ~(hash[f] # content[f] /\ ~(utc /\ mtime[f] = ftime[f]))
      BY <2>7, <3>1, Zenon DEF ChangedOnDisk
    <3>3. QED BY <3>2, Zenon DEF InGraph
  <2>8. f \notin OnDisk => content[f] = Absent
    BY DEF OnDisk
  <2>. HIDE DEF chosen
  <2>9. InGraph(f)' <=> InGraph(f)
    BY <2>3 DEF InGraph
  <2>10. Covers(c, f)' /\ ftime'[f] <= job'[c].began
    BY <2>3, <2>4 DEF Covers
  <2>11. CASE f \in chosen
    <3>1. work'[c][f].at = "todo" /\ content'[f] # Absent /\ f \in job'[c].all
      BY <2>3, <2>4, <2>5, <2>6, <2>11 DEF OnDisk
    <3>2. QED BY <2>10, <3>1 DEF OnCourse
  <2>12. CASE f \notin chosen
    <3>1. work'[c][f].at = "none" /\ (f \in job'[c].all => InGraph(f)')
      BY <2>4, <2>5, <2>7, <2>9, <2>12
    <3>2. f \notin job'[c].all => content'[f] = Absent
      BY <2>3, <2>4, <2>8
    <3>3. QED BY <2>10, <3>1, <3>2 DEF OnCourse
  <2>13. QED BY <2>11, <2>12
<1>3. CASE runner[c].take # {}
  <2>. DEFINE files == runner[c].take
  <2>1. BeginFiles(c, files)
    BY <1>3 DEF Acquire
  <2>2. /\ Remove(files \ OnDisk)
        /\ job' = [job EXCEPT ![c] = Started("files", TRUE, FALSE, files)]
        /\ work' = [Detach(work, files \ OnDisk) EXCEPT ![c] = Todo(files \cap OnDisk)]
        /\ UNCHANGED <<content, ftime, utc, edits>>
    BY <2>1, Zenon DEF BeginFiles, diskVars
  <2>3. Detach(work, files \ OnDisk) \in [Call -> [File -> Work]]
    BY DetachType DEF WorkerInv, IndexInv
  <2>. HIDE DEF files
  <2>4. /\ job'[c].step = "files" /\ job'[c].all = files /\ job'[c].began = edits
        /\ work'[c] = Todo(files \cap OnDisk)
    BY <1>1, <2>2, <2>3 DEF Started
  <2>5. CASE f \in files
    <3>1. work'[c][f].at = IF f \in OnDisk THEN "todo" ELSE "none"
      BY <2>4, <2>5 DEF Todo, NoWork
    <3>2. f \notin OnDisk => hash'[f] = Absent
      BY <2>2, <2>5, Removing
    <3>3. f \in OnDisk <=> content[f] # Absent
      BY DEF OnDisk
    <3>4. hash'[f] = content'[f] => InGraph(f)'
      BY Zenon DEF InGraph
    <3>5. Covers(c, f)' /\ ftime'[f] <= job'[c].began /\ f \in job'[c].all
      BY <2>2, <2>4, <2>5 DEF Covers
    <3>6. work'[c][f].at = "todo" => content'[f] # Absent
      BY <2>2, <3>1, <3>3
    <3>7. work'[c][f].at = "none" => InGraph(f)'
      BY <2>2, <3>1, <3>2, <3>3, <3>4
    <3>8. QED BY <3>1, <3>5, <3>6, <3>7 DEF OnCourse
  <2>6. CASE f \notin files
    <3>1. ~Asked(f)
      <4>1. UNCHANGED <<notices, dirty, dirtyOverflow>>
        BY DEF Acquire, dirtyVars
      <4>2. QED BY <1>3, <2>6, <4>1 DEF Asked, OneCall, files
    <3>2. ~Covers(c, f)
      BY <2>1 DEF BeginFiles, Covers
    <3>3. InGraph(f)
      BY <3>1, <3>2 DEF Kept, OneCall
    <3>4. hash'[f] = hash[f] /\ mtime' = mtime
      BY <2>2, <2>6 DEF Remove
    <3>5. ~Covers(c, f)'
      BY <2>4, <2>6 DEF Covers
    <3>6. QED BY <2>2, <3>3, <3>4, <3>5 DEF InGraph
  <2>7. QED BY <2>5, <2>6
<1>4. QED BY <1>2, <1>3

LEMMA WithinStep == ASSUME OneCall, IndexInv, Within, [IndexNext]_indexVars PROVE Within'
<1>1. /\ job \in [Call -> Job] /\ work \in [Call -> [File -> Work]]
  BY DEF IndexInv, IndexTypeOK
<1>2. CASE (\E f \in File : Edit(f)) \/ Stage \/ UNCHANGED indexVars
  <2>1. UNCHANGED <<job, work>>
    BY <1>2 DEF Edit, Stage, indexVars
  <2>2. QED BY <2>1 DEF Within, Covers
<1>3. ASSUME NEW c \in Call, NEW i \in BOOLEAN, BeginRepository(c, i) PROVE Within'
  <2>1. job'[c].step = "repo"
    BY <1>1, <1>3 DEF BeginRepository, Started
  <2>2. QED BY <2>1 DEF OneCall, Within, Covers
<1>4. ASSUME NEW c \in Call, NEW files \in SUBSET File, BeginFiles(c, files) PROVE Within'
  <2>1. Detach(work, files \ OnDisk) \in [Call -> [File -> Work]]
    BY DetachType DEF IndexInv
  <2>2. job'[c].step = "files" /\ job'[c].all = files /\ work'[c] = Todo(files \cap OnDisk)
    BY <1>1, <1>4, <2>1 DEF BeginFiles, Started
  <2>3. \A f \in File : work'[c][f].at # "none" => f \in files
    BY <2>2 DEF Todo, NoWork
  <2>4. QED BY <2>2, <2>3 DEF OneCall, Within, Covers
<1>5. ASSUME NEW c \in Call, NEW f \in File, ReadFile(c, f) \/ ApplyFile(c, f) \/ ApplySymbols(c, f)
      PROVE  Within'
  <2>1. work[c][f].at # "none"
    BY <1>5 DEF ReadFile, ApplyFile, ApplySymbols
  <2>2. QED BY <1>5, <2>1, FileStepWork DEF Within, Covers
<1>6. ASSUME NEW c \in Call, RemoveMissing(c) \/ FilesIndexed(c) \/ Return(c) PROVE Within'
  <2>1. job[c].step \notin {"repo", "files"} \/ Indexed(c)
    BY <1>6 DEF RemoveMissing, FilesIndexed, Return
  <2>2. \A f \in File : work[c][f].at = "none"
    BY <2>1, AtRest
  <2>3. \A f \in File : work'[c][f] = work[c][f]
    BY <1>6, <2>2, DetachAtRest DEF RemoveMissing, FilesIndexed, Return
  <2>4. QED BY <2>2, <2>3 DEF OneCall, Within
<1>7. QED BY <1>2, <1>3, <1>4, <1>5, <1>6 DEF IndexNext, CallStep

\* A call that reads and writes a file goes on by what the file is.
LEMMA FileStepKeeps ==
  ASSUME OneCall, IndexInv, SymbolsHashed, Within, NEW c \in Call, NEW g \in File,
         ReadFile(c, g) \/ ApplyFile(c, g) \/ ApplySymbols(c, g),
         NEW f \in File, Kept(f), Asked(f)' <=> Asked(f)
  PROVE  Kept(f)'
<1>1. /\ job' = job /\ content' = content /\ ftime' = ftime /\ utc' = utc
      /\ f # g => (\A d \in Call : work'[d][f] = work[d][f]) /\ hash'[f] = hash[f]
  BY FileStepWork
<1>2. CASE f # g
  <2>1. mtime'[f] = mtime[f]
    BY <1>2 DEF ReadFile, ApplyFile, ApplySymbols, IndexInv, IndexTypeOK
  <2>2. QED BY <1>1, <1>2, <2>1, Untouched
<1>3. CASE f = g /\ ~Asked(f)
  <2>1. work[c][f].at # "none"
    BY <1>3 DEF ReadFile, ApplyFile, ApplySymbols
  <2>2. Covers(c, f) /\ Covers(c, f)'
    BY <1>1, <2>1 DEF Within, Covers
  <2>3. OnCourse(c, f)
    BY <1>3, <2>2 DEF Kept
  <2>4. \/ work'[c][f].at = "parsed" /\ work'[c][f].ver = content[f]
        \/ work'[c][f].at = "applying" /\ hash'[f] = content[f]
        \/ work'[c][f].at = "none" /\ hash'[f] = content[f]
    <3>1. CASE ReadFile(c, f)
      BY <2>3, <3>1, ReadSteps DEF OnCourse
    <3>2. CASE ApplyFile(c, f)
      BY <2>3, <3>2, ApplySteps DEF OnCourse
    <3>3. CASE ApplySymbols(c, f)
      <4>1. work[c][f].at # "detached"
        BY DEF SymbolsHashed
      <4>2. QED BY <2>3, <3>3, <4>1, SymbolSteps DEF OnCourse
    <3>4. QED BY <1>3, <3>1, <3>2, <3>3
  <2>5. hash'[f] = content[f] => InGraph(f)'
    BY <1>1, Zenon DEF InGraph
  <2>6. OnCourse(c, f)'
    BY <1>1, <2>3, <2>4, <2>5 DEF OnCourse
  <2>7. QED BY <2>2, <2>6 DEF OneCall, Kept
<1>4. QED BY <1>2, <1>3 DEF Kept

\* What a call that has been over all its files leaves behind.
LEMMA EndKeeps ==
  ASSUME OneCall, IndexInv, NEW c \in Call, RemoveMissing(c) \/ FilesIndexed(c) \/ Return(c),
         NEW f \in File, Kept(f), Asked(f)' <=> Asked(f)
  PROVE  Kept(f)'
<1>. SUFFICES ASSUME ~Asked(f) PROVE InGraph(f)' /\ ~Covers(c, f)'
  BY DEF OneCall, Kept
<1>2. job \in [Call -> Job]
  BY DEF IndexInv, IndexTypeOK
<1>3. job'[c].step \in {"done", "none"}
  BY <1>2 DEF RemoveMissing, FilesIndexed, Return, NoJob, Job
<1>4. ~Covers(c, f)'
  BY <1>3 DEF Covers
<1>5. work[c][f].at = "none"
  <2>1. job[c].step \notin {"repo", "files"} \/ Indexed(c)
    BY DEF RemoveMissing, FilesIndexed, Return
  <2>2. QED BY <2>1, AtRest
<1>6. UNCHANGED <<content, ftime, utc, mtime>>
  BY DEF RemoveMissing, FilesIndexed, Return, Remove, diskVars, graphVars
<1>7. CASE RemoveMissing(c)
  <2>1. Covers(c, f) /\ Remove(File \ job[c].all)
    BY <1>7 DEF Covers, RemoveMissing
  <2>2. OnCourse(c, f)
    BY <2>1 DEF Kept
  <2>3. CASE f \in job[c].all
    <3>1. hash'[f] = hash[f] /\ InGraph(f)
      BY <1>5, <2>1, <2>2, <2>3, Removing DEF OnCourse
    <3>2. QED BY <1>4, <1>6, <3>1 DEF InGraph
  <2>4. CASE f \notin job[c].all
    <3>1. hash'[f] = content'[f]
      BY <1>6, <2>1, <2>2, <2>4, Removing DEF OnCourse
    <3>2. QED BY <1>4, <3>1, Zenon DEF InGraph
  <2>5. QED BY <2>3, <2>4
<1>8. CASE FilesIndexed(c) \/ Return(c)
  <2>1. UNCHANGED hash
    BY <1>8 DEF FilesIndexed, Return, graphVars
  <2>2. InGraph(f)
    <3>1. CASE Covers(c, f)
      <4>1. f \in job[c].all
        BY <1>8, <3>1 DEF FilesIndexed, Return, Covers
      <4>2. QED BY <1>5, <3>1, <4>1 DEF Kept, OnCourse
    <3>2. CASE ~Covers(c, f)
      BY <3>2 DEF Kept, OneCall
    <3>3. QED BY <3>1, <3>2
  <2>3. QED BY <1>4, <1>6, <2>1, <2>2 DEF InGraph
<1>9. QED BY <1>7, <1>8

\* Who has been asked stays asked, until a call begins.
LEMMA AskedStays ==
  ASSUME OneCall, ~MayDrop, "repo" \notin MayFail, WorkerInv, ~stopped, NEW f \in File, Asked(f),
         \/ (\E g \in File : FileEvent(g) \/ DropEvent(g) \/ OnEvent(g))
         \/ OnEventAsks \/ Tick
         \/ \E c \in Call : Take(c) \/ AcquireFails(c) \/ Index(c) \/ Release(c) \/ End(c)
  PROVE  Asked(f)'
<1>1. runner \in [Call -> Runner] /\ dirty \subseteq File
  BY DEF WorkerInv, WorkerTypeOK
<1>2. ASSUME NEW g \in File, FileEvent(g) \/ DropEvent(g) \/ OnEvent(g) PROVE Asked(f)'
  <2>1. CASE FileEvent(g)
    BY <2>1 DEF FileEvent, dirtyVars, Asked
  <2>2. CASE OnEvent(g)
    BY <2>2 DEF OnEvent, Asked
  <2>3. QED BY <1>2, <2>1, <2>2 DEF DropEvent
<1>3. CASE OnEventAsks \/ Tick
  <2>1. UNCHANGED <<notices, dirty, dirtyOverflow>>
    BY <1>3 DEF OnEventAsks, Tick, dirtyVars
  <2>2. \A c \in Call : runner[c].at = "sem" => runner'[c] = runner[c]
    <3>1. \/ UNCHANGED runner
          \/ \E c \in Call : runner[c].at = "none" /\ runner' = [runner EXCEPT ![c].at = "top"]
      BY <1>3 DEF OnEventAsks, Tick, RunMaintenance, Go
    <3>2. QED BY <1>1, <3>1
  <2>3. QED BY <2>1, <2>2 DEF Asked
<1>4. ASSUME NEW c \in Call, Take(c) PROVE Asked(f)'
  <2>1. runner[c].at = "top" /\ UNCHANGED notices
    BY <1>4 DEF Take
  <2>2. f \in notices \cup dirty \/ dirtyOverflow
    BY <2>1 DEF Asked, OneCall
  <2>3. CASE ~pending
    BY <1>4, <2>2, <2>3 DEF Take, dirtyVars, Asked
  <2>4. CASE pending
    <3>. DEFINE files == IF dirtyOverflow \/ ~Incremental THEN {} ELSE dirty
    <3>1. /\ runner' = [runner EXCEPT ![c] = [at |-> "sem", take |-> files]]
          /\ dirty' = IF dirtyOverflow THEN {} ELSE dirty \ files
      BY <1>4, <2>4 DEF Take
    <3>2. f \in notices \/ files = {} \/ f \in files
      BY <2>2
    <3>. HIDE DEF files
    <3>3. runner'[c].at = "sem" /\ runner'[c].take = files
      BY <1>1, <3>1
    <3>4. QED BY <2>1, <3>2, <3>3 DEF Asked
  <2>5. QED BY <2>3, <2>4
<1>5. ASSUME NEW c \in Call, AcquireFails(c) PROVE Asked(f)'
  <2>1. /\ runner[c].take # {} /\ dirty' = dirty \cup runner[c].take
        /\ UNCHANGED <<notices, dirtyOverflow>>
    BY <1>5 DEF AcquireFails, Kind
  <2>2. QED BY <2>1 DEF Asked, OneCall
<1>6. ASSUME NEW c \in Call, Index(c) PROVE Asked(f)'
  BY <1>6 DEF Index, dirtyVars, Asked
<1>7. ASSUME NEW c \in Call, Release(c) \/ End(c) PROVE Asked(f)'
  <2>1. UNCHANGED <<notices, dirty, dirtyOverflow>>
    BY <1>7 DEF Release, End, dirtyVars
  <2>2. runner[c].at # "sem"
    <3>1. CASE Release(c)
      <4>1. job[c] # NoJob
        BY <3>1 DEF Release, Return, NoJob
      <4>2. QED BY <4>1 DEF WorkerInv, WorkerTypeOK
    <3>2. QED BY <1>7, <3>1 DEF End
  <2>3. QED BY <2>1, <2>2 DEF Asked, OneCall
<1>8. QED BY <1>2, <1>3, <1>4, <1>5, <1>6, <1>7

\* The clock is not behind a file's modification time.
LEMMA ClockStep ==
  ASSUME IndexInv, \A f \in File : ftime[f] <= edits, [IndexNext]_indexVars
  PROVE  \A f \in File : ftime'[f] <= edits'
<1>1. edits \in Nat /\ ftime \in [File -> Nat]
  BY DEF IndexInv, IndexTypeOK
<1>2. ASSUME NEW g \in File, Edit(g) PROVE \A f \in File : ftime'[f] <= edits'
  <2>1. edits' = edits + 1 /\ ftime' = [ftime EXCEPT ![g] = edits + 1]
    BY <1>2 DEF Edit
  <2>2. QED BY <1>1, <2>1
<1>3. CASE Stage \/ UNCHANGED indexVars
  BY <1>3 DEF Stage, indexVars, diskVars
<1>4. ASSUME NEW c \in Call,
             \/ (\E i \in BOOLEAN : BeginRepository(c, i)) \/ CallStep(c) \/ Return(c)
             \/ \E files \in SUBSET File : BeginFiles(c, files)
      PROVE  UNCHANGED <<ftime, edits>>
  BY <1>4 DEF BeginRepository, BeginFiles, CallStep, ReadFile, ApplyFile, ApplySymbols,
              RemoveMissing, FilesIndexed, Return, diskVars
<1>5. QED BY <1>2, <1>3, <1>4 DEF IndexNext

\* Every step of the worker remembers, until it is stopped.
LEMMA RememberStep ==
  ASSUME OneCall, ~GitRoot, ~MayDrop, "repo" \notin MayFail,
         WorkerInv, SymbolsHashed, Within, RememberInv, [WorkerNext]_workerVars
  PROVE  RememberInv'
<1>1. \A f \in File : ftime'[f] <= edits'
  BY WorkerIndexStep, ClockStep DEF WorkerInv, RememberInv
<1>2. CASE stopped
  <2>1. UNCHANGED stopped
    BY <1>2 DEF WorkerNext, RunnerStep, FileEvent, DropEvent, OnEvent, OnEventAsks, Tick, Stop, Take,
                Acquire, AcquireFails, GiveUp, Index, Release, End, flagVars, workerVars
  <2>2. QED BY <1>1, <1>2, <2>1 DEF RememberInv
<1>3. ASSUME ~stopped, NEW f \in File PROVE Kept(f)' \/ stopped'
  <2>1. Kept(f) /\ \A g \in File : ftime[g] <= edits /\ Kept(g)
    BY <1>3 DEF RememberInv
  <2>2. ASSUME NEW g \in File, FileEvent(g) PROVE Kept(f)'
    <3>1. CASE f = g
      <4>1. f \in notices'
        BY <2>2, <3>1 DEF FileEvent
      <4>2. QED BY <4>1 DEF Kept, Asked
    <3>2. CASE f # g
      <4>1. Asked(f) => Asked(f)'
        BY <1>3, <2>2, AskedStays
      <4>2. /\ content'[f] = content[f] /\ ftime'[f] = ftime[f]
            /\ UNCHANGED <<utc, hash, mtime, job, work>>
        BY <2>2, <3>2 DEF FileEvent, Edit, graphVars, WorkerInv, IndexInv, IndexTypeOK
      <4>3. QED BY <2>1, <4>1, <4>2, Untouched
    <3>3. QED BY <3>1, <3>2
  <2>3. ASSUME \/ (\E g \in File : DropEvent(g) \/ OnEvent(g)) \/ OnEventAsks \/ Tick
               \/ \E c \in Call : Take(c) \/ AcquireFails(c) \/ End(c)
        PROVE  Kept(f)'
    <3>1. Asked(f) => Asked(f)'
      BY <1>3, <2>3, AskedStays
    <3>2. UNCHANGED indexVars
      BY <2>3 DEF DropEvent, OnEvent, OnEventAsks, Tick, Take, AcquireFails, End
    <3>3. QED BY <2>1, <3>1, <3>2, OutsideCalls
  <2>4. ASSUME NEW c \in Call, Acquire(c) PROVE Kept(f)'
    BY <2>1, <2>4, AcquireKeeps
  <2>5. ASSUME NEW c \in Call, Index(c) PROVE Kept(f)'
    <3>1. Asked(f)' <=> Asked(f)
      BY <2>5 DEF Index, dirtyVars, Asked
    <3>2. IndexInv
      BY DEF WorkerInv
    <3>3. QED BY <2>1, <2>5, <3>1, <3>2, FileStepKeeps, EndKeeps DEF Index, CallStep
  <2>6. ASSUME NEW c \in Call, Release(c) PROVE Kept(f)'
    <3>1. runner[c].at = "run" /\ UNCHANGED <<notices, dirty, dirtyOverflow>>
      BY <2>6 DEF Release, Return, NoJob, dirtyVars, WorkerInv, WorkerTypeOK
    <3>2. runner'[c].at = "end"
      BY <2>6 DEF Release, Go, WorkerInv, WorkerTypeOK, Runner
    <3>3. Asked(f)' <=> Asked(f)
      BY <3>1, <3>2 DEF Asked, OneCall
    <3>4. IndexInv /\ Return(c)
      BY <2>6 DEF WorkerInv, Release
    <3>5. QED BY <2>1, <3>3, <3>4, EndKeeps
  <2>7. ASSUME UNCHANGED workerVars PROVE Kept(f)'
    <3>1. UNCHANGED indexVars /\ UNCHANGED <<notices, dirty, dirtyOverflow, runner>>
      BY <2>7 DEF workerVars, dirtyVars
    <3>2. Asked(f) => Asked(f)'
      BY <3>1 DEF Asked
    <3>3. QED BY <2>1, <3>1, <3>2, OutsideCalls
  <2>8. QED BY <1>3, <2>2, <2>3, <2>4, <2>5, <2>6, <2>7 DEF WorkerNext, RunnerStep, Stop, GiveUp
<1>4. QED BY <1>1, <1>2, <1>3 DEF RememberInv

\* A daemon with one goroutine per project forgets no change, whatever changes
\* while it collects, waits and indexes: as long as the graph lacks the content of
\* a file, an event, a dirty mark or a run is still to bring it there (OnEvent,
\* runMaintenance, restoreDirty, IndexRepository, IndexFiles).
THEOREM ChangesStayRemembered ==
  ASSUME OneCall, ~GitRoot, ~MayDrop, "repo" \notin MayFail
  PROVE  IndexedSpec => []ChangesRemembered
<1>1. WorkerInit /\ hash = content => SymbolsHashed /\ Within /\ RememberInv
  <2>. SUFFICES ASSUME WorkerInit, hash = content PROVE SymbolsHashed /\ Within /\ RememberInv
    OBVIOUS
  <2>1. SymbolsHashed /\ Within
    BY DEF WorkerInit, IndexInit, NoWork, SymbolsHashed, Within
  <2>2. \A f \in File : ftime[f] <= edits
    BY DEF WorkerInit, IndexInit
  <2>3. \A f \in File : InGraph(f) /\ \A c \in Call : ~Covers(c, f)
    BY DEF WorkerInit, IndexInit, NoJob, InGraph, Covers
  <2>4. QED BY <2>1, <2>2, <2>3 DEF RememberInv, Kept
<1>2. WorkerInv /\ SymbolsHashed /\ Within /\ RememberInv /\ [WorkerNext]_workerVars
        => SymbolsHashed' /\ Within' /\ RememberInv'
  BY RememberStep, WithinStep, SymbolsStep, WorkerIndexStep DEF WorkerInv
<1>3. IndexedSpec => WorkerSpec
  BY DEF IndexedSpec, WorkerSpec
<1>4. QED BY <1>1, <1>2, <1>3, WorkerInvariance, Remembering, PTL DEF IndexedSpec
=============================================================================
