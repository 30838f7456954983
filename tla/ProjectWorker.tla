--------------------------- MODULE ProjectWorker ---------------------------
(***************************************************************************)
(* ProjectWorker (internal/services/daemon.go): the daemon's scheduler of  *)
(* one project.  File events mark files dirty, events and a ticker ask for *)
(* maintenance, and goroutines (runners) index what is dirty, or the whole *)
(* repository, under a semaphore all projects share.                       *)
(*                                                                         *)
(* A runner is one Call of CodeIndex.  RunMaintenance starts a goroutine   *)
(* per request, so there can be several at once; Call bounds how many.     *)
(* The observer's debouncing and the event engine are a set of undelivered *)
(* notices.  Saving the graph after a run is PersistentGraph's business.   *)
(***************************************************************************)
EXTENDS CodeIndex

CONSTANTS
  MaxBackgroundJobs,  \* capacity of the semaphore
  MaxDirtyFiles,
  MaxCallers,         \* bound: OnEvent calls in progress at once
  Incremental,        \* cfg.IndexIncremental
  MayFail,            \* the calls that may fail before they do anything
  MayDrop             \* the observer or the event engine may drop events

ASSUME WorkerAssumption ==
  /\ IsFiniteSet(Call)
  /\ MaxBackgroundJobs \in Nat \ {0} /\ MaxDirtyFiles \in Nat \ {0} /\ MaxCallers \in Nat
  /\ MayFail \subseteq {"repo", "files"} /\ {Incremental, MayDrop} \subseteq BOOLEAN

VARIABLES
  pending, indexing, stopped,   \* the flags of the struct
  dirty, dirtyOverflow,
  notices,    \* files with an event that has not been delivered
  callers,    \* OnEvent calls that have marked a file and not asked yet
  runner      \* runner[c]: where a runMaintenance goroutine is, what it took

flagVars == <<pending, indexing, stopped>>
dirtyVars == <<dirty, dirtyOverflow>>
workerVars == <<indexVars, flagVars, dirtyVars, notices, callers, runner>>

Runner == [at : {"none", "top", "sem", "run", "end"}, take : SUBSET File]
NoRunner == [at |-> "none", take |-> {}]
Go(c, at) == runner' = [runner EXCEPT ![c].at = at]
Gone(c) == runner' = [runner EXCEPT ![c] = NoRunner]

Running == {c \in Call : runner[c].at = "run"}

WorkerTypeOK ==
  /\ {pending, indexing, stopped, dirtyOverflow} \subseteq BOOLEAN
  /\ dirty \subseteq File /\ notices \subseteq File
  /\ callers \in 0..MaxCallers
  /\ runner \in [Call -> Runner]
  /\ Cardinality(Running) <= MaxBackgroundJobs
  /\ \A c \in Call : job[c] # NoJob => runner[c].at = "run"

\* Start has asked for a first maintenance run.
WorkerInit ==
  /\ IndexInit
  /\ pending = TRUE /\ indexing = FALSE /\ stopped = FALSE
  /\ dirty = {} /\ dirtyOverflow = FALSE
  /\ notices = {} /\ callers = 0
  /\ \E c \in Call : runner = [d \in Call |-> IF d = c THEN [NoRunner EXCEPT !.at = "top"]
                                              ELSE NoRunner]

-----------------------------------------------------------------------------
(* Events.                                                                 *)

FileEvent(f) ==
  /\ Edit(f)
  /\ notices' = notices \cup {f}
  /\ UNCHANGED <<flagVars, dirtyVars, callers, runner>>

DropEvent(f) ==
  /\ MayDrop /\ f \in notices
  /\ notices' = notices \ {f}
  /\ UNCHANGED <<indexVars, flagVars, dirtyVars, callers, runner>>

\* Mutant: too many dirty files are forgotten.
OnEventForgets(f) ==
  /\ f \in notices /\ callers < MaxCallers
  /\ notices' = notices \ {f}
  /\ callers' = callers + 1
  /\ dirty' = IF Cardinality(dirty) >= MaxDirtyFiles THEN {} ELSE dirty \cup {f}
  /\ UNCHANGED <<indexVars, flagVars, dirtyOverflow, runner>>

\* OnEvent up to its call of RunMaintenance: when there are too many dirty
\* files, all of them are forgotten and a full index is due.
OnEvent(f) ==
  /\ f \in notices /\ callers < MaxCallers
  /\ notices' = notices \ {f}
  /\ IF stopped THEN UNCHANGED <<dirtyVars, callers>>
     ELSE /\ callers' = callers + 1
          /\ IF Cardinality(dirty) >= MaxDirtyFiles
             THEN dirtyOverflow' = TRUE /\ dirty' = {}
             ELSE dirtyOverflow' = dirtyOverflow /\ dirty' = dirty \cup {f}
  /\ UNCHANGED <<indexVars, flagVars, runner>>

\* Mutant: whoever asks after Stop still starts a goroutine.
RunMaintenanceAlways ==
  \/ /\ (indexing \/ pending)
     /\ pending' = TRUE
     /\ UNCHANGED runner
  \/ /\ ~indexing /\ ~pending
     /\ pending' = TRUE
     /\ \E c \in Call : runner[c].at = "none" /\ Go(c, "top")

\* RunMaintenance: leaves a request, and a goroutine if none will see it.
RunMaintenance ==
  \/ /\ stopped
     /\ UNCHANGED <<pending, runner>>
  \/ /\ ~stopped /\ (indexing \/ pending)
     /\ pending' = TRUE
     /\ UNCHANGED runner
  \/ /\ ~stopped /\ ~indexing /\ ~pending
     /\ pending' = TRUE
     /\ \E c \in Call : runner[c].at = "none" /\ Go(c, "top")

OnEventAsks ==
  /\ callers > 0
  /\ callers' = callers - 1
  /\ RunMaintenance
  /\ UNCHANGED <<indexVars, indexing, stopped, dirtyVars, notices>>

\* The daemon's maintenanceLoop.
Tick ==
  /\ RunMaintenance
  /\ UNCHANGED <<indexVars, indexing, stopped, dirtyVars, notices, callers>>

\* Stop, up to wg.Wait.
Stop ==
  /\ ~stopped
  /\ stopped' = TRUE
  /\ UNCHANGED <<indexVars, pending, indexing, dirtyVars, notices, callers, runner>>

-----------------------------------------------------------------------------
(* runMaintenance.                                                         *)

\* The top of the loop: nothing to do, a full index, the dirty files, or, when
\* none is dirty, the repository.
Take(c) ==
  /\ runner[c].at = "top"
  /\ IF ~pending
     THEN Gone(c) /\ UNCHANGED <<flagVars, dirtyVars>>
     ELSE LET files == IF dirtyOverflow \/ ~Incremental THEN {} ELSE dirty
          IN  /\ runner' = [runner EXCEPT ![c] = [at |-> "sem", take |-> files]]
              /\ dirty' = IF dirtyOverflow THEN {} ELSE dirty \ files
              /\ dirtyOverflow' = FALSE
              /\ pending' = FALSE /\ indexing' = TRUE
              /\ UNCHANGED stopped
  /\ UNCHANGED <<indexVars, notices, callers>>

\* The call that what was taken asks for.
Kind(c) == IF runner[c].take = {} THEN "repo" ELSE "files"

\* Has the semaphore: index what was taken.
Acquire(c) ==
  /\ runner[c].at = "sem" /\ Cardinality(Running) < MaxBackgroundJobs
  /\ IF runner[c].take = {} THEN BeginRepository(c, Incremental) ELSE BeginFiles(c, runner[c].take)
  /\ Go(c, "run")
  /\ UNCHANGED <<flagVars, dirtyVars, notices, callers>>

\* Mutant: a failed call keeps the semaphore.
AcquireFailsHolds(c) ==
  /\ Kind(c) \in MayFail
  /\ runner[c].at = "sem" /\ Cardinality(Running) < MaxBackgroundJobs
  /\ dirty' = dirty \cup runner[c].take
  /\ Go(c, "run")
  /\ UNCHANGED <<indexVars, flagVars, dirtyOverflow, notices, callers>>

\* The call fails at once (the store cannot be read): restoreDirty.
AcquireFails(c) ==
  /\ Kind(c) \in MayFail
  /\ runner[c].at = "sem" /\ Cardinality(Running) < MaxBackgroundJobs
  /\ dirty' = dirty \cup runner[c].take
  /\ Go(c, "end")
  /\ UNCHANGED <<indexVars, flagVars, dirtyOverflow, notices, callers>>

\* Stopped while it waits for the semaphore.
GiveUp(c) ==
  /\ runner[c].at = "sem" /\ stopped
  /\ indexing' = FALSE
  /\ Gone(c)
  /\ UNCHANGED <<indexVars, pending, stopped, dirtyVars, notices, callers>>

Index(c) ==
  /\ CallStep(c)
  /\ UNCHANGED <<flagVars, dirtyVars, notices, callers, runner>>

\* The call returns and the semaphore is released.
Release(c) ==
  /\ Return(c)
  /\ Go(c, "end")
  /\ UNCHANGED <<flagVars, dirtyVars, notices, callers>>

\* Mutant: the flag stays up.
EndStillIndexing(c) ==
  /\ runner[c].at = "end"
  /\ pending' = FALSE
  /\ IF pending /\ ~stopped THEN Go(c, "top") ELSE Gone(c)
  /\ UNCHANGED <<indexVars, indexing, stopped, dirtyVars, notices, callers>>

\* The bottom of the loop: goes on if somebody has asked meanwhile, but clears
\* the request.
End(c) ==
  /\ runner[c].at = "end"
  /\ indexing' = FALSE /\ pending' = FALSE
  /\ IF pending /\ ~stopped THEN Go(c, "top") ELSE Gone(c)
  /\ UNCHANGED <<indexVars, stopped, dirtyVars, notices, callers>>

RunnerStep(c) ==
  Take(c) \/ Acquire(c) \/ GiveUp(c) \/ Index(c) \/ Release(c) \/ End(c)

WorkerNext ==
  \/ \E f \in File : FileEvent(f) \/ DropEvent(f) \/ OnEvent(f)
  \/ OnEventAsks \/ Tick \/ Stop
  \/ \E c \in Call : RunnerStep(c) \/ AcquireFails(c)

WorkerSpec == WorkerInit /\ [][WorkerNext]_workerVars

\* Goroutines and event deliveries run, and the semaphore is fair enough; that
\* files change, calls fail, events are lost or the worker stops is not due.
Scheduled ==
  /\ \A c \in Call : WF_workerVars(RunnerStep(c)) /\ SF_workerVars(Acquire(c))
  /\ \A f \in File : WF_workerVars(OnEvent(f))
  /\ WF_workerVars(OnEventAsks)

\* With the ticker, and without it (an IndexInterval no test waits for).
TickingSpec == WorkerSpec /\ Scheduled /\ WF_workerVars(Tick)

NextUnticked ==
  \/ \E f \in File : FileEvent(f) \/ DropEvent(f) \/ OnEvent(f)
  \/ OnEventAsks \/ Stop
  \/ \E c \in Call : RunnerStep(c) \/ AcquireFails(c)
UntickedSpec == WorkerInit /\ [][NextUnticked]_workerVars /\ Scheduled

-----------------------------------------------------------------------------
(* Properties.                                                             *)

\* A full run that has not begun, or has not yet come to f.
FullRunAhead(f) ==
  \E c \in Call :
    \/ runner[c].at = "sem" /\ runner[c].take = {}
    \/ job[c].step = "repo" /\ (f \notin job[c].all \/ work[c][f] # NoWork)

\* No change is forgotten: while the graph lacks the present content of a file,
\* there is an undelivered event for it, or it is dirty, or a run has taken it
\* or will come to it.  (From a graph that was right at the start, and with one
\* runner.  A file that changed between its reading and the stat of its node is
\* the exception: in UTC the node then has the time of the newer content.)
ChangesRemembered ==
  ~stopped /\ hash # content =>
    \A f \in File : hash[f] # content[f] =>
      \/ f \in notices \cup dirty \/ dirtyOverflow \/ FullRunAhead(f)
      \/ utc /\ mtime[f] = ftime[f]
      \/ \E c \in Call : \/ runner[c].at = "sem" /\ f \in runner[c].take
                         \/ work[c][f].at # "none"

\* Once Stop has waited for the goroutines of the worker there are no more, and
\* the graph is not touched: neither events nor the ticker start one again.
StopIsFinal ==
  [][stopped /\ (\A c \in Call : runner[c].at = "none") =>
       /\ \A c \in Call : runner'[c].at = "none"
       /\ UNCHANGED graphVars]_workerVars

\* Stop comes to an end: every goroutine it waits for finishes.
StopReturns == stopped ~> \A c \in Call : runner[c].at = "none"

\* With the ticker the files of the graph become right and stay so when the
\* workspace no longer changes, whatever events, requests or calls were lost.
WorkerCatchesUp == <>[](hash = content) \/ <>stopped

\* What TestEndToEndFileChangeUpdatesGraph (daemon_test.go:205) says with an
\* IndexInterval of an hour: a changed file reaches the graph.
EveryChangeIndexed == \A f \in File : hash[f] # content[f] ~> hash[f] = content[f] \/ stopped
=============================================================================
