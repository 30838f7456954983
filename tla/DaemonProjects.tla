--------------------------- MODULE DaemonProjects ---------------------------
(***************************************************************************)
(* Daemon and ProjectDetector (internal/services/daemon.go, project.go):   *)
(* which projects have a running worker.  A detection loop scans the roots *)
(* and registers what the detector has not seen before; it and the         *)
(* maintenance loop remove the projects whose directory is gone.           *)
(*                                                                         *)
(* The loops of every Start are goroutines of their own: Stop cancels      *)
(* their context and does not wait for them.  A Start's first detection,   *)
(* which it makes itself, is the first pass of its detection loop.  What   *)
(* a worker does is in ProjectWorker; here it is created, checked (Start   *)
(* found it not stopped), running or stopped.                              *)
(***************************************************************************)
EXTENDS Naturals, FiniteSets, FiniteSetsExt

CONSTANTS
  ProjectDir,     \* the project directories below the configured roots
  MaxProjects,
  MaxDirChanges, MaxStarts, MaxWorkers  \* bounds; MaxWorkers is never reached

ASSUME DaemonAssumption ==
  {MaxProjects, MaxDirChanges, MaxStarts, MaxWorkers} \subseteq Nat

VARIABLES
  dirs,        \* the directories that exist
  dirChanges,  \* clock
  up,          \* d.running
  epoch,       \* Starts so far; the context of the others is cancelled
  detector,    \* d.detector: the Start that made it, 0 for nil
  known,       \* known[e]: the projects of that detector
  projects,    \* d.projects[r]: a worker, or 0
  wstate,      \* wstate[k]: the state of worker k
  pass,        \* pass[l]: where loop l is
  stopCall     \* Daemon.Stop in progress: the workers it still has to stop

daemonVars == <<dirs, dirChanges, up, epoch, detector, known, projects, wstate, pass, stopCall>>

WorkerId == 1..MaxWorkers
Loop == {"detect", "maintain"} \X (1..MaxStarts)

Pass == [at : {"off", "tick", "prune", "stop", "detect", "register", "start", "run"},
         workers : SUBSET WorkerId,     \* to be removed or stopped
         seen : 0..MaxStarts,          \* the detector in use
         todo : SUBSET ProjectDir, found : SUBSET ProjectDir,
         new : 0..MaxWorkers]
Waiting == [at |-> "tick", workers |-> {}, seen |-> 0, todo |-> {}, found |-> {}, new |-> 0]

DaemonInit ==
  /\ dirs \in SUBSET ProjectDir /\ dirChanges = 0
  /\ up = FALSE /\ epoch = 0 /\ detector = 0
  /\ known = [e \in 1..MaxStarts |-> {}]
  /\ projects = [r \in ProjectDir |-> 0]
  /\ wstate = [k \in WorkerId |-> "none"]
  /\ pass = [l \in Loop |-> [Waiting EXCEPT !.at = "off"]]
  /\ stopCall = [at |-> "none", workers |-> {}]

HasWorker(r) == projects[r] # 0
Workers == {projects[r] : r \in ProjectDir} \ {0}
Cancelled(l) == ~ up \/ l[2] # epoch
StopAll(S) == [k \in WorkerId |-> IF k \in S THEN "stopped" ELSE wstate[k]]

ChangeDirs ==
  /\ dirChanges < MaxDirChanges /\ dirChanges' = dirChanges + 1
  /\ \E r \in ProjectDir : dirs' = IF r \in dirs THEN dirs \ {r} ELSE dirs \cup {r}
  /\ UNCHANGED <<up, epoch, detector, known, projects, wstate, pass, stopCall>>

StartDaemon ==
  /\ ~ up /\ stopCall.at = "none" /\ epoch < MaxStarts
  /\ up' = TRUE /\ epoch' = epoch + 1 /\ detector' = epoch'
  /\ pass' = [l \in Loop |-> IF l[2] = epoch' THEN Waiting ELSE pass[l]]
  /\ UNCHANGED <<dirs, dirChanges, known, projects, wstate, stopCall>>

\* Stop collects the workers, then stops them, then forgets all projects.
StopDaemon ==
  /\ up /\ up' = FALSE
  /\ stopCall' = [at |-> "stopping", workers |-> Workers]
  /\ UNCHANGED <<dirs, dirChanges, epoch, detector, known, projects, wstate, pass>>

StopProjects ==
  /\ stopCall.at = "stopping"
  /\ wstate' = StopAll(stopCall.workers)
  /\ stopCall' = [at |-> "stopped", workers |-> {}]
  /\ UNCHANGED <<dirs, dirChanges, up, epoch, detector, known, projects, pass>>

StopForgets ==
  /\ stopCall.at = "stopped" /\ stopCall' = [stopCall EXCEPT !.at = "none"]
  /\ detector' = 0 /\ projects' = [r \in ProjectDir |-> 0]
  /\ UNCHANGED <<dirs, dirChanges, up, epoch, known, wstate, pass>>

-----------------------------------------------------------------------------
(* A pass of a loop.                                                       *)

GoOn(l, p) == pass' = [pass EXCEPT ![l] = p]

\* The loop ends, or the ticker fires; pruneProjects looks for missing directories.
TickLoop(l) ==
  /\ pass[l].at = "tick"
  /\ GoOn(l, IF Cancelled(l) THEN [Waiting EXCEPT !.at = "off"]
             ELSE [Waiting EXCEPT !.at = "prune",
                                  !.workers = {projects[r] : r \in {s \in ProjectDir \ dirs : HasWorker(s)}}])
  /\ UNCHANGED <<dirs, dirChanges, up, epoch, detector, known, projects, wstate, stopCall>>

PruneProjects(l) ==
  /\ pass[l].at = "prune"
  /\ projects' = [r \in ProjectDir |-> IF projects[r] \in pass[l].workers THEN 0 ELSE projects[r]]
  /\ GoOn(l, [pass[l] EXCEPT !.at = "stop"])
  /\ UNCHANGED <<dirs, dirChanges, up, epoch, detector, known, wstate, stopCall>>

StopPruned(l) ==
  /\ pass[l].at = "stop"
  /\ wstate' = StopAll(pass[l].workers)
  /\ GoOn(l, IF l[1] = "maintain" THEN Waiting ELSE [Waiting EXCEPT !.at = "detect"])
  /\ UNCHANGED <<dirs, dirChanges, up, epoch, detector, known, projects, stopCall>>

\* Detect: only what the detector did not know is found.
Detect(l) ==
  LET found == IF detector = 0 THEN {} ELSE dirs \ known[detector]
  IN /\ pass[l].at = "detect"
     /\ known' = IF detector = 0 THEN known ELSE [known EXCEPT ![detector] = @ \cup dirs]
     /\ GoOn(l, IF detector = 0 THEN Waiting
                ELSE [Waiting EXCEPT !.at = "register", !.seen = detector, !.todo = found, !.found = found])
     /\ UNCHANGED <<dirs, dirChanges, up, epoch, detector, projects, wstate, stopCall>>

NextWorker == Cardinality({k \in WorkerId : wstate[k] # "none"}) + 1

\* The next project that was found is registered, if there is room for it.
registerProject(l) ==
  \E r \in pass[l].todo :
    LET registers == r \in dirs /\ ~ HasWorker(r) /\ Cardinality(Workers) < MaxProjects
        rest == [pass[l] EXCEPT !.todo = @ \ {r}]
    IN /\ pass[l].at = "register" /\ ~ Cancelled(l)
       /\ IF registers
          THEN /\ NextWorker <= MaxWorkers
               /\ projects' = [projects EXCEPT ![r] = NextWorker]
               /\ wstate' = [wstate EXCEPT ![NextWorker] = "created"]
               /\ GoOn(l, [rest EXCEPT !.at = "start", !.new = NextWorker])
          ELSE /\ GoOn(l, rest)
               /\ UNCHANGED <<projects, wstate>>
       /\ UNCHANGED <<dirs, dirChanges, up, epoch, detector, known, stopCall>>

\* The check of the context and the registration are two steps.
GiveUpPass(l) ==
  /\ pass[l].at = "register" /\ pass[l].todo # {} /\ Cancelled(l)
  /\ GoOn(l, Waiting)
  /\ UNCHANGED <<dirs, dirChanges, up, epoch, detector, known, projects, wstate, stopCall>>

\* ProjectWorker.Start: a look at stopped, then the observer and the event engine.
StartCheck(l) ==
  /\ pass[l].at = "start"
  /\ GoOn(l, [pass[l] EXCEPT !.at = IF wstate[pass[l].new] = "stopped" THEN "register" ELSE "run"])
  /\ UNCHANGED <<dirs, dirChanges, up, epoch, detector, known, projects, wstate, stopCall>>

StartRuns(l) ==
  /\ pass[l].at = "run"
  /\ wstate' = [wstate EXCEPT ![pass[l].new] = "running"]
  /\ GoOn(l, [pass[l] EXCEPT !.at = "register"])
  /\ UNCHANGED <<dirs, dirChanges, up, epoch, detector, known, projects, stopCall>>

\* Mutant: a detector never forgets.
PruneDetectorNot(l) ==
  LET e == pass[l].seen
  IN /\ pass[l].at = "register" /\ pass[l].todo = {}
     /\ known' = known
     /\ GoOn(l, Waiting)
     /\ UNCHANGED <<dirs, dirChanges, up, epoch, detector, projects, wstate, stopCall>>

\* detector.Prune keeps only what this pass has found: a project is found again by
\* every second pass.
PruneDetector(l) ==
  LET e == pass[l].seen
  IN /\ pass[l].at = "register" /\ pass[l].todo = {}
     /\ known' = [known EXCEPT ![e] = @ \cap pass[l].found]
     /\ GoOn(l, Waiting)
     /\ UNCHANGED <<dirs, dirChanges, up, epoch, detector, projects, wstate, stopCall>>

LoopStep(l) ==
  \/ TickLoop(l) \/ PruneProjects(l) \/ StopPruned(l)
  \/ Detect(l) \/ registerProject(l) \/ GiveUpPass(l) \/ StartCheck(l) \/ StartRuns(l)
  \/ PruneDetector(l)
StopStep == StopProjects \/ StopForgets

DaemonNext ==
  \/ ChangeDirs \/ StartDaemon \/ StopDaemon \/ StopStep
  \/ \E l \in Loop : LoopStep(l)
DaemonSpec == DaemonInit /\ [][DaemonNext]_daemonVars

\* Tickers tick, goroutines go on.
FairDaemonSpec ==
  DaemonSpec /\ WF_daemonVars(StopStep) /\ \A l \in Loop : WF_daemonVars(LoopStep(l))

-----------------------------------------------------------------------------
(* Properties.                                                             *)

\* A project directory that is there to stay gets a running worker, unless the daemon
\* stops or has all the projects it may have: also one that was gone for a while,
\* whose worker was stopped, and that the detector saw before.
Served(r) == HasWorker(r) /\ wstate[projects[r]] = "running"
DirsGetWorkers ==
  \A r \in ProjectDir :
    (r \in dirs) ~> (r \notin dirs \/ Served(r) \/ ~ up \/ Cardinality(Workers) >= MaxProjects)
=============================================================================
