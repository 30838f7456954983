----------------------------- MODULE MCServices -----------------------------
(* Small instances of the services that run by themselves.  They share nothing, *)
(* so a behaviour is one of EventEngine, RuntimeQueue or DaemonProjects; the    *)
(* variables of the others keep their initial values.                           *)
EXTENDS EventEngine, RuntimeQueue, DaemonProjects, TLC

CONSTANTS w1, w2, g1, u1, u2, d1, d2

VARIABLE part

ServicesInit ==
  /\ part \in {"events", "queue", "daemon"}
  /\ EngineInit /\ QueueInit
  /\ DaemonInit /\ (part # "daemon" => dirs = {})

ServicesNext ==
  \/ part = "events" /\ EngineNext /\ UNCHANGED <<part, queueVars, daemonVars>>
  \/ part = "queue" /\ QueueNext /\ UNCHANGED <<part, engineVars, daemonVars>>
  \/ part = "daemon" /\ DaemonNext /\ UNCHANGED <<part, engineVars, queueVars>>

servicesVars == <<part, engineVars, queueVars, daemonVars>>

\* FairEngineSpec, FairQueueSpec and FairDaemonSpec, each for its part.
FairServicesSpec ==
  /\ ServicesInit /\ [][ServicesNext]_servicesVars
  /\ WF_engineVars(part = "events" /\ Dispatch) /\ WF_engineVars(part = "events" /\ StopDone)
  /\ \A g \in Pool : /\ WF_engineVars(part = "events" /\ RunJob(g))
                     /\ WF_engineVars(part = "events" /\ LeavePool(g))
  /\ WF_queueVars(part = "queue" /\ Enqueue)
  /\ \A w \in Consumer : /\ WF_queueVars(part = "queue" /\ processWorker(w) /\ ~ LockQueue(w))
                         /\ SF_queueVars(part = "queue" /\ LockQueue(w))
  /\ WF_daemonVars(part = "daemon" /\ StopStep)
  /\ \A l \in Loop : WF_daemonVars(part = "daemon" /\ LoopStep(l))
=============================================================================
