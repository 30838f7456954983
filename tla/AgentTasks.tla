----------------------------- MODULE AgentTasks -----------------------------
(***************************************************************************)
(* TaskService and EvidenceService (internal/services/tasks.go,            *)
(* evidence.go): the working memory of tasks that agents keep in the       *)
(* graph, changed by patches and gated on evidence.  A task is one node    *)
(* whose properties carry the whole state, read and written back by each   *)
(* update.                                                                 *)
(*                                                                         *)
(* Kept of a task: its state, version and last agent, the hypotheses, the  *)
(* latest result of each validation, and, as a history, the updates that   *)
(* went into it.  A patch carries at most one hypothesis.  Plans, facts,   *)
(* notes and tool results only accumulate and are left out, as are the     *)
(* refusals that depend on them alone.                                     *)
(***************************************************************************)
EXTENDS ToolServer

CONSTANTS Task, Evidence, Hyp, Check, Agent,
          NoHyp,       \* a patch that moves no hypothesis
          Patch,       \* the patches that agents send
          MaxTaskVersion   \* bound: the version a task reaches

taskTransitions ==
  [UNKNOWN      |-> {"DISCOVERING", "BLOCKED"},
   DISCOVERING  |-> {"ANALYZING", "HYPOTHESIS", "BLOCKED", "STALE"},
   ANALYZING    |-> {"DISCOVERING", "HYPOTHESIS", "IMPLEMENTING", "BLOCKED", "STALE"},
   HYPOTHESIS   |-> {"DISCOVERING", "ANALYZING", "IMPLEMENTING", "BLOCKED", "STALE"},
   IMPLEMENTING |-> {"ANALYZING", "VERIFYING", "BLOCKED", "STALE"},
   VERIFYING    |-> {"IMPLEMENTING", "ANALYZING", "VALIDATED", "BLOCKED", "STALE"},
   VALIDATED    |-> {"STALE"},
   BLOCKED      |-> {"DISCOVERING", "ANALYZING", "HYPOTHESIS", "IMPLEMENTING", "VERIFYING"},
   STALE        |-> {"DISCOVERING", "ANALYZING", "BLOCKED"}]
TaskState == DOMAIN taskTransitions

hypTransitions ==
  [UNKNOWN      |-> {"SUSPECTED"},
   SUSPECTED    |-> {"SUPPORTED", "PARTIAL", "CONTRADICTED"},
   SUPPORTED    |-> {"CONFIRMED", "PARTIAL", "CONTRADICTED", "SUSPECTED"},
   PARTIAL      |-> {"SUPPORTED", "CONFIRMED", "CONTRADICTED", "SUSPECTED"},
   CONFIRMED    |-> {"CONTRADICTED"},
   CONTRADICTED |-> {"SUSPECTED"}]
HypState == DOMAIN hypTransitions

TaskHypothesis == [status : HypState, for : SUBSET Evidence, against : SUBSET Evidence]
NoHypothesis == [status |-> "UNKNOWN", for |-> {}, against |-> {}]
Result == {"none", "passed", "failed"}
TaskEdit == Task \X Server \X (1..MaxTaskVersion)

TaskRecord == [state : TaskState, version : 1..MaxTaskVersion, by : Agent,
               hyps : [Hyp -> TaskHypothesis], validation : [Check -> Result],
               edits : SUBSET TaskEdit]

HypothesisOp == [id : Hyp \cup {NoHyp}, status : HypState \cup {""},
                 for : SUBSET Evidence, against : SUBSET Evidence]
\* expected 0: no expected_version.
TaskPatch == [expected : 0..MaxTaskVersion, state : TaskState \cup {""},
              validation : [Check -> Result], hyp : HypothesisOp]

\* What the nodes hold: tasks, evidence and hypotheses.
NodeValue == TaskRecord \cup {"current", "superseded", "HYPOTHESIS"}

ASSUME TaskAssumption ==
  /\ None \notin NodeValue /\ Same \notin NodeValue /\ None \notin TaskEdit
  /\ Task \cup Evidence \cup Hyp \subseteq Key
  /\ Task \cap Evidence = {} /\ Hyp \cap (Task \cup Evidence) = {}
  /\ NoHyp \notin Hyp /\ MaxTaskVersion \in Nat \ {0}
  /\ IsFiniteSet(Evidence)
  /\ Patch \subseteq TaskPatch

\* What a status needs of the evidence (applyHypothesis).
Backed(status, h) ==
  CASE status \in {"SUPPORTED", "PARTIAL"} -> h.for # {}
    [] status = "CONFIRMED"    -> Cardinality(h.for) >= 2 /\ h.against = {}
    [] status = "CONTRADICTED" -> h.against # {}
    [] OTHER -> TRUE

\* A hypothesis that is new to the task starts as SUSPECTED.
Opened(h) == IF h = NoHypothesis THEN [h EXCEPT !.status = "SUSPECTED"] ELSE h
Weighed(h, op) == [Opened(h) EXCEPT !.for = @ \cup op.for, !.against = @ \cup op.against]
MayMove(h, status) ==
  status \in {"", h.status} \/ (status \in hypTransitions[h.status] /\ Backed(status, h))

\* Mutant: evidence is taken on trust.
ExistsUnasked(view, ids) == ids \subseteq Evidence

\* evidenceExists: the node is there, current or superseded.
Exists(view, ids) == \A e \in ids : view[e] # None

validationGate(results) ==
  /\ \E c \in Check : results[c] # "none"
  /\ \A c \in Check : results[c] # "failed"

Latest(old, new) == [c \in Check |-> IF new[c] = "none" THEN old[c] ELSE new[c]]

Moved(old, new) == IF new = "" THEN old ELSE new

Judged(h, op) == LET w == Weighed(h, op) IN [w EXCEPT !.status = Moved(w.status, op.status)]
applyHypothesis(t, op) ==
  IF op.id = NoHyp THEN t
  ELSE [t EXCEPT !.hyps[op.id] = Judged(@, op)]

\* The patch goes through: no conflict, evidence that exists, legal moves.
Applies(view, t, patch) ==
  /\ patch.expected \in {0, t.version}
  /\ Exists(view, patch.hyp.for \cup patch.hyp.against)
  /\ patch.hyp.id # NoHyp
       => MayMove(Weighed(t.hyps[patch.hyp.id], patch.hyp), patch.hyp.status)
  /\ \/ patch.state \in {"", t.state}
     \/ /\ patch.state \in taskTransitions[t.state]
        /\ patch.state = "VALIDATED"
             => validationGate(Latest(t.validation, patch.validation))

Patched(t, patch, agent, edit) ==
  [applyHypothesis(t, patch.hyp) EXCEPT
     !.validation = Latest(@, patch.validation), !.state = Moved(@, patch.state),
     !.by = agent, !.version = @ + 1, !.edits = @ \cup {edit}]

\* applyHypothesis records the Hypothesis node of a new hypothesis before the rest
\* of the patch is looked at.
RecordsHypothesis(view, t, patch) ==
  /\ patch.expected \in {0, t.version}
  /\ patch.hyp.id # NoHyp
  /\ t.hyps[patch.hyp.id] = NoHypothesis
  /\ Exists(view, patch.hyp.for \cup patch.hyp.against)
HypothesisNode(view, t, patch) ==
  IF RecordsHypothesis(view, t, patch) THEN Write(patch.hyp.id, "HYPOTHESIS") ELSE NoWrites

Created(agent) ==
  [state |-> "UNKNOWN", version |-> 1, by |-> agent,
   hyps |-> [h \in Hyp |-> NoHypothesis], validation |-> [c \in Check |-> "none"],
   edits |-> {}]

-----------------------------------------------------------------------------
(* The tool calls.                                                         *)

\* The new task's identifier is a new UUID.
CreateTask(p, k, agent) ==
  /\ \A q \in Server : View(q)[k] = None
  /\ Handle(p, Write(k, Created(agent)), None)

Update(p, k, agent, patch) ==
  LET view == View(p)
      t == view[k]
      edit == <<k, p, t.version>>
      node == HypothesisNode(view, t, patch)
  IN /\ t # None
     /\ \/ /\ Applies(view, t, patch) /\ t.version < MaxTaskVersion
           /\ Handle(p, Over(node, Write(k, Patched(t, patch, agent, edit))), edit)
        \/ /\ ~ Applies(view, t, patch)
           /\ Handle(p, node, None)

\* Some reference of the task is bad (stale or gone): Resume marks the task STALE
\* where the table allows it; otherwise it records the handoff to another agent.
Resume(p, k, agent, bad) ==
  LET t == View(p)[k]
      stale == bad /\ t.state \notin {"STALE", "VALIDATED"} /\ "STALE" \in taskTransitions[t.state]
      edit == <<k, p, t.version>>
      resumed == [t EXCEPT !.state = IF stale THEN "STALE" ELSE @, !.by = agent,
                           !.version = @ + 1, !.edits = @ \cup {edit}]
  IN /\ t # None /\ t.version < MaxTaskVersion
     /\ IF stale \/ agent # t.by THEN Handle(p, Write(k, resumed), edit) ELSE Refuse(p)

\* A second record of one observation is the same node; a superseded one stays so.
RecordEvidence(p, e) ==
  Handle(p, IF View(p)[e] = None THEN Write(e, "current") ELSE NoWrites, None)

\* The record is marked and its replacement written: a node of the same text is
\* that node, also the one just marked.
SupersedeEvidence(p, e, by) ==
  /\ View(p)[e] # None
  /\ IF View(p)[e] = "superseded" THEN Refuse(p)
     ELSE Handle(p, Over(Write(e, "superseded"),
                         IF View(p)[by] = None THEN Write(by, "current") ELSE NoWrites), None)

TaskCall(p) ==
  \/ \E k \in Task, agent \in Agent :
       \/ CreateTask(p, k, agent)
       \/ \E patch \in Patch : Update(p, k, agent, patch)
       \/ \E bad \in BOOLEAN : Resume(p, k, agent, bad)
  \/ \E e \in Evidence :
       \/ RecordEvidence(p, e)
       \/ \E by \in Evidence : SupersedeEvidence(p, e, by)

TasksNext == \E p \in Server : TaskCall(p) \/ Settle(p)
TasksSpec == ServerInit /\ [][TasksNext]_serverVars

-----------------------------------------------------------------------------
(* Properties.                                                             *)

\* Nothing is promoted by assertion: whatever the servers do to each other's saves,
\* a hypothesis of a saved task has the evidence its status needs, and that
\* evidence is in the graph.
Grounded(g, h) ==
  /\ \A e \in h.for \cup h.against : g[e] # None
  /\ h.status \in {"SUPPORTED", "PARTIAL"} => h.for # {}
  /\ h.status = "CONFIRMED" => Cardinality(h.for) >= 2
  /\ h.status = "CONTRADICTED" => h.against # {}
HoldsEvidence(g, t) == \A h \in Hyp : Grounded(g, t.hyps[h])
EvidenceGated == \A k \in Task : file[k] # None => HoldsEvidence(file, file[k])

\* An update whose success was answered is part of the task from then on, through
\* failed saves and restarts.
EditsSurvive ==
  \A edit \in answered \cap TaskEdit : file[edit[1]] # None /\ edit \in file[edit[1]].edits

\* What is so of the file and of every journal between the calls: their values are
\* what the services write, evidence is never unwritten, and a journalled task has
\* its evidence in the file or in the same journal.
TasksInv ==
  /\ \A k \in Task : file[k] \in TaskRecord \cup {None}
  /\ DOMAIN journal = Server
  /\ \A p \in Server, k \in Task : journal[p][k] \in TaskRecord \cup {Same}
  /\ \A p \in Server, e \in Evidence : journal[p][e] # None
  /\ EvidenceGated
  /\ \A p \in Server, k \in Task : journal[p][k] # Same => HoldsEvidence(View(p), journal[p][k])

\* What is so, besides, of a single server: it writes no task without the edits it has,
\* and what it is about to answer is in its view.
EditsInv ==
  /\ EditsSurvive
  /\ DOMAIN reply = Server
  /\ \A p \in Server, k \in Task :
       file[k] # None /\ journal[p][k] # Same => file[k].edits \subseteq journal[p][k].edits
  /\ \A p \in Server :
       reply[p] \in TaskEdit => View(p)[reply[p][1]] # None /\ reply[p] \in View(p)[reply[p][1]].edits
=============================================================================
