-------------------------- MODULE ToolServerProofs --------------------------
(***************************************************************************)
(* Records that tool servers share through the graph: tasks and their      *)
(* evidence, the table of a project's pseudonyms, memories and counters.   *)
(***************************************************************************)
EXTENDS AgentTasks, PrivacyState, Housekeeping, FoldProofs, FiniteSetTheorems, TLAPS

-----------------------------------------------------------------------------
(***************************************************************************)
(* Tasks.  No task of the graph claims more than its evidence allows,      *)
(* whatever any number of servers, agents and patches do and wherever      *)
(* servers die; and with one server no answered update is lost.            *)
(***************************************************************************)
USE KeyAssumption, TaskAssumption

-----------------------------------------------------------------------------
(* Views and journals.                                                     *)

\* A call's writes are laid over the journal, and so over the view.
LEMMA WritesSeen ==
  ASSUME NEW p \in Server, NEW W, DOMAIN journal = Server, NEW r, Handle(p, W, r)
  PROVE  /\ DOMAIN journal' = Server
         /\ file' = file
         /\ \A q \in Server \ {p} : journal'[q] = journal[q]
         /\ \A k \in Key : journal'[p][k] = IF W[k] = Same THEN journal[p][k] ELSE W[k]
         /\ \A k \in Key : View(p)'[k] = IF W[k] = Same THEN View(p)[k] ELSE W[k]
         /\ \A q \in Server \ {p} : View(q)' = View(q)
<1>1. /\ DOMAIN journal' = Server /\ file' = file
      /\ \A q \in Server \ {p} : journal'[q] = journal[q]
      /\ journal'[p] = Over(W, journal[p])
  BY DEF Handle
<1>2. \A k \in Key : journal'[p][k] = IF W[k] = Same THEN journal[p][k] ELSE W[k]
  BY <1>1 DEF Over
<1>3. QED BY <1>1, <1>2 DEF View, Over

\* Evidence that is there stays there, in every view, when p's view gets into the file.
LEMMA EvidenceStays ==
  ASSUME TasksInv, NEW p \in Server, NEW e \in Evidence,
         NEW g, g = file \/ (\E q \in Server : g = View(q)), g[e] # None
  PROVE  /\ g = file => View(p)[e] # None
         /\ \A q \in Server : g = View(q) => Over(journal[q], View(p))[e] # None
BY DEF TasksInv, View, Over

\* A hypothesis keeps what it needs as the graph gains evidence.
LEMMA GroundedStays ==
  ASSUME NEW g, NEW later, NEW t, HoldsEvidence(g, t), t \in TaskRecord,
         \A e \in Evidence : g[e] # None => later[e] # None
  PROVE  HoldsEvidence(later, t)
BY DEF HoldsEvidence, Grounded, TaskRecord, TaskHypothesis

\* A view's task has its evidence in that view.
LEMMA ViewGrounded ==
  ASSUME TasksInv, NEW p \in Server, NEW k \in Task, View(p)[k] # None
  PROVE  View(p)[k] \in TaskRecord /\ HoldsEvidence(View(p), View(p)[k])
<1>1. CASE journal[p][k] # Same
  BY <1>1 DEF TasksInv, View, Over
<1>2. CASE journal[p][k] = Same
  <2>1. View(p)[k] = file[k] /\ file[k] \in TaskRecord /\ HoldsEvidence(file, file[k])
    BY <1>2 DEF TasksInv, View, Over, EvidenceGated
  <2>2. \A e \in Evidence : file[e] # None => View(p)[e] # None
    BY EvidenceStays
  <2>3. QED BY <2>1, <2>2, GroundedStays
<1>3. QED BY <1>1, <1>2

\* What a call may write.
Allowed(p, W) ==
  /\ \A k \in Task : W[k] \in TaskRecord \cup {Same}
  /\ \A e \in Evidence : W[e] # None
  /\ \A k \in Task : W[k] # Same => HoldsEvidence(View(p), W[k])

\* ... and that it drops no edit of a task and answers one that it writes.
Keeping(p, W, r) ==
  /\ \A k \in Task : View(p)[k] # None /\ W[k] # Same => View(p)[k].edits \subseteq W[k].edits
  /\ r \in TaskEdit => W[r[1]] # Same /\ r \in W[r[1]].edits

Legal(p) == \E W, r : Allowed(p, W) /\ Keeping(p, W, r) /\ Handle(p, W, r)

LEMMA HandleKeeps ==
  ASSUME TasksInv, NEW p \in Server, NEW W, NEW r, Allowed(p, W), Handle(p, W, r)
  PROVE  TasksInv'
<1>1. DOMAIN journal = Server BY DEF TasksInv
<1>2. /\ DOMAIN journal' = Server /\ file' = file
      /\ \A q \in Server \ {p} : journal'[q] = journal[q] /\ View(q)' = View(q)
      /\ \A k \in Key : journal'[p][k] = IF W[k] = Same THEN journal[p][k] ELSE W[k]
      /\ \A k \in Key : View(p)'[k] = IF W[k] = Same THEN View(p)[k] ELSE W[k]
  BY <1>1, WritesSeen
<1>3. \A q \in Server, k \in Task : journal'[q][k] \in TaskRecord \cup {Same}
  BY <1>2 DEF TasksInv, Allowed
<1>4. \A q \in Server, e \in Evidence : journal'[q][e] # None
  BY <1>2 DEF TasksInv, Allowed
<1>5. EvidenceGated' BY <1>2 DEF TasksInv, EvidenceGated
<1>6. ASSUME NEW q \in Server, NEW k \in Task, journal'[q][k] # Same
      PROVE HoldsEvidence(View(q)', journal'[q][k])
  <2>1. CASE q # p BY <1>2, <1>6, <2>1 DEF TasksInv
  <2>2. CASE q = p
    <3>1. \A e \in Evidence : View(p)[e] # None => View(p)'[e] # None
      BY <1>2 DEF Allowed
    <3>2. HoldsEvidence(View(p), journal'[p][k]) /\ journal'[p][k] \in TaskRecord
      BY <1>2, <1>3, <1>6, <2>2 DEF TasksInv, Allowed
    <3>3. QED BY <2>2, <3>1, <3>2, GroundedStays
  <2>3. QED BY <2>1, <2>2
<1>7. QED BY <1>2, <1>3, <1>4, <1>5, <1>6 DEF TasksInv

-----------------------------------------------------------------------------
(* What the calls write.                                                   *)

\* A hypothesis after a patch: its sets have grown, and its status is the old one, the
\* first one, or one that the sets allow.
LEMMA WeighedGrounded ==
  ASSUME NEW g, NEW h \in TaskHypothesis, Grounded(g, h), NEW op \in HypothesisOp,
         Exists(g, op.for \cup op.against), MayMove(Weighed(h, op), op.status)
  PROVE  Judged(h, op) \in TaskHypothesis /\ Grounded(g, Judged(h, op))
<1>. DEFINE w == Weighed(h, op)
            moved == Judged(h, op)
<1>1. /\ w \in TaskHypothesis /\ w.for = h.for \cup op.for /\ w.against = h.against \cup op.against
      /\ w.status = h.status \/ w.status = "SUSPECTED"
  <2>. DEFINE o == Opened(h)
  <2>1. /\ o \in TaskHypothesis /\ o.for = h.for /\ o.against = h.against
        /\ o.status = h.status \/ o.status = "SUSPECTED"
    BY DEF Opened, TaskHypothesis, HypState, hypTransitions
  <2>2. w = [o EXCEPT !.for = o.for \cup op.for, !.against = o.against \cup op.against]
    BY DEF Weighed
  <2>. HIDE DEF o, w
  <2>3. QED BY <2>1, <2>2 DEF TaskHypothesis, HypothesisOp
<1>2. moved \in TaskHypothesis /\ moved.for = w.for /\ moved.against = w.against
      /\ moved.status = IF op.status = "" THEN w.status ELSE op.status
  BY <1>1 DEF Judged, Moved, TaskHypothesis, HypothesisOp
<1>3. \A e \in moved.for \cup moved.against : g[e] # None
  BY <1>1, <1>2 DEF Grounded, Exists
<1>4. Cardinality(h.for) >= 2 => Cardinality(moved.for) >= 2
  <2>1. moved.for \in SUBSET Evidence /\ h.for \in SUBSET moved.for
    BY <1>1, <1>2 DEF TaskHypothesis
  <2>2. IsFiniteSet(moved.for) BY <2>1, FS_Subset
  <2>3. IsFiniteSet(h.for) /\ Cardinality(h.for) <= Cardinality(moved.for)
    BY <2>1, <2>2, FS_Subset
  <2>4. Cardinality(h.for) \in Nat /\ Cardinality(moved.for) \in Nat
    BY <2>2, <2>3, FS_CardinalityType
  <2>5. QED BY <2>3, <2>4
<1>5. CASE moved.status = w.status
  BY <1>1, <1>2, <1>3, <1>4, <1>5 DEF Grounded
<1>6. CASE moved.status # w.status
  <2>1. moved.status = op.status /\ Backed(op.status, w)
    BY <1>2, <1>6 DEF MayMove
  <2>2. QED BY <1>2, <1>3, <2>1 DEF Backed, Grounded
<1>7. QED BY <1>2, <1>5, <1>6

LEMMA PatchedGrounded ==
  ASSUME NEW g, NEW t \in TaskRecord, HoldsEvidence(g, t), NEW patch \in Patch,
         Applies(g, t, patch), t.version < MaxTaskVersion,
         NEW agent \in Agent, NEW edit \in TaskEdit
  PROVE  /\ Patched(t, patch, agent, edit) \in TaskRecord
         /\ HoldsEvidence(g, Patched(t, patch, agent, edit))
         /\ Patched(t, patch, agent, edit).edits = t.edits \cup {edit}
<1>. DEFINE op == patch.hyp
            a == applyHypothesis(t, op)
            new == Patched(t, patch, agent, edit)
<1>1. patch \in TaskPatch /\ op \in HypothesisOp BY DEF TaskPatch
<1>2. a \in TaskRecord /\ HoldsEvidence(g, a) /\ a.version = t.version /\ a.edits = t.edits
  <2>1. CASE op.id = NoHyp BY <2>1 DEF applyHypothesis
  <2>2. CASE op.id # NoHyp
    <3>. DEFINE h == t.hyps[op.id]
                moved == Judged(h, op)
    <3>1. op.id \in Hyp /\ h \in TaskHypothesis /\ Grounded(g, h)
      BY <1>1, <2>2 DEF HypothesisOp, TaskRecord, HoldsEvidence
    <3>2. moved \in TaskHypothesis /\ Grounded(g, moved)
      <4>1. Exists(g, op.for \cup op.against) /\ MayMove(Weighed(h, op), op.status)
        BY <2>2 DEF Applies
      <4>2. QED BY <1>1, <3>1, <4>1, WeighedGrounded
    <3>3. a = [t EXCEPT !.hyps[op.id] = moved]
      BY <2>2 DEF applyHypothesis
    <3>. HIDE DEF h, moved, a, op
    <3>4. a \in TaskRecord /\ a.version = t.version /\ a.edits = t.edits
          /\ a.hyps = [t.hyps EXCEPT ![op.id] = moved]
      BY <3>1, <3>2, <3>3 DEF TaskRecord
    <3>5. \A i \in Hyp : a.hyps[i] = IF i = op.id THEN moved ELSE t.hyps[i]
      BY <3>4 DEF TaskRecord
    <3>6. QED BY <3>2, <3>4, <3>5 DEF HoldsEvidence
  <2>3. QED BY <2>1, <2>2
<1>3. new = [a EXCEPT !.validation = Latest(@, patch.validation), !.state = Moved(@, patch.state),
                      !.by = agent, !.version = @ + 1, !.edits = @ \cup {edit}]
  BY DEF Patched
<1>. HIDE DEF a, new, op
<1>4. /\ Latest(a.validation, patch.validation) \in [Check -> Result]
      /\ Moved(a.state, patch.state) \in TaskState
      /\ a.version + 1 \in 1..MaxTaskVersion
      /\ a.edits \cup {edit} \in SUBSET TaskEdit
  <2>1. /\ a.validation \in [Check -> Result] /\ a.state \in TaskState
        /\ a.version \in 1..MaxTaskVersion /\ a.edits \in SUBSET TaskEdit
    BY <1>2 DEF TaskRecord
  <2>2. patch.validation \in [Check -> Result] /\ patch.state \in TaskState \cup {""}
    BY <1>1 DEF TaskPatch
  <2>3. Latest(a.validation, patch.validation) \in [Check -> Result]
    BY <2>1, <2>2 DEF Latest
  <2>4. Moved(a.state, patch.state) \in TaskState
    BY <2>1, <2>2 DEF Moved
  <2>5. a.version + 1 \in 1..MaxTaskVersion
    BY <1>2, <2>1
  <2>6. QED BY <2>1, <2>3, <2>4, <2>5
<1>5. new \in TaskRecord /\ new.hyps = a.hyps /\ new.edits = a.edits \cup {edit}
  BY <1>2, <1>3, <1>4 DEF TaskRecord
<1>6. QED BY <1>2, <1>5 DEF HoldsEvidence, new

\* A new task claims nothing.
LEMMA CreatedGrounded ==
  ASSUME NEW g, NEW agent \in Agent
  PROVE  Created(agent) \in TaskRecord /\ HoldsEvidence(g, Created(agent))
BY DEF Created, TaskRecord, HoldsEvidence, Grounded, NoHypothesis, TaskHypothesis, HypState,
       hypTransitions, TaskState, taskTransitions, Result

-----------------------------------------------------------------------------
(* The invariant.                                                          *)

LEMMA TasksInitial == ServerInit => TasksInv
BY DEF ServerInit, TasksInv, NoWrites, EvidenceGated, NodeValue

\* The writes of one value, of one over another, and of none.
LEMMA Writes ==
  /\ \A k, i \in Key : \A v : Write(k, v)[i] = IF i = k THEN v ELSE Same
  /\ \A i \in Key : NoWrites[i] = Same
  /\ \A i \in Key : \A W, U : Over(W, U)[i] = IF W[i] = Same THEN U[i] ELSE W[i]
BY DEF Write, NoWrites, Over

LEMMA RefuseLegal ==
  ASSUME TasksInv, NEW p \in Server, Refuse(p)
  PROVE  Legal(p)
<1>1. Allowed(p, NoWrites) /\ Keeping(p, NoWrites, None) BY Writes DEF Allowed, Keeping
<1>2. QED BY <1>1 DEF Refuse, Legal

LEMMA CreateLegal ==
  ASSUME TasksInv, NEW p \in Server, NEW k \in Task, NEW agent \in Agent, CreateTask(p, k, agent)
  PROVE  Legal(p)
<1>. DEFINE W == Write(k, Created(agent))
<1>1. Created(agent) \in TaskRecord /\ HoldsEvidence(View(p), Created(agent))
  BY CreatedGrounded
<1>2. View(p)[k] = None BY DEF CreateTask
<1>3. Allowed(p, W) BY <1>1, Writes DEF Allowed
<1>4. Keeping(p, W, None) BY <1>2, Writes DEF Keeping
<1>5. Handle(p, W, None) BY DEF CreateTask
<1>6. QED BY <1>3, <1>4, <1>5 DEF Legal

\* Writing a task of the view anew, with nothing else that counts.
LEMMA RewriteLegal ==
  ASSUME NEW p \in Server, NEW k \in Task, NEW new \in TaskRecord, NEW W, NEW edit \in TaskEdit,
         HoldsEvidence(View(p), new), edit[1] = k,
         \A i \in Task \cup Evidence : W[i] = IF i = k THEN new ELSE Same,
         new.edits = View(p)[k].edits \cup {edit}, Handle(p, W, edit)
  PROVE  Legal(p)
<1>1. new # Same BY DEF NodeValue
<1>2. Allowed(p, W)
  <2>1. None # Same /\ Task \cap Evidence = {} OBVIOUS
  <2>2. QED BY <2>1 DEF Allowed
<1>3. Keeping(p, W, edit) BY <1>1 DEF Keeping
<1>4. QED BY <1>2, <1>3 DEF Legal

LEMMA UpdateLegal ==
  ASSUME TasksInv, NEW p \in Server, NEW k \in Task, NEW agent \in Agent, NEW patch \in Patch,
         Update(p, k, agent, patch)
  PROVE  Legal(p)
<1>. DEFINE t == View(p)[k]
            edit == <<k, p, t.version>>
            node == HypothesisNode(View(p), t, patch)
            new == Patched(t, patch, agent, edit)
<1>1. t \in TaskRecord /\ HoldsEvidence(View(p), t)
  BY ViewGrounded DEF Update
<1>2. \A i \in Task \cup Evidence : node[i] = Same
  <2>1. patch.hyp.id \in Hyp \cup {NoHyp} BY DEF TaskPatch, HypothesisOp
  <2>2. CASE RecordsHypothesis(View(p), t, patch)
    <3>1. patch.hyp.id \in Hyp BY <2>1, <2>2 DEF RecordsHypothesis
    <3>2. QED BY <2>2, <3>1, Writes DEF HypothesisNode
  <2>3. CASE ~ RecordsHypothesis(View(p), t, patch)
    BY <2>3, Writes DEF HypothesisNode
  <2>4. QED BY <2>2, <2>3
<1>3. CASE Applies(View(p), t, patch) /\ t.version < MaxTaskVersion
           /\ Handle(p, Over(node, Write(k, new)), edit)
  <2>1. edit \in TaskEdit /\ edit[1] = k BY <1>1 DEF TaskRecord, TaskEdit
  <2>2. /\ new \in TaskRecord /\ HoldsEvidence(View(p), new)
        /\ new.edits = t.edits \cup {edit}
    BY <1>1, <1>3, <2>1, PatchedGrounded
  <2>. HIDE DEF new, node, edit
  <2>3. \A i \in Task \cup Evidence : Over(node, Write(k, new))[i] = IF i = k THEN new ELSE Same
    BY <1>2, Writes
  <2>4. QED BY <1>3, <2>1, <2>2, <2>3, RewriteLegal
<1>4. CASE Handle(p, node, None)
  <2>1. Allowed(p, node) /\ Keeping(p, node, None) BY <1>2 DEF Allowed, Keeping
  <2>2. QED BY <1>4, <2>1 DEF Legal
<1>5. QED BY <1>3, <1>4 DEF Update

LEMMA ResumeLegal ==
  ASSUME TasksInv, NEW p \in Server, NEW k \in Task, NEW agent \in Agent, NEW bad \in BOOLEAN,
         Resume(p, k, agent, bad)
  PROVE  Legal(p)
<1>. DEFINE t == View(p)[k]
            stale == bad /\ t.state \notin {"STALE", "VALIDATED"} /\ "STALE" \in taskTransitions[t.state]
            edit == <<k, p, t.version>>
            resumed == [t EXCEPT !.state = IF stale THEN "STALE" ELSE @, !.by = agent,
                                 !.version = @ + 1, !.edits = @ \cup {edit}]
<1>1. t \in TaskRecord /\ HoldsEvidence(View(p), t) /\ t.version < MaxTaskVersion
  BY ViewGrounded DEF Resume
<1>2. edit \in TaskEdit /\ edit[1] = k BY <1>1 DEF TaskRecord, TaskEdit
<1>3. /\ resumed \in TaskRecord /\ resumed.hyps = t.hyps
      /\ resumed.edits = t.edits \cup {edit}
  <2>1. "STALE" \in TaskState BY DEF TaskState, taskTransitions
  <2>2. t.version + 1 \in 1..MaxTaskVersion BY <1>1 DEF TaskRecord
  <2>. HIDE DEF t, edit, stale
  <2>3. QED BY <1>1, <1>2, <2>1, <2>2 DEF TaskRecord
<1>4. HoldsEvidence(View(p), resumed) BY <1>1, <1>3 DEF HoldsEvidence
<1>5. (IF stale \/ agent # t.by THEN Handle(p, Write(k, resumed), edit) ELSE Refuse(p))
  BY DEF Resume
<1>6. CASE Handle(p, Write(k, resumed), edit)
  <2>. HIDE DEF resumed, edit
  <2>1. \A i \in Task \cup Evidence : Write(k, resumed)[i] = IF i = k THEN resumed ELSE Same
    BY Writes
  <2>2. QED BY <1>2, <1>3, <1>4, <1>6, <2>1, RewriteLegal
<1>7. CASE Refuse(p) BY <1>7, RefuseLegal
<1>8. QED BY <1>5, <1>6, <1>7

LEMMA EvidenceLegal ==
  ASSUME TasksInv, NEW p \in Server, NEW e \in Evidence, NEW by \in Evidence,
         RecordEvidence(p, e) \/ SupersedeEvidence(p, e, by)
  PROVE  Legal(p)
<1>. DEFINE Aside(W) == Allowed(p, W) /\ Keeping(p, W, None) /\ \A k \in Task : W[k] = Same
<1>1. None \notin {"current", "superseded"} BY DEF NodeValue
<1>2. Aside(NoWrites) BY Writes DEF Allowed, Keeping
<1>3. \A i \in Evidence : Aside(Write(i, "current"))
  BY <1>1, Writes DEF Allowed, Keeping
<1>4. \A W : Aside(W) => Aside(Over(Write(e, "superseded"), W))
  BY <1>1, Writes DEF Allowed, Keeping
<1>5. \A W : Aside(W) /\ Handle(p, W, None) => Legal(p)
  BY DEF Legal
<1>. HIDE DEF Aside
<1>6. CASE RecordEvidence(p, e)
  BY <1>2, <1>3, <1>5, <1>6 DEF RecordEvidence
<1>7. CASE SupersedeEvidence(p, e, by)
  <2>1. CASE Refuse(p) BY <2>1, RefuseLegal
  <2>2. CASE Handle(p, Over(Write(e, "superseded"), Write(by, "current")), None)
    BY <1>3, <1>4, <1>5, <2>2
  <2>3. CASE Handle(p, Over(Write(e, "superseded"), NoWrites), None)
    BY <1>2, <1>4, <1>5, <2>3
  <2>4. QED BY <1>7, <2>1, <2>2, <2>3 DEF SupersedeEvidence
<1>8. QED BY <1>6, <1>7

LEMMA CallLegal ==
  ASSUME TasksInv, NEW p \in Server, TaskCall(p)
  PROVE  Legal(p)
BY CreateLegal, UpdateLegal, ResumeLegal, EvidenceLegal DEF TaskCall

\* A save puts a view into the file; a failed one leaves it, and a dead server forgets it.
LEMMA SettleKeeps ==
  ASSUME TasksInv, NEW p \in Server, Settle(p)
  PROVE  TasksInv'
<1>1. CASE Save(p)
  <2>1. /\ DOMAIN journal' = Server /\ file' = View(p) /\ journal'[p] = NoWrites
        /\ \A q \in Server \ {p} : journal'[q] = journal[q]
    BY <1>1 DEF Save, TasksInv
  <2>2. \A k \in Task : file'[k] \in TaskRecord \cup {None}
    BY <2>1, ViewGrounded
  <2>3. \A q \in Server, k \in Task : journal'[q][k] \in TaskRecord \cup {Same}
    BY <2>1, Writes DEF TasksInv
  <2>4. \A q \in Server, e \in Evidence : journal'[q][e] # None
    BY <2>1, Writes DEF TasksInv
  <2>5. EvidenceGated' BY <2>1, ViewGrounded DEF EvidenceGated
  <2>6. ASSUME NEW q \in Server, NEW k \in Task, journal'[q][k] # Same
        PROVE HoldsEvidence(View(q)', journal'[q][k])
    <3>1. q # p BY <2>1, <2>6, Writes
    <3>2. journal'[q] = journal[q] /\ View(q)' = Over(journal[q], View(p))
      BY <2>1, <3>1 DEF View
    <3>3. HoldsEvidence(View(q), journal[q][k]) /\ journal[q][k] \in TaskRecord
      BY <2>6, <3>2 DEF TasksInv
    <3>4. \A e \in Evidence : View(q)[e] # None => View(q)'[e] # None
      BY <3>2, EvidenceStays
    <3>5. QED BY <3>2, <3>3, <3>4, GroundedStays
  <2>7. QED BY <2>1, <2>2, <2>3, <2>4, <2>5, <2>6 DEF TasksInv
<1>2. CASE SaveFails(p)
  BY <1>2 DEF SaveFails, TasksInv, EvidenceGated, View
<1>3. CASE Killed(p)
  <2>1. /\ DOMAIN journal' = Server /\ file' = file /\ journal'[p] = NoWrites
        /\ \A q \in Server \ {p} : journal'[q] = journal[q] /\ View(q)' = View(q)
    BY <1>3 DEF Killed, TasksInv, View
  <2>2. QED BY <2>1, Writes DEF TasksInv, EvidenceGated
<1>4. QED BY <1>1, <1>2, <1>3 DEF Settle

LEMMA TasksStep == TasksInv /\ [TasksNext]_serverVars => TasksInv'
<1>. SUFFICES ASSUME TasksInv, [TasksNext]_serverVars PROVE TasksInv'
  OBVIOUS
<1>1. ASSUME NEW p \in Server, TaskCall(p) PROVE TasksInv'
  BY <1>1, CallLegal, HandleKeeps DEF Legal
<1>2. ASSUME NEW p \in Server, Settle(p) PROVE TasksInv'
  BY <1>2, SettleKeeps
<1>3. CASE UNCHANGED serverVars
  BY <1>3 DEF serverVars, TasksInv, EvidenceGated, View
<1>4. QED BY <1>1, <1>2, <1>3 DEF TasksNext

\* What is so of file and journals in every reachable state.
THEOREM TasksInvariance == TasksSpec => []TasksInv
BY TasksInitial, TasksStep, PTL DEF TasksSpec

\* No saved task claims more than its evidence allows (tasks.go: applyHypothesis).
THEOREM ClaimsAreGated == TasksSpec => []EvidenceGated
<1>1. TasksInv => EvidenceGated BY DEF TasksInv
<1>2. QED BY <1>1, TasksInvariance, PTL

-----------------------------------------------------------------------------
(* One server.                                                             *)

LEMMA EditsInitial == ServerInit => EditsInv
BY DEF ServerInit, EditsInv, EditsSurvive

\* The edits of a task in the file are in the view too.
LEMMA EditsInView ==
  ASSUME TasksInv, EditsInv, NEW p \in Server, NEW k \in Task, file[k] # None
  PROVE  View(p)[k] # None /\ file[k].edits \subseteq View(p)[k].edits
BY DEF TasksInv, EditsInv, View, Over, NodeValue

LEMMA HandleKeepsEdits ==
  ASSUME TasksInv, EditsInv, \A q, s \in Server : q = s, NEW p \in Server, NEW W, NEW r,
         Allowed(p, W), Keeping(p, W, r), Handle(p, W, r)
  PROVE  EditsInv'
<1>1. /\ DOMAIN journal' = Server /\ file' = file
      /\ \A k \in Key : journal'[p][k] = IF W[k] = Same THEN journal[p][k] ELSE W[k]
      /\ \A k \in Key : View(p)'[k] = IF W[k] = Same THEN View(p)[k] ELSE W[k]
  BY WritesSeen DEF TasksInv
<1>2. reply' = [reply EXCEPT ![p] = r] /\ answered' = answered
  BY DEF Handle
<1>3. EditsSurvive' BY <1>1, <1>2 DEF EditsInv, EditsSurvive
<1>4. ASSUME NEW q \in Server, NEW k \in Task, file'[k] # None, journal'[q][k] # Same
      PROVE file'[k].edits \subseteq journal'[q][k].edits
  <2>1. q = p OBVIOUS
  <2>2. CASE W[k] = Same BY <1>1, <1>4, <2>1, <2>2 DEF EditsInv
  <2>3. CASE W[k] # Same
    <3>1. View(p)[k] # None /\ file[k].edits \subseteq View(p)[k].edits
      BY <1>1, <1>4, EditsInView
    <3>2. View(p)[k].edits \subseteq W[k].edits BY <2>3, <3>1 DEF Keeping
    <3>3. QED BY <1>1, <2>1, <2>3, <3>1, <3>2
  <2>4. QED BY <2>2, <2>3
<1>5. ASSUME NEW q \in Server, reply'[q] \in TaskEdit
      PROVE View(q)'[reply'[q][1]] # None /\ reply'[q] \in View(q)'[reply'[q][1]].edits
  <2>1. q = p /\ reply'[q] = r BY <1>2 DEF EditsInv
  <2>2. r[1] \in Task BY <1>5, <2>1 DEF TaskEdit
  <2>3. W[r[1]] \in TaskRecord /\ W[r[1]] # None /\ r \in W[r[1]].edits
    BY <1>5, <2>1, <2>2 DEF Keeping, Allowed, NodeValue
  <2>4. View(p)'[r[1]] = W[r[1]]
    BY <1>1, <1>5, <2>1, <2>2 DEF Keeping
  <2>5. QED BY <2>1, <2>3, <2>4
<1>6. QED BY <1>2, <1>3, <1>4, <1>5 DEF EditsInv

\* A save makes the view the file, so that what is answered then is in the file.
LEMMA SettleKeepsEdits ==
  ASSUME TasksInv, EditsInv, \A q, s \in Server : q = s, NEW p \in Server, Settle(p)
  PROVE  EditsInv'
<1>1. CASE Save(p)
  <2>1. /\ file' = View(p) /\ journal'[p] = NoWrites
        /\ reply' = [reply EXCEPT ![p] = None] /\ answered' = answered \cup ({reply[p]} \ {None})
    BY <1>1 DEF Save, TasksInv
  <2>2. ASSUME NEW edit \in answered' \cap TaskEdit
        PROVE file'[edit[1]] # None /\ edit \in file'[edit[1]].edits
    <3>1. CASE edit \in answered
      <4>1. edit[1] \in Task /\ file[edit[1]] # None /\ edit \in file[edit[1]].edits
        BY <3>1 DEF EditsInv, EditsSurvive, TaskEdit
      <4>2. QED BY <2>1, <4>1, EditsInView
    <3>2. CASE edit = reply[p] BY <2>1, <2>2, <3>2 DEF EditsInv
    <3>3. QED BY <2>1, <3>1, <3>2
  <2>3. \A q \in Server, k \in Task : journal'[q][k] = Same
    BY <2>1, Writes
  <2>4. \A q \in Server : reply'[q] = None BY <2>1 DEF EditsInv
  <2>5. QED BY <2>1, <2>2, <2>3, <2>4 DEF EditsInv, EditsSurvive
<1>2. CASE SaveFails(p)
  <2>1. /\ file' = file /\ journal' = journal /\ answered' = answered
        /\ reply' = [reply EXCEPT ![p] = None]
    BY <1>2 DEF SaveFails
  <2>2. \A q \in Server : reply'[q] = None BY <2>1 DEF EditsInv
  <2>3. QED BY <2>1, <2>2 DEF EditsInv, EditsSurvive
<1>3. CASE Killed(p)
  <2>1. /\ file' = file /\ answered' = answered /\ journal'[p] = NoWrites
        /\ reply' = [reply EXCEPT ![p] = None]
    BY <1>3 DEF Killed, TasksInv
  <2>2. \A q \in Server : reply'[q] = None BY <2>1 DEF EditsInv
  <2>3. \A q \in Server, k \in Task : journal'[q][k] = Same BY <2>1, Writes
  <2>4. QED BY <2>1, <2>2, <2>3 DEF EditsInv, EditsSurvive
<1>4. QED BY <1>1, <1>2, <1>3 DEF Settle

LEMMA EditsStep ==
  ASSUME \A q, s \in Server : q = s
  PROVE  TasksInv /\ EditsInv /\ [TasksNext]_serverVars => EditsInv'
<1>. SUFFICES ASSUME TasksInv, EditsInv, [TasksNext]_serverVars PROVE EditsInv'
  OBVIOUS
<1>1. ASSUME NEW p \in Server, TaskCall(p) PROVE EditsInv'
  BY <1>1, CallLegal, HandleKeepsEdits DEF Legal
<1>2. ASSUME NEW p \in Server, Settle(p) PROVE EditsInv'
  BY <1>2, SettleKeepsEdits
<1>3. CASE UNCHANGED serverVars
  BY <1>3 DEF serverVars, EditsInv, EditsSurvive, View
<1>4. QED BY <1>1, <1>2, <1>3 DEF TasksNext

\* With one server, what an update was answered for stays in its task, through failed saves
\* and restarts (mcp/tools.go: Call).
THEOREM AnsweredEditsSurvive ==
  ASSUME \A q, s \in Server : q = s
  PROVE  TasksSpec => []EditsSurvive
<1>1. TasksInv /\ EditsInv /\ [TasksNext]_serverVars => EditsInv'
  BY EditsStep
<1>2. EditsInv => EditsSurvive BY DEF EditsInv
<1>3. QED BY <1>1, <1>2, EditsInitial, TasksInvariance, PTL DEF TasksSpec

-----------------------------------------------------------------------------
(***************************************************************************)
(* Pseudonyms.  With one server, the node, the two cache entries and the   *)
(* server's memory agree between any two calls, so that a name keeps the   *)
(* token it was answered with through restarts and failed saves.           *)
(***************************************************************************)
USE CacheAssumption, PrivacyAssumption, PrivacyValueAssumption

OneServer == \A p, q \in Server : p = q

\* Different names have different tokens, none above their number.
Named(t) == {n \in Symbol : t[n] # 0}
Sound(t) ==
  /\ t \in Table
  /\ \A m, n \in Symbol : t[m] = t[n] /\ t[m] # 0 => m = n
  /\ \A n \in Symbol : t[n] <= Cardinality(Named(t))

\* The node is what the service would load; the cache entries are both there and
\* agree with it, or neither is.
Persisted(g, j) == IF g[StateNode[j]] # None THEN g[StateNode[j]] ELSE NewState
Agree(g) == \A j \in Project :
  /\ g[StateNode[j]] # None => g[StateNode[j]] \in Pseudonyms /\ Sound(g[StateNode[j]].table)
  /\ \/ g[PolicyEntry[j]] = None /\ g[SnapshotEntry[j]] = None
     \/ /\ g[StateNode[j]] # None
        /\ g[PolicyEntry[j]] = g[StateNode[j]].policy /\ g[SnapshotEntry[j]] = g[StateNode[j]].table

\* A name, a token, and that it is the name's in a graph.
Token3 == Project \X Symbol \X Token
Holds(g, a) == Persisted(g, a[1]).table[a[2]] = a[3]

PrivacyInv ==
  /\ DOMAIN journal = Server /\ DOMAIN reply = Server
  /\ states \in [Server -> [Project -> Pseudonyms \cup {None}]]
  /\ Agree(file) /\ \A a \in answered \cap Token3 : Holds(file, a)
  /\ \A p \in Server :
       /\ Agree(View(p)) /\ \A a \in answered \cap Token3 : Holds(View(p), a)
       /\ \A j \in Project : states[p][j] # None => states[p][j] = Persisted(View(p), j)
       /\ reply[p] \in Token3 \ {None} => Holds(View(p), reply[p])

-----------------------------------------------------------------------------
(* Tables.                                                                 *)

LEMMA CountNamed ==
  ASSUME NEW t
  PROVE  /\ IsFiniteSet(Named(t)) /\ Cardinality(Named(t)) \in Nat
         /\ Cardinality(Named(t)) <= Cardinality(Symbol) /\ Cardinality(Symbol) \in Nat
<1>1. Named(t) \in SUBSET Symbol BY DEF Named
<1>2. IsFiniteSet(Named(t)) /\ Cardinality(Named(t)) <= Cardinality(Symbol)
  BY <1>1, FS_Subset
<1>3. QED BY <1>2, FS_CardinalityType

LEMMA NoNamesSound == NoNames \in Table /\ Sound(NoNames) /\ NewState \in Pseudonyms
<1>1. NoNames \in Table BY DEF NoNames, Table
<1>2. Sound(NoNames) BY <1>1, CountNamed DEF Sound, NoNames
<1>3. QED BY <1>1, <1>2 DEF NewState, Pseudonyms

\* A name gets the next number, or keeps the token it has; so do the other names.
LEMMA PseudonymizeSound ==
  ASSUME NEW t, Sound(t), NEW n \in Symbol
  PROVE  LET u == Pseudonymize(t, n)
         IN  Sound(u) /\ u[n] # 0 /\ \A m \in Symbol : t[m] # 0 => u[m] = t[m]
<1>. DEFINE u == Pseudonymize(t, n)
            k == Cardinality(Named(t))
<1>1. t \in [Symbol -> Token \cup {0}] /\ k \in Nat
  BY CountNamed DEF Sound, Table
<1>2. CASE t[n] # 0
  BY <1>2 DEF Pseudonymize
<1>3. CASE t[n] = 0
  <2>1. u = [t EXCEPT ![n] = 1 + k]
    BY <1>3 DEF Pseudonymize, Named
  <2>. HIDE DEF u, k
  <2>2. \A m \in Symbol : u[m] = IF m = n THEN 1 + k ELSE t[m]
    BY <1>1, <2>1
  <2>3. Named(u) = Named(t) \cup {n} /\ n \notin Named(t)
    BY <1>1, <1>3, <2>2 DEF Named
  <2>4. Cardinality(Named(u)) = k + 1
    BY <2>3, CountNamed, FS_AddElement DEF k
  <2>5. k + 1 <= Cardinality(Symbol) /\ Cardinality(Symbol) \in Nat
    BY <2>4, CountNamed
  <2>6. 1 + k \in Token
    BY <1>1, <2>5 DEF Token
  <2>7. u \in Table
    BY <1>1, <2>1, <2>6 DEF Table
  <2>8. \A m \in Symbol : t[m] \in Nat /\ t[m] <= k
    BY <1>1, CountNamed DEF Sound, Token, k
  <2>9. \A m \in Symbol : u[m] <= k + 1
    BY <1>1, <2>2, <2>8
  <2>10. ASSUME NEW l \in Symbol, NEW m \in Symbol, u[l] = u[m], u[l] # 0 PROVE l = m
    BY <1>1, <2>2, <2>8, <2>10 DEF Sound
  <2>11. Sound(u)
    BY <2>4, <2>7, <2>9, <2>10 DEF Sound
  <2>12. QED BY <1>1, <1>3, <2>2, <2>11 DEF u
<1>4. QED BY <1>2, <1>3

-----------------------------------------------------------------------------
(* Graphs.                                                                 *)

\* What a state is loaded from.
LEMMA LoadedIs ==
  ASSUME NEW g, Agree(g), NEW j \in Project
  PROVE  Loaded(g, j) = Persisted(g, j)
<1>1. CASE g[PolicyEntry[j]] = None /\ g[SnapshotEntry[j]] = None
  BY <1>1 DEF Loaded, Persisted
<1>2. CASE /\ g[StateNode[j]] \in Pseudonyms /\ g[StateNode[j]] # None
           /\ g[PolicyEntry[j]] = g[StateNode[j]].policy /\ g[SnapshotEntry[j]] = g[StateNode[j]].table
  <2>1. /\ g[PolicyEntry[j]] \in Policy /\ g[SnapshotEntry[j]] \in Table
        /\ g[StateNode[j]] = [policy |-> g[PolicyEntry[j]], table |-> g[SnapshotEntry[j]]]
    BY <1>2 DEF Pseudonyms
  <2>2. g[PolicyEntry[j]] # None /\ g[SnapshotEntry[j]] # None
    BY <2>1
  <2>3. QED BY <1>2, <2>1, <2>2 DEF Loaded, Persisted
<1>3. QED BY <1>1, <1>2 DEF Agree

LEMMA PersistedSound ==
  ASSUME NEW g, Agree(g), NEW j \in Project
  PROVE  Persisted(g, j) \in Pseudonyms /\ Sound(Persisted(g, j).table)
BY NoNamesSound DEF Agree, Persisted, NewState

LEMMA StateIs ==
  ASSUME PrivacyInv, NEW p \in Server, NEW j \in Project
  PROVE  StateOf(p, j) = Persisted(View(p), j)
BY LoadedIs DEF PrivacyInv, StateOf

\* Writes that leave the service's nodes and its entries, or remove both of those.
Aside(p, W) == \A j \in Project :
  /\ W[StateNode[j]] = Same
  /\ \/ W[PolicyEntry[j]] = Same /\ W[SnapshotEntry[j]] = Same
     \/ Over(W, View(p))[PolicyEntry[j]] = None /\ Over(W, View(p))[SnapshotEntry[j]] = None

LEMMA KeysThere ==
  \A j \in Project : StateNode[j] \in Key /\ PolicyEntry[j] \in Key /\ SnapshotEntry[j] \in Key
BY DEF SpecialEntry

\* What becomes of the answers and graphs in a call.
LEMMA CallView ==
  ASSUME PrivacyInv, OneServer, NEW p \in Server, NEW W, NEW r, Handle(p, W, r)
  PROVE  /\ DOMAIN journal' = Server /\ DOMAIN reply' = Server
         /\ file' = file /\ answered' = answered /\ reply'[p] = r
         /\ \A k \in Key : View(p)'[k] = Over(W, View(p))[k]
         /\ \A k \in Key : View(p)'[k] = IF W[k] = Same THEN View(p)[k] ELSE W[k]
<1>1. DOMAIN journal = Server /\ DOMAIN reply = Server BY DEF PrivacyInv
<1>2. DOMAIN journal' = Server /\ \A k \in Key : View(p)'[k] = IF W[k] = Same THEN View(p)[k] ELSE W[k]
  BY <1>1, WritesSeen
<1>3. file' = file /\ answered' = answered /\ reply' = [reply EXCEPT ![p] = r]
  BY DEF Handle
<1>4. QED BY <1>1, <1>2, <1>3, Writes

\* Such a call changes no name's token.
LEMMA AsideKeeps ==
  ASSUME PrivacyInv, OneServer, NEW p \in Server, NEW W, Aside(p, W), Handle(p, W, None),
         \/ states' = states
         \/ \E j \in Project : states' = [states EXCEPT ![p][j] = StateOf(p, j)]
  PROVE  PrivacyInv'
<1>1. /\ DOMAIN journal' = Server /\ DOMAIN reply' = Server /\ file' = file /\ answered' = answered
      /\ reply'[p] = None
      /\ \A k \in Key : View(p)'[k] = Over(W, View(p))[k]
      /\ \A k \in Key : View(p)'[k] = IF W[k] = Same THEN View(p)[k] ELSE W[k]
  BY CallView
<1>2. \A j \in Project :
        /\ View(p)'[StateNode[j]] = View(p)[StateNode[j]]
        /\ \/ View(p)'[PolicyEntry[j]] = View(p)[PolicyEntry[j]]
              /\ View(p)'[SnapshotEntry[j]] = View(p)[SnapshotEntry[j]]
           \/ View(p)'[PolicyEntry[j]] = None /\ View(p)'[SnapshotEntry[j]] = None
  BY <1>1, KeysThere DEF Aside
<1>3. \A j \in Project : Persisted(View(p)', j) = Persisted(View(p), j)
  BY <1>2 DEF Persisted
<1>4. Agree(View(p)')
  BY <1>2 DEF Agree, PrivacyInv
<1>5. \A a \in Token3 : Holds(View(p)', a) <=> Holds(View(p), a)
  BY <1>3 DEF Holds, Token3
<1>6. /\ states' \in [Server -> [Project -> Pseudonyms \cup {None}]]
      /\ \A j \in Project : states'[p][j] # None => states'[p][j] = Persisted(View(p), j)
  <2>1. CASE states' = states
    BY <2>1 DEF PrivacyInv
  <2>2. ASSUME NEW j \in Project, states' = [states EXCEPT ![p][j] = StateOf(p, j)]
        PROVE  <1>6!2 /\ <1>6!1
    <3>1. StateOf(p, j) = Persisted(View(p), j) /\ StateOf(p, j) \in Pseudonyms
      BY StateIs, PersistedSound DEF PrivacyInv
    <3>2. QED BY <2>2, <3>1 DEF PrivacyInv
  <2>3. QED BY <2>1, <2>2
<1>7. \A q \in Server : q = p BY DEF OneServer
<1>8. Agree(file') /\ \A a \in answered' \cap Token3 : Holds(file', a)
  BY <1>1 DEF PrivacyInv
<1>9. \A a \in answered' \cap Token3 : Holds(View(p)', a)
  BY <1>1, <1>5 DEF PrivacyInv
<1>10. \A j \in Project : states'[p][j] # None => states'[p][j] = Persisted(View(p)', j)
  BY <1>3, <1>6
<1>. QED BY <1>1, <1>4, <1>6, <1>7, <1>8, <1>9, <1>10 DEF PrivacyInv

\* Results of tools are other nodes; a flush takes both entries of its project.
LEMMA CacheCallKeeps ==
  ASSUME PrivacyInv, OneServer, NEW p \in Server, CacheCall(p), states' = states
  PROVE  PrivacyInv'
<1>1. \A j \in Project : /\ {StateNode[j], PolicyEntry[j], SnapshotEntry[j]} \subseteq Key
                         /\ {StateNode[j], PolicyEntry[j], SnapshotEntry[j]} \cap CacheKey = {}
  BY DEF SpecialEntry
<1>2. ASSUME NEW W, \A k \in Key \ CacheKey : W[k] = Same PROVE Aside(p, W)
  BY <1>1, <1>2 DEF Aside
<1>3. \A S : \A k \in Key : Removing(S)[k] = IF k \in S THEN None ELSE Same
  BY DEF Removing
<1>4. ASSUME NEW S \in SUBSET CacheKey PROVE Aside(p, Removing(S))
  BY <1>2, <1>3
<1>5. ASSUME NEW j \in Project PROVE Aside(p, Removing(EntriesOf(View(p), j)))
  <2>. DEFINE W == Removing(EntriesOf(View(p), j))
  <2>1. \A i \in Project : StateNode[i] \notin EntriesOf(View(p), j)
    BY <1>1 DEF EntriesOf, ExactOf, ExactEntries, SpecialEntry
  <2>2. \A i \in Project \ {j} :
          PolicyEntry[i] \notin EntriesOf(View(p), j) /\ SnapshotEntry[i] \notin EntriesOf(View(p), j)
    BY <1>1 DEF EntriesOf, ExactOf, ExactEntries
  <2>3. \A k \in {PolicyEntry[j], SnapshotEntry[j]} :
          View(p)[k] = None \/ k \in EntriesOf(View(p), j)
    BY DEF EntriesOf
  <2>4. \A k \in {PolicyEntry[j], SnapshotEntry[j]} : Over(W, View(p))[k] = None
    BY <1>1, <1>3, <2>3, Writes, KeyAssumption
  <2>5. QED BY <1>1, <1>3, <2>1, <2>2, <2>4 DEF Aside
<1>6. ASSUME NEW W, Aside(p, W), Handle(p, W, None) PROVE PrivacyInv'
  BY <1>6, AsideKeeps
<1>7. ASSUME NEW c \in CacheKey, NEW v PROVE Aside(p, Write(c, v))
  BY <1>2, Writes
<1>8. ASSUME NEW W, NEW g, \A k \in Key \ CacheKey : W[k] = Same, PurgeExact(p, g, W)
      PROVE  PrivacyInv'
  <2>1. PICK S \in SUBSET CacheKey : Handle(p, Over(Removing(S), W), None)
    BY <1>8 DEF PurgeExact
  <2>2. \A k \in Key \ CacheKey : Over(Removing(S), W)[k] = Same
    BY <1>3, <1>8, Writes
  <2>3. QED BY <1>2, <1>6, <2>1, <2>2
<1>9. ASSUME NEW c \in CacheKey, StoreExactCache(p, c) PROVE PrivacyInv'
  <2>1. \A k \in Key \ CacheKey : Write(c, now')[k] = Same
    BY Writes
  <2>2. \/ Handle(p, Write(c, now'), None)
        \/ PurgeExact(p, View(p), Write(c, now'))
    BY <1>9 DEF StoreExactCache
  <2>3. QED BY <1>6, <1>7, <1>8, <2>1, <2>2
<1>10. ASSUME NEW c \in CacheKey, InvalidateTool(p, c) PROVE PrivacyInv'
  BY <1>4, <1>6, <1>10 DEF InvalidateTool, Invalidate, ExactEntries
<1>11. ASSUME NEW c \in CacheKey, NEW expired \in BOOLEAN, CheckExactCache(p, c, expired)
       PROVE  PrivacyInv'
  <2>1. Aside(p, NoWrites) BY <1>2, Writes
  <2>2. Aside(p, Removing({c})) BY <1>4
  <2>3. QED BY <1>6, <1>11, <2>1, <2>2 DEF CheckExactCache, Refuse
<1>12. ASSUME NEW j \in Project, Flush(p, j) PROVE PrivacyInv'
  BY <1>5, <1>6, <1>12 DEF Flush, Invalidate
<1>13. ASSUME PurgeCache(p) PROVE PrivacyInv'
  BY <1>8, <1>13, Writes DEF PurgeCache
<1>14. QED BY <1>9, <1>10, <1>11, <1>12, <1>13 DEF CacheCall

\* A call that writes the state of a project: the names keep their tokens.
LEMMA KeepKeeps ==
  ASSUME PrivacyInv, OneServer, NEW p \in Server, NEW j \in Project,
         NEW state \in Pseudonyms, Sound(state.table),
         \A m \in Symbol : LET old == Persisted(View(p), j).table[m]
                           IN  old # 0 => state.table[m] = old,
         NEW r, Keep(p, j, state, r),
         r \in Token3 \ {None} => r[1] = j /\ state.table[r[2]] = r[3]
  PROVE  PrivacyInv'
<1>. DEFINE W == persist(j, state)
<1>1. /\ \A i \in Project : /\ {StateNode[i], PolicyEntry[i], SnapshotEntry[i]} \subseteq Key
                            /\ StateNode[i] \notin SpecialEntry
      /\ PolicyEntry[j] \in SpecialEntry /\ SnapshotEntry[j] \in SpecialEntry
  BY DEF SpecialEntry
<1>2. Handle(p, W, r) /\ states' = [states EXCEPT ![p][j] = state]
  BY DEF Keep
<1>3. \A k \in Key : W[k] = IF k = SnapshotEntry[j] THEN state.table
                            ELSE IF k = PolicyEntry[j] THEN state.policy
                            ELSE IF k = StateNode[j] THEN state ELSE Same
  <2>1. state.table # Same /\ state.policy # Same BY DEF Pseudonyms
  <2>2. QED BY <1>1, <2>1, Writes DEF persist
<1>. HIDE DEF W
<1>4. /\ DOMAIN journal' = Server /\ DOMAIN reply' = Server /\ file' = file /\ answered' = answered
      /\ reply'[p] = r
      /\ \A k \in Key : View(p)'[k] = IF W[k] = Same THEN View(p)[k] ELSE W[k]
  BY <1>2, CallView
<1>5. /\ state # None /\ state # Same /\ state.table # Same /\ state.policy # Same
      /\ state.table \in Table /\ state.policy \in Policy
  BY DEF Pseudonyms
<1>6. /\ View(p)'[StateNode[j]] = state
      /\ View(p)'[PolicyEntry[j]] = state.policy /\ View(p)'[SnapshotEntry[j]] = state.table
  <2>1. PolicyEntry[j] # SnapshotEntry[j] OBVIOUS
  <2>2. StateNode[j] # SnapshotEntry[j] /\ StateNode[j] # PolicyEntry[j] BY <1>1
  <2>3. QED BY <1>1, <1>3, <1>4, <1>5, <2>1, <2>2
<1>7. ASSUME NEW i \in Project, i # j
      PROVE  /\ View(p)'[StateNode[i]] = View(p)[StateNode[i]]
             /\ View(p)'[PolicyEntry[i]] = View(p)[PolicyEntry[i]]
             /\ View(p)'[SnapshotEntry[i]] = View(p)[SnapshotEntry[i]]
  <2>1. W[StateNode[i]] = Same
    BY <1>1, <1>3, <1>7
  <2>2. PolicyEntry[i] # PolicyEntry[j] /\ PolicyEntry[i] # SnapshotEntry[j] /\ PolicyEntry[i] # StateNode[j]
    BY <1>1, <1>7 DEF SpecialEntry
  <2>3. SnapshotEntry[i] # PolicyEntry[j] /\ SnapshotEntry[i] # SnapshotEntry[j] /\ SnapshotEntry[i] # StateNode[j]
    BY <1>1, <1>7 DEF SpecialEntry
  <2>4. QED BY <1>1, <1>3, <1>4, <2>1, <2>2, <2>3
<1>8. /\ Persisted(View(p)', j) = state
      /\ \A i \in Project \ {j} : Persisted(View(p)', i) = Persisted(View(p), i)
  BY <1>5, <1>6, <1>7 DEF Persisted
<1>9. Agree(View(p)')
  <2>1. Agree(View(p)) BY DEF PrivacyInv
  <2>2. QED BY <1>5, <1>6, <1>7, <2>1 DEF Agree
<1>10. ASSUME NEW a \in Token3, Holds(View(p), a) PROVE Holds(View(p)', a)
  <2>1. a[1] \in Project /\ a[2] \in Symbol /\ a[3] # 0 BY DEF Token3, Token
  <2>2. QED BY <1>8, <1>10, <2>1 DEF Holds
<1>11. r \in Token3 \ {None} => Holds(View(p)', r)
  BY <1>8 DEF Holds
<1>12. /\ states' \in [Server -> [Project -> Pseudonyms \cup {None}]]
       /\ \A i \in Project : states'[p][i] # None => states'[p][i] = Persisted(View(p)', i)
  BY <1>2, <1>8 DEF PrivacyInv
<1>13. \A q \in Server : q = p BY DEF OneServer
<1>14. Agree(file') /\ \A a \in answered' \cap Token3 : Holds(file', a)
  BY <1>4 DEF PrivacyInv
<1>15. \A a \in answered' \cap Token3 : Holds(View(p)', a)
  BY <1>4, <1>10 DEF PrivacyInv
<1>. QED BY <1>4, <1>9, <1>11, <1>12, <1>13, <1>14, <1>15 DEF PrivacyInv

LEMMA PrivacyCallKeeps ==
  ASSUME PrivacyInv, OneServer, NEW p \in Server, PrivacyCall(p)
  PROVE  PrivacyInv'
<1>1. ASSUME NEW j \in Project, NEW n \in Symbol, PseudonymizeSymbol(p, j, n) PROVE PrivacyInv'
  <2>. DEFINE st == StateOf(p, j)
              table == Pseudonymize(st.table, n)
              state == [st EXCEPT !.table = table]
              r == <<j, n, table[n]>>
  <2>1. st = Persisted(View(p), j) /\ st \in Pseudonyms /\ Sound(st.table)
    BY StateIs, PersistedSound DEF PrivacyInv
  <2>2. Sound(table) /\ \A m \in Symbol : st.table[m] # 0 => table[m] = st.table[m]
    BY <2>1, PseudonymizeSound
  <2>3. Keep(p, j, state, r)
    BY <1>1 DEF PseudonymizeSymbol
  <2>. HIDE DEF table, st
  <2>4. state \in Pseudonyms /\ state.table = table
    BY <2>1, <2>2 DEF Pseudonyms, Sound
  <2>5. r[1] = j /\ state.table[r[2]] = r[3]
    BY <2>4
  <2>. HIDE DEF state, r
  <2>6. QED BY <2>1, <2>2, <2>3, <2>4, <2>5, KeepKeeps
<1>2. ASSUME NEW j \in Project, NEW policy \in Policy, SetPolicy(p, j, policy) PROVE PrivacyInv'
  <2>. DEFINE st == StateOf(p, j)
              state == [st EXCEPT !.policy = policy]
  <2>1. st = Persisted(View(p), j) /\ st \in Pseudonyms /\ Sound(st.table)
    BY StateIs, PersistedSound DEF PrivacyInv
  <2>2. Keep(p, j, state, None)
    BY <1>2 DEF SetPolicy
  <2>. HIDE DEF st
  <2>3. state \in Pseudonyms /\ state.table = st.table
    BY <2>1 DEF Pseudonyms
  <2>. HIDE DEF state
  <2>4. QED BY <2>1, <2>2, <2>3, KeepKeeps
<1>3. ASSUME NEW j \in Project, ReadPrivacy(p, j) PROVE PrivacyInv'
  <2>1. Aside(p, NoWrites) BY KeysThere, Writes DEF Aside
  <2>2. QED BY <1>3, <2>1, AsideKeeps DEF ReadPrivacy, Refuse
<1>4. QED BY <1>1, <1>2, <1>3 DEF PrivacyCall

-----------------------------------------------------------------------------
(* Saves, failures and restarts.                                           *)

LEMMA SameGraph ==
  ASSUME NEW g, NEW h, \A k \in Key : g[k] = h[k]
  PROVE  /\ Agree(g) => Agree(h)
         /\ \A j \in Project : Persisted(g, j) = Persisted(h, j)
         /\ \A a \in Token3 : Holds(g, a) => Holds(h, a)
<1>1. \A j \in Project : Persisted(g, j) = Persisted(h, j)
  BY KeysThere DEF Persisted
<1>2. Agree(g) => Agree(h)
  BY KeysThere DEF Agree
<1>3. QED BY <1>1, <1>2 DEF Holds, Token3

LEMMA PrivacySettles ==
  ASSUME PrivacyInv, OneServer, NEW p \in Server,
         \/ CacheSettle(p) /\ states' = states
         \/ CacheRestart(p) /\ states' = [states EXCEPT ![p] = [j \in Project |-> None]]
  PROVE  PrivacyInv'
<1>1. \A q \in Server : q = p BY DEF OneServer
<1>2. CASE Save(p) /\ states' = states
  <2>1. /\ file' = View(p) /\ journal'[p] = NoWrites /\ answered' = answered \cup ({reply[p]} \ {None})
        /\ DOMAIN journal' = Server /\ DOMAIN reply' = Server /\ reply'[p] = None
    BY <1>2 DEF Save, PrivacyInv
  <2>2. \A k \in Key : View(p)[k] = View(p)'[k]
    BY <2>1, Writes DEF View
  <2>3. \A a \in answered' \cap Token3 : Holds(View(p), a)
    BY <2>1 DEF PrivacyInv
  <2>4. Agree(View(p)) BY DEF PrivacyInv
  <2>5. Agree(View(p)') /\ \A j \in Project : Persisted(View(p), j) = Persisted(View(p)', j)
    BY <2>2, <2>4, SameGraph
  <2>6. \A a \in answered' \cap Token3 : Holds(View(p)', a)
    BY <2>2, <2>3, SameGraph
  <2>7. QED BY <1>1, <1>2, <2>1, <2>3, <2>4, <2>5, <2>6 DEF PrivacyInv
<1>3. CASE SaveFails(p) /\ states' = states
  <2>1. /\ file' = file /\ journal' = journal /\ answered' = answered
        /\ DOMAIN reply' = Server /\ reply'[p] = None
    BY <1>3 DEF SaveFails, PrivacyInv
  <2>2. View(p)' = View(p) BY <2>1 DEF View
  <2>3. QED BY <1>1, <1>3, <2>1, <2>2 DEF PrivacyInv
<1>4. CASE Killed(p) /\ states' = [states EXCEPT ![p] = [j \in Project |-> None]]
  <2>1. /\ file' = file /\ journal'[p] = NoWrites /\ answered' = answered
        /\ DOMAIN journal' = Server /\ DOMAIN reply' = Server /\ reply'[p] = None
    BY <1>4 DEF Killed, PrivacyInv
  <2>2. \A k \in Key : file[k] = View(p)'[k]
    BY <2>1, Writes DEF View
  <2>3. Agree(View(p)') /\ \A a \in answered \cap Token3 : Holds(View(p)', a)
    BY <2>2, SameGraph DEF PrivacyInv
  <2>4. /\ states' \in [Server -> [Project -> Pseudonyms \cup {None}]]
        /\ \A j \in Project : states'[p][j] = None
    BY <1>4 DEF PrivacyInv
  <2>5. QED BY <1>1, <2>1, <2>3, <2>4 DEF PrivacyInv
<1>5. QED BY <1>2, <1>3, <1>4 DEF CacheSettle, CacheRestart

LEMMA PrivacyStarts == PrivacyInit => PrivacyInv
<1>. SUFFICES ASSUME PrivacyInit PROVE PrivacyInv OBVIOUS
<1>1. /\ DOMAIN journal = Server /\ DOMAIN reply = Server /\ answered = {}
      /\ file = [k \in Key |-> None] /\ \A p \in Server : journal[p] = NoWrites /\ reply[p] = None
      /\ states = [p \in Server |-> [j \in Project |-> None]]
  BY DEF PrivacyInit, CacheInit, ServerInit
<1>2. \A k \in Key : file[k] = None BY <1>1
<1>3. \A p \in Server : \A k \in Key : View(p)[k] = None
  BY <1>1, <1>2, Writes DEF View
<1>4. Agree(file) BY <1>2, KeysThere DEF Agree
<1>5. \A p \in Server : Agree(View(p)) BY <1>3, KeysThere DEF Agree
<1>6. QED BY <1>1, <1>4, <1>5 DEF PrivacyInv

LEMMA PrivacyStep ==
  ASSUME PrivacyInv, OneServer, [PrivacyNext]_privacyVars
  PROVE  PrivacyInv'
<1>1. CASE UNCHANGED privacyVars
  BY <1>1 DEF PrivacyInv, privacyVars, serverVars, cacheVars, View
<1>2. CASE PrivacyNext
  BY <1>2, PrivacyCallKeeps, CacheCallKeeps, PrivacySettles DEF PrivacyNext
<1>3. QED BY <1>1, <1>2

\* With one server process, the PrivacyState node, the cache entries and the state in
\* memory (privacy.go, state and persist) tell the same names, in the file and under the
\* journal, after every call, flush, failed save and restart.
THEOREM PrivacyInvariance == ASSUME OneServer PROVE PrivacySpec => []PrivacyInv
BY PrivacyStarts, PrivacyStep, PTL DEF PrivacySpec

\* With one server process, a pseudonym that was handed out keeps its meaning: the name
\* gets that token again, and no other name of the project ever does.
THEOREM PseudonymsAreStable == ASSUME OneServer PROVE PrivacySpec => []PseudonymsStable
<1>1. PrivacyInv => PseudonymsStable
  <2>. SUFFICES ASSUME PrivacyInv, NEW a \in answered \cap (Project \X Symbol \X Token), NEW p \in Server,
                       NEW table, table = StateOf(p, a[1]).table
                PROVE  table[a[2]] = a[3] /\ \A n \in Symbol \ {a[2]} : table[n] # a[3]
    BY DEF PseudonymsStable
  <2>1. a[1] \in Project /\ a[2] \in Symbol /\ a[3] # 0 BY DEF Token
  <2>2. table = Persisted(View(p), a[1]).table /\ Sound(table)
    BY <2>1, StateIs, PersistedSound DEF PrivacyInv
  <2>3. table[a[2]] = a[3]
    BY <2>2 DEF PrivacyInv, Token3, Holds
  <2>4. QED BY <2>1, <2>2, <2>3 DEF Sound
<1>2. QED BY <1>1, PrivacyInvariance, PTL

-----------------------------------------------------------------------------
(***************************************************************************)
(* Housekeeping.  With one server, what a search finds stays to be found   *)
(* and a call is counted once: the graph a call works on has every summary *)
(* that its archived memories need, and never lags behind the file.        *)
(***************************************************************************)

\* An archived memory is in the summary of its entity.
Summarized(g) ==
  /\ \A t \in Title : g[t] \in MemoryNode \cup {None}
  /\ \A e \in Summary : g[e] \in SummaryNode \cup {None}
  /\ \A t \in Title : g[t] # None /\ isArchived(g[t]) =>
       g[t].entity \in Entity /\ g[g[t].entity] # None /\ g[t].lines \subseteq g[g[t].entity].lines

\* Summaries grow and memories stay.
Grows(g, h) ==
  /\ \A t \in Title : g[t] # None => h[t] # None
  /\ \A e \in Summary : g[e] # None => h[e] # None /\ g[e].lines \subseteq h[e].lines

SearchInv ==
  /\ DOMAIN journal = Server
  /\ Summarized(file)
  /\ \A p \in Server : Summarized(View(p)) /\ Grows(file, View(p))

\* The kinds of nodes have different keys, and their values are neither None nor Same.
LEMMA HouseKeys ==
  /\ Title \subseteq Key /\ Entity \subseteq Key /\ Summary = Entity /\ Title \cap Entity = {}
  /\ UsageTotal \in Key \ (Title \cup Entity)
  /\ \A s \in Session : SessionKey[s] \in Key \ (Title \cup Entity \cup {UsageTotal})
  /\ \A s, n \in Session : SessionKey[s] = SessionKey[n] => s = n
  /\ \A v \in MemoryNode \cup SummaryNode \cup Nat : v # None /\ v # Same
BY HousekeepingAssumption, HouseValueAssumption DEF Summary, SessionKeys

-----------------------------------------------------------------------------
(* Memories.                                                               *)

LEMMA SameMemories ==
  ASSUME NEW g, NEW h, \A k \in Title \cup Entity : g[k] = h[k]
  PROVE  /\ Summarized(g) => Summarized(h)
         /\ \A f : Grows(f, g) => Grows(f, h)
         /\ \A f : Grows(g, f) => Grows(h, f)
<1>1. \A t \in Title : g[t] = h[t]
  OBVIOUS
<1>2. \A e \in Entity : g[e] = h[e]
  OBVIOUS
<1>3. ASSUME Summarized(g), NEW t \in Title, h[t] # None, isArchived(h[t])
      PROVE  h[t].entity \in Entity /\ h[h[t].entity] # None /\ h[t].lines \subseteq h[h[t].entity].lines
  <2>1. g[t].entity \in Entity /\ g[g[t].entity] # None /\ g[t].lines \subseteq g[g[t].entity].lines
    BY <1>1, <1>3 DEF Summarized
  <2> QED BY <1>1, <1>2, <2>1
<1>4. Summarized(g) => Summarized(h)
  BY <1>1, <1>2, <1>3, HouseKeys DEF Summarized
<1> QED BY <1>1, <1>2, <1>4, HouseKeys DEF Grows

LEMMA GrowsOn ==
  ASSUME NEW f, NEW g, NEW h, Grows(f, g), Grows(g, h)
  PROVE  Grows(f, h)
BY DEF Grows

\* A compaction writes the summaries it folds into and archives what it folds.
LEMMA CompactKeeps ==
  ASSUME NEW g, Summarized(g), NEW m, NEW h, h = Over(Compact(g, m), g)
  PROVE  Summarized(h) /\ Grows(g, h)
<1> DEFINE C == Compact(g, m)
           Gone(t) == t \in Linked(g) /\ Folds(g, g[t].entity, m)
<1>1. ASSUME NEW e \in Entity
      PROVE  /\ SummaryLines(g, e) \subseteq MemLine
             /\ h[e] = IF Folds(g, e, m) THEN [lines |-> SummaryLines(g, e)] ELSE g[e]
  <2>1. SummaryLines(g, e) \subseteq MemLine
    <3>1. \A t \in Group(g, e) : g[t].lines \subseteq MemLine
      BY DEF Group, Linked, Active, Summarized, MemoryNode
    <3>2. g[e] # None => g[e].lines \subseteq MemLine
      BY HouseKeys DEF Summarized, SummaryNode
    <3> QED BY <3>1, <3>2 DEF SummaryLines
  <2>2. [lines |-> SummaryLines(g, e)] # Same
    BY <2>1, HouseKeys DEF SummaryNode
  <2>3. e \in Key /\ e \notin Linked(g)
    BY HouseKeys DEF Linked, Active
  <2>4. C[e] = IF Folds(g, e, m) THEN [lines |-> SummaryLines(g, e)] ELSE Same
    BY <2>3, HouseKeys DEF Compact
  <2> HIDE DEF C
  <2>5. h[e] = IF C[e] = Same THEN g[e] ELSE C[e]
    BY <2>3 DEF Over, C
  <2> QED BY <2>1, <2>2, <2>4, <2>5
<1>2. ASSUME NEW t \in Title
      PROVE  h[t] = IF Gone(t) THEN [g[t] EXCEPT !.archived = TRUE] ELSE g[t]
  <2>1. Gone(t) => [g[t] EXCEPT !.archived = TRUE] \in MemoryNode
    BY DEF Linked, Active, Summarized, MemoryNode
  <2>2. Gone(t) => [g[t] EXCEPT !.archived = TRUE] # Same
    BY <2>1, HouseKeys
  <2>3. t \in Key /\ t \notin Summary
    BY HouseKeys
  <2>4. C[t] = IF Gone(t) THEN [g[t] EXCEPT !.archived = TRUE] ELSE Same
    BY <2>3 DEF Compact
  <2> HIDE DEF C
  <2>5. h[t] = IF C[t] = Same THEN g[t] ELSE C[t]
    BY <2>3 DEF Over, C
  <2> HIDE DEF Gone
  <2> QED BY <2>2, <2>4, <2>5
<1> HIDE DEF C
<1>3. ASSUME NEW t \in Title, Gone(t)
      PROVE  /\ h[t] \in MemoryNode /\ h[t].entity = g[t].entity /\ h[t].lines = g[t].lines
             /\ g[t].entity \in Entity /\ t \in Group(g, g[t].entity) /\ Folds(g, g[t].entity, m)
  <2>1. g[t] \in MemoryNode /\ g[t].entity # NoEntity
    BY <1>3 DEF Linked, Active, Summarized
  <2>2. h[t] = [g[t] EXCEPT !.archived = TRUE]
    BY <1>2, <1>3
  <2> QED BY <1>3, <2>1, <2>2 DEF MemoryNode, Group
<1>4. \A e \in Entity : /\ h[e] \in SummaryNode \cup {None}
                        /\ g[e] # None => h[e] # None /\ g[e].lines \subseteq h[e].lines
                        /\ Folds(g, e, m) => h[e] # None /\ h[e].lines = SummaryLines(g, e)
  <2> SUFFICES ASSUME NEW e \in Entity
               PROVE  /\ h[e] \in SummaryNode \cup {None}
                      /\ g[e] # None => h[e] # None /\ g[e].lines \subseteq h[e].lines
                      /\ Folds(g, e, m) => h[e] # None /\ h[e].lines = SummaryLines(g, e)
    OBVIOUS
  <2>1. CASE Folds(g, e, m)
    <3>1. h[e] = [lines |-> SummaryLines(g, e)] /\ SummaryLines(g, e) \subseteq MemLine
      BY <1>1, <2>1
    <3>2. h[e] \in SummaryNode /\ h[e].lines = SummaryLines(g, e)
      BY <3>1 DEF SummaryNode
    <3>3. g[e] # None => g[e].lines \subseteq SummaryLines(g, e)
      BY DEF SummaryLines
    <3> QED BY <3>2, <3>3, HouseKeys
  <2>2. CASE ~ Folds(g, e, m)
    BY <1>1, <2>2, HouseKeys DEF Summarized
  <2> QED BY <2>1, <2>2
<1>5. \A t \in Title : h[t] \in MemoryNode \cup {None} /\ (g[t] # None => h[t] # None)
  <2> SUFFICES ASSUME NEW t \in Title
               PROVE  h[t] \in MemoryNode \cup {None} /\ (g[t] # None => h[t] # None)
    OBVIOUS
  <2>1. CASE Gone(t)
    BY <1>3, <2>1, HouseKeys
  <2>2. CASE ~ Gone(t)
    BY <1>2, <2>2 DEF Summarized
  <2> QED BY <2>1, <2>2
<1>6. ASSUME NEW t \in Title, h[t] # None, isArchived(h[t])
      PROVE  h[t].entity \in Entity /\ h[h[t].entity] # None /\ h[t].lines \subseteq h[h[t].entity].lines
  <2>1. CASE Gone(t)
    <3>1. g[t].lines \subseteq SummaryLines(g, g[t].entity)
      BY <1>3, <2>1 DEF SummaryLines
    <3> HIDE DEF Gone
    <3> QED BY <1>3, <1>4, <2>1, <3>1
  <2>2. CASE ~ Gone(t)
    <3>1. h[t] = g[t]
      BY <1>2, <2>2
    <3>2. g[t].entity \in Entity /\ g[g[t].entity] # None /\ g[t].lines \subseteq g[g[t].entity].lines
      BY <1>6, <3>1 DEF Summarized
    <3> QED BY <1>4, <3>1, <3>2
  <2> QED BY <2>1, <2>2
<1> HIDE DEF Gone
<1> QED BY <1>4, <1>5, <1>6, HouseKeys DEF Summarized, Grows

\* A stored memory is active; what was folded of it stays in the summary.
LEMMA StoreKeeps ==
  ASSUME NEW g, Summarized(g), NEW t \in Title, NEW v \in MemoryNode, ~ v.archived,
         NEW h, h = Over(Write(t, v), g)
  PROVE  Summarized(h) /\ Grows(g, h)
<1>1. \A k \in Key : h[k] = IF k = t THEN v ELSE g[k]
  BY HouseKeys, Writes
<1>2. v # None
  BY HouseKeys
<1>3. \A e \in Entity : h[e] = g[e]
  BY <1>1, HouseKeys
<1>4. \A n \in Title : h[n] = IF n = t THEN v ELSE g[n]
  BY <1>1, HouseKeys
<1>5. Grows(g, h)
  BY <1>2, <1>3, <1>4, HouseKeys DEF Grows
<1>6. ASSUME NEW n \in Title, h[n] # None, isArchived(h[n])
      PROVE  h[n].entity \in Entity /\ h[h[n].entity] # None /\ h[n].lines \subseteq h[h[n].entity].lines
  <2>1. h[n] = g[n]
    BY <1>4, <1>6 DEF isArchived
  <2>2. g[n].entity \in Entity /\ g[g[n].entity] # None /\ g[n].lines \subseteq g[g[n].entity].lines
    BY <1>6, <2>1 DEF Summarized
  <2> QED BY <1>3, <2>1, <2>2
<1>7. (\A n \in Title : h[n] \in MemoryNode \cup {None}) /\ \A e \in Summary : h[e] \in SummaryNode \cup {None}
  BY <1>3, <1>4, HouseKeys DEF Summarized
<1> QED BY <1>5, <1>6, <1>7 DEF Summarized

\* Writes over writes.
LEMMA OverTwice ==
  ASSUME NEW W, NEW U, NEW g, NEW k \in Key
  PROVE  Over(W, Over(U, g))[k] = Over(Over(W, U), g)[k]
BY Writes


-----------------------------------------------------------------------------
(* The steps that change what a search sees.                               *)

\* A call of p that leaves a sound, larger graph.
Improves(p, W) ==
  \E h : Summarized(h) /\ Grows(View(p), h) /\ \A k \in Title \cup Entity : Over(W, View(p))[k] = h[k]

LEMMA ImprovesKeeps ==
  ASSUME SearchInv, OneServer, NEW p \in Server, NEW W, Improves(p, W), Handle(p, W, None)
  PROVE  SearchInv'
<1>1. PICK h : Summarized(h) /\ Grows(View(p), h) /\ \A k \in Title \cup Entity : Over(W, View(p))[k] = h[k]
  BY DEF Improves
<1>2. DOMAIN journal' = Server /\ file' = file /\ \A k \in Key : View(p)'[k] = Over(W, View(p))[k]
  BY WritesSeen, Writes DEF SearchInv
<1>3. \A k \in Title \cup Entity : h[k] = View(p)'[k]
  BY <1>1, <1>2, HouseKeys
<1>4. Grows(file, h)
  BY <1>1, GrowsOn DEF SearchInv
<1>5. Summarized(View(p)') /\ Grows(file, View(p)')
  BY <1>1, <1>3, <1>4, SameMemories
<1>6. \A q \in Server : q = p
  BY DEF OneServer
<1> QED BY <1>2, <1>5, <1>6 DEF SearchInv

\* The counters are laid over writes that they do not touch.
LEMMA FlushAside ==
  ASSUME NEW p \in Server, session[p] \in Session, NEW count \in Nat, NEW W, NEW k \in Title \cup Entity
  PROVE  Over(FlushUsage(p, count), W)[k] = W[k]
<1>1. SessionKey[session[p]] # k /\ k \in Key /\ SessionKey[session[p]] \in Key
  BY HouseKeys
<1> QED BY <1>1, Writes DEF FlushUsage

LEMMA StoreImproves ==
  ASSUME SearchInv, NEW p \in Server, NEW t \in Title, NEW lines \in SUBSET MemLine,
         NEW e \in Entity \cup {NoEntity}
  PROVE  Improves(p, StoreWrites(View(p), t, lines, e))
<1> DEFINE g == View(p)
           v == [lines |-> lines, entity |-> e, archived |-> FALSE]
           stored == Write(t, v)
           after == Over(stored, g)
           h == Over(Compact(after, 2), after)
           W == StoreWrites(g, t, lines, e)
<1>1. v \in MemoryNode /\ ~ v.archived
  BY DEF MemoryNode
<1>2. Summarized(g)
  BY DEF SearchInv
<1> HIDE DEF v, g
<1>3. Summarized(after) /\ Grows(g, after)
  BY <1>1, <1>2, StoreKeeps
<1> HIDE DEF after
<1>4. Summarized(h) /\ Grows(after, h)
  BY <1>3, CompactKeeps
<1>5. Grows(g, h)
  BY <1>3, <1>4, GrowsOn
<1>6. CASE W = stored
  <2>1. \A k \in Title \cup Entity : Over(W, g)[k] = after[k]
    BY <1>6 DEF after
  <2> QED BY <1>3, <2>1 DEF Improves, g
<1>7. CASE W = Over(Compact(after, 2), stored)
  <2> HIDE DEF W, stored
  <2>1. \A k \in Key : Over(W, g)[k] = h[k]
    BY <1>7, OverTwice DEF after
  <2>2. \A k \in Title \cup Entity : Over(W, g)[k] = h[k]
    BY <2>1, HouseKeys
  <2> HIDE DEF h
  <2> QED BY <1>4, <1>5, <2>2 DEF Improves, g, W
<1> QED BY <1>6, <1>7 DEF StoreWrites, W, after, stored, v

LEMMA NothingImproves ==
  ASSUME SearchInv, NEW p \in Server
  PROVE  Improves(p, NoWrites)
<1>1. \A k \in Title \cup Entity : Over(NoWrites, View(p))[k] = View(p)[k]
  BY HouseKeys, Writes
<1>2. Summarized(View(p)) /\ Grows(View(p), View(p))
  BY DEF SearchInv, Grows
<1> QED BY <1>1, <1>2 DEF Improves

LEMMA MaintenanceImproves ==
  ASSUME SearchInv, NEW p \in Server
  PROVE  Improves(p, MaintenanceWrites(View(p)))
<1> DEFINE g == View(p)
           C == Compact(g, 2)
           h == Over(C, g)
           R == rollUpUsage(h, keepUsageSessions)
           W == MaintenanceWrites(g)
<1>1. Summarized(h) /\ Grows(g, h)
  BY CompactKeeps DEF SearchInv
<1>2. ASSUME NEW k \in Title \cup Entity PROVE R[k] = Same
  <2>1. k \in Key /\ k # UsageTotal /\ \A s \in Session : SessionKey[s] # k
    BY HouseKeys
  <2> HIDE DEF h
  <2>2. Old(h, keepUsageSessions) \subseteq Session
    BY DEF Old, Sessions
  <2> QED BY <2>1, <2>2, Writes DEF rollUpUsage
<1>3. W = Over(R, C)
  BY DEF MaintenanceWrites
<1> HIDE DEF W, R, C, g
<1>4. \A k \in Title \cup Entity : Over(W, g)[k] = h[k]
  <2>1. \A k \in Title \cup Entity : k \in Key
    BY HouseKeys
  <2> QED BY <1>2, <1>3, <2>1, Writes
<1> HIDE DEF h
<1> QED BY <1>1, <1>4 DEF Improves, g, W

LEMMA FlushImproves ==
  ASSUME NEW p \in Server, session[p] \in Session, NEW count \in Nat, NEW W, Improves(p, W)
  PROVE  Improves(p, Over(FlushUsage(p, count), W))
<1>1. PICK h : Summarized(h) /\ Grows(View(p), h) /\ \A k \in Title \cup Entity : Over(W, View(p))[k] = h[k]
  BY DEF Improves
<1> DEFINE U == Over(FlushUsage(p, count), W)
<1>2. \A k \in Title \cup Entity : U[k] = W[k]
  BY FlushAside
<1> HIDE DEF U
<1>3. \A k \in Title \cup Entity : Over(U, View(p))[k] = Over(W, View(p))[k]
  BY <1>2, HouseKeys, Writes
<1>4. \A k \in Title \cup Entity : Over(U, View(p))[k] = h[k]
  BY <1>1, <1>3
<1> QED BY <1>1, <1>4 DEF Improves, U

-----------------------------------------------------------------------------
(* Usage.                                                                  *)

\* The counters of a graph: the sessions are the current one and earlier ones, the current
\* one has no more than the process recorded, and what others recorded leaves room for it.
Tallied(g, cur, count, all) ==
  /\ TotalOf(g) \in Nat /\ Counts(g, SessionKey, Sessions(g))
  /\ \A s \in Sessions(g) : s <= cur
  /\ cur \in Sessions(g) => g[SessionKey[cur]] <= count
  /\ TotalOf(g) + SumOf(g, SessionKey, Sessions(g) \ {cur}) + count <= all

UsageInv ==
  /\ DOMAIN journal = Server
  /\ session \in [Server -> Session] /\ byTool \in [Server -> Nat] /\ calls \in Nat
  /\ \A p \in Server : /\ Tallied(file, session[p], byTool[p], calls)
                       /\ Tallied(View(p), session[p], byTool[p], calls)
                       /\ summarizeUsage(file) <= summarizeUsage(View(p))

\* What a graph counts: the old total, the earlier sessions, and the current one.
Mine(g, cur) == IF cur \in Sessions(g) THEN g[SessionKey[cur]] ELSE 0
Others(g, cur) == SumOf(g, SessionKey, Sessions(g) \ {cur})
LEMMA UsageParts ==
  ASSUME NEW g, NEW cur \in Session, NEW count \in Nat, NEW all \in Nat, Tallied(g, cur, count, all)
  PROVE  /\ summarizeUsage(g) = TotalOf(g) + Others(g, cur) + Mine(g, cur)
         /\ TotalOf(g) \in Nat /\ Others(g, cur) \in Nat /\ Mine(g, cur) \in 0..count
         /\ summarizeUsage(g) \in 0..all
<1> DEFINE S == Sessions(g)
<1>1. IsFiniteSet(S) /\ IsFiniteSet(S \ {cur}) /\ Counts(g, SessionKey, S) /\ Counts(g, SessionKey, S \ {cur})
  <2>1. S \subseteq Session /\ S \ {cur} \subseteq Session
    BY DEF Sessions
  <2>2. IsFiniteSet(Session)
    BY HousekeepingAssumption
  <2>3. Counts(g, SessionKey, S)
    BY DEF Tallied
  <2> QED BY <2>1, <2>2, <2>3, FS_Subset DEF Counts
<1>2. Others(g, cur) \in Nat
  BY <1>1, SumType DEF Others
<1>3. SumOf(g, SessionKey, S) = Others(g, cur) + Mine(g, cur)
  <2>1. CASE cur \in S
    <3> HIDE DEF S
    <3>1. SumOf(g, SessionKey, S) = g[SessionKey[cur]] + SumOf(g, SessionKey, S \ {cur})
      BY <1>1, <2>1, SumRemove
    <3>2. g[SessionKey[cur]] \in Nat
      BY <1>1, <2>1 DEF Counts
    <3> QED BY <1>2, <2>1, <3>1, <3>2 DEF Others, Mine, S
  <2>2. CASE cur \notin S
    <3>1. S \ {cur} = S
      BY <2>2
    <3>2. Mine(g, cur) = 0 /\ Others(g, cur) = SumOf(g, SessionKey, S)
      BY <2>2, <3>1 DEF Others, Mine
    <3> HIDE DEF S
    <3> QED BY <1>2, <3>2
  <2> QED BY <2>1, <2>2
<1>4. TotalOf(g) \in Nat /\ Mine(g, cur) \in 0..count
  BY <1>1 DEF Tallied, Mine, Counts
<1>5. summarizeUsage(g) = TotalOf(g) + SumOf(g, SessionKey, S)
  BY DEF summarizeUsage, Counted, SumOf
<1>6. TotalOf(g) + Others(g, cur) + count <= all
  BY DEF Tallied, Others
<1> HIDE DEF S
<1> QED BY <1>2, <1>3, <1>4, <1>5, <1>6

\* A later process counts from nothing.
LEMMA TallyNext ==
  ASSUME NEW g, NEW cur \in Session, NEW next \in Session, next > cur,
         NEW count \in Nat, NEW all \in Nat, Tallied(g, cur, count, all)
  PROVE  Tallied(g, next, 0, all)
<1>1. cur \in Nat /\ next \in Nat /\ Sessions(g) \subseteq Session /\ Session \subseteq Nat
  BY HousekeepingAssumption DEF Sessions
<1>2. next \notin Sessions(g)
  BY <1>1 DEF Tallied
<1>3. Sessions(g) \ {next} = Sessions(g)
  BY <1>2
<1>4. TotalOf(g) + SumOf(g, SessionKey, Sessions(g)) <= all
  <2>1. summarizeUsage(g) = TotalOf(g) + SumOf(g, SessionKey, Sessions(g))
    BY DEF summarizeUsage, Counted, SumOf
  <2>2. summarizeUsage(g) \in 0..all
    BY UsageParts
  <2> QED BY <2>1, <2>2
<1>5. TotalOf(g) \in Nat /\ SumOf(g, SessionKey, Sessions(g)) \in Nat
  <2>1. IsFiniteSet(Sessions(g))
    BY <1>1, HousekeepingAssumption, FS_Subset
  <2> QED BY <2>1, SumType DEF Tallied
<1>6. ASSUME NEW s \in Sessions(g) PROVE s <= next
  <2>1. s <= cur /\ s \in Nat
    BY <1>1 DEF Tallied
  <2> QED BY <1>1, <2>1
<1>7. TotalOf(g) + SumOf(g, SessionKey, Sessions(g)) + 0 <= all
  BY <1>4, <1>5
<1>8. TotalOf(g) \in Nat /\ Counts(g, SessionKey, Sessions(g))
  BY DEF Tallied
<1> QED BY <1>2, <1>3, <1>6, <1>7, <1>8 DEF Tallied

\* What a step does to the counters of p's graph: old sessions move to the total, and
\* the current one may be flushed.
Moves(g, h, cur, old, count) ==
  /\ old \subseteq Sessions(g) \ {cur}
  /\ TotalOf(h) = TotalOf(g) + SumOf(g, SessionKey, old)
  /\ \A s \in Session \ {cur} : h[SessionKey[s]] = IF s \in old THEN None ELSE g[SessionKey[s]]
  /\ h[SessionKey[cur]] \in {count, g[SessionKey[cur]]}

LEMMA MovesKeep ==
  ASSUME NEW g, NEW h, NEW cur \in Session, NEW old, NEW was \in Nat, NEW count \in Nat, was <= count,
         NEW all \in Nat, Tallied(g, cur, was, all), Moves(g, h, cur, old, count)
  PROVE  Tallied(h, cur, count, all + (count - was)) /\ summarizeUsage(g) <= summarizeUsage(h)
<1> DEFINE S == Sessions(g) \ {cur}
           T == Sessions(h) \ {cur}
<1>1. IsFiniteSet(S) /\ Counts(g, SessionKey, S) /\ S \subseteq Session
  <2>1. S \subseteq Session
    BY DEF Sessions
  <2> QED BY <2>1, HousekeepingAssumption, FS_Subset DEF Tallied, Counts
<1>2. T = S \ old /\ \A s \in T : g[SessionKey[s]] = h[SessionKey[s]]
  BY DEF Moves, Sessions
<1>3. IsFiniteSet(T) /\ Counts(g, SessionKey, T) /\ IsFiniteSet(old) /\ Counts(g, SessionKey, old) /\ old \in SUBSET S
  <2>1. T \subseteq S /\ old \subseteq S
    BY <1>2 DEF Moves
  <2> QED BY <1>1, <2>1, FS_Subset DEF Counts
<1>4. SumOf(g, SessionKey, T) = SumOf(h, SessionKey, T)
  <2> HIDE DEF T
  <2> QED BY <1>2, <1>3, SameSums
<1>5. SumOf(g, SessionKey, S) = SumOf(g, SessionKey, old) + SumOf(g, SessionKey, T)
  <2> HIDE DEF S, T
  <2> QED BY <1>1, <1>2, <1>3, SumSplit
<1>6. SumOf(g, SessionKey, old) \in Nat /\ SumOf(g, SessionKey, T) \in Nat /\ TotalOf(g) \in Nat
  <2> HIDE DEF S, T
  <2> QED BY <1>3, SumType DEF Tallied
<1>7. TotalOf(h) \in Nat /\ TotalOf(h) + Others(h, cur) = TotalOf(g) + Others(g, cur)
  <2>1. TotalOf(h) = TotalOf(g) + SumOf(g, SessionKey, old)
    BY DEF Moves
  <2>2. Others(h, cur) = SumOf(h, SessionKey, T) /\ Others(g, cur) = SumOf(g, SessionKey, S)
    BY DEF Others
  <2> HIDE DEF S, T
  <2> QED BY <1>4, <1>5, <1>6, <2>1, <2>2
<1>8. Others(h, cur) \in Nat
  <2>1. Others(h, cur) = SumOf(h, SessionKey, T)
    BY DEF Others
  <2> HIDE DEF T
  <2> QED BY <1>4, <1>6, <2>1
<1>9. Mine(g, cur) \in 0..was /\ summarizeUsage(g) = TotalOf(g) + Others(g, cur) + Mine(g, cur)
      /\ Others(g, cur) \in Nat
  BY UsageParts
<1>10. Mine(h, cur) \in Mine(g, cur)..count /\ (cur \in Sessions(h) => h[SessionKey[cur]] = Mine(h, cur))
  <2>1. CASE h[SessionKey[cur]] = count
    <3>1. count # None
      BY HouseKeys
    <3>2. Mine(h, cur) = count
      BY <2>1, <3>1 DEF Mine, Sessions
    <3>3. cur \in Sessions(h) => h[SessionKey[cur]] = Mine(h, cur)
      BY DEF Mine
    <3> QED BY <1>9, <3>2, <3>3
  <2>2. CASE h[SessionKey[cur]] = g[SessionKey[cur]]
    <3>1. Mine(h, cur) = Mine(g, cur)
      BY <2>2 DEF Mine, Sessions
    <3>2. cur \in Sessions(h) => h[SessionKey[cur]] = Mine(h, cur)
      BY DEF Mine
    <3> QED BY <1>9, <3>1, <3>2
  <2> QED BY <2>1, <2>2 DEF Moves
<1>11. Counts(h, SessionKey, Sessions(h))
  <2>1. \A s \in T : h[SessionKey[s]] \in Nat
    BY <1>2, <1>3 DEF Counts
  <2>2. cur \in Sessions(h) => h[SessionKey[cur]] \in Nat
    BY <1>9, <1>10
  <2> QED BY <2>1, <2>2 DEF Counts
<1>12. \A s \in Sessions(h) : s <= cur
  <2>1. \A s \in T : s <= cur
    BY <1>2 DEF Tallied
  <2>2. cur \in Nat
    BY HousekeepingAssumption
  <2>3. cur <= cur
    BY <2>2
  <2> QED BY <2>1, <2>3
<1>13. TotalOf(g) + Others(g, cur) + was <= all
  BY DEF Tallied, Others
<1>14. TotalOf(h) + Others(h, cur) + count <= all + (count - was)
  BY <1>6, <1>7, <1>8, <1>9, <1>13
<1>15. cur \in Sessions(h) => h[SessionKey[cur]] <= count
  BY <1>9, <1>10
<1>16. all + (count - was) \in Nat
  OBVIOUS
<1>17. Tallied(h, cur, count, all + (count - was))
  BY <1>7, <1>11, <1>12, <1>14, <1>15 DEF Tallied, Others
<1>18. summarizeUsage(h) = TotalOf(h) + Others(h, cur) + Mine(h, cur)
  BY <1>16, <1>17, UsageParts
<1>19. summarizeUsage(g) <= summarizeUsage(h)
  BY <1>6, <1>7, <1>8, <1>9, <1>10, <1>18
<1> QED BY <1>17, <1>19


\* The counters are compared where they are.
LEMMA SameCounters ==
  ASSUME NEW g, NEW h, NEW cur \in Session, NEW count \in Nat, NEW all \in Nat,
         Tallied(g, cur, count, all),
         h[UsageTotal] = g[UsageTotal], \A s \in Session : h[SessionKey[s]] = g[SessionKey[s]]
  PROVE  Tallied(h, cur, count, all) /\ summarizeUsage(h) = summarizeUsage(g) /\ Sessions(h) = Sessions(g)
<1>1. Sessions(h) = Sessions(g) /\ TotalOf(h) = TotalOf(g) /\ Sessions(g) \subseteq Session
  BY DEF Sessions, TotalOf
<1>2. Counts(g, SessionKey, Sessions(g)) /\ Counts(h, SessionKey, Sessions(g))
  BY <1>1 DEF Tallied, Counts
<1>3. \A S \in SUBSET Sessions(g) : SumOf(h, SessionKey, S) = SumOf(g, SessionKey, S)
  <2> SUFFICES ASSUME NEW S \in SUBSET Sessions(g) PROVE SumOf(h, SessionKey, S) = SumOf(g, SessionKey, S)
    OBVIOUS
  <2>1. IsFiniteSet(S) /\ Counts(h, SessionKey, S) /\ \A s \in S : h[SessionKey[s]] = g[SessionKey[s]]
    BY <1>1, <1>2, HousekeepingAssumption, FS_Subset DEF Counts
  <2> QED BY <2>1, SameSums
<1>4. summarizeUsage(h) = TotalOf(h) + SumOf(h, SessionKey, Sessions(h))
      /\ summarizeUsage(g) = TotalOf(g) + SumOf(g, SessionKey, Sessions(g))
  BY DEF summarizeUsage, Counted, SumOf
<1>5. summarizeUsage(h) = summarizeUsage(g)
  BY <1>1, <1>3, <1>4
<1>6. SumOf(h, SessionKey, Sessions(h) \ {cur}) = SumOf(g, SessionKey, Sessions(g) \ {cur})
  <2>1. Sessions(g) \ {cur} \in SUBSET Sessions(g)
    OBVIOUS
  <2> QED BY <1>1, <1>3, <2>1
<1>7. cur \in Sessions(h) => h[SessionKey[cur]] <= count
  BY <1>1 DEF Tallied
<1>8. Tallied(h, cur, count, all)
  BY <1>1, <1>2, <1>6, <1>7 DEF Tallied
<1> QED BY <1>1, <1>5, <1>8

-----------------------------------------------------------------------------
(* The steps that count.                                                   *)

\* A call of p that moves old counters to the total, and may flush count for its session.
Tallies(p, W, count) ==
  \E old, h : /\ Moves(View(p), h, session[p], old, count)
              /\ h[UsageTotal] = Over(W, View(p))[UsageTotal]
              /\ \A s \in Session : h[SessionKey[s]] = Over(W, View(p))[SessionKey[s]]

LEMMA TalliesKeeps ==
  ASSUME UsageInv, OneServer, NEW p \in Server, NEW W, NEW count \in Nat, Tallies(p, W, count),
         byTool[p] <= count, Handle(p, W, None), session' = session,
         byTool' = [byTool EXCEPT ![p] = count], calls' = calls + (count - byTool[p])
  PROVE  UsageInv'
<1> DEFINE cur == session[p]  was == byTool[p]
<1>1. PICK old, h : /\ Moves(View(p), h, cur, old, count)
                    /\ h[UsageTotal] = Over(W, View(p))[UsageTotal]
                    /\ \A s \in Session : h[SessionKey[s]] = Over(W, View(p))[SessionKey[s]]
  BY DEF Tallies
<1>2. DOMAIN journal' = Server /\ file' = file /\ \A k \in Key : View(p)'[k] = Over(W, View(p))[k]
  BY WritesSeen, Writes DEF UsageInv
<1>3. cur \in Session /\ was \in Nat /\ calls \in Nat /\ calls' \in Nat
  BY DEF UsageInv
<1>4. Tallied(h, cur, count, calls') /\ summarizeUsage(View(p)) <= summarizeUsage(h)
  <2>1. Tallied(View(p), cur, was, calls)
    BY DEF UsageInv
  <2> HIDE DEF cur, was
  <2> QED BY <1>1, <1>3, <2>1, MovesKeep DEF was
<1>5. View(p)'[UsageTotal] = h[UsageTotal] /\ \A s \in Session : View(p)'[SessionKey[s]] = h[SessionKey[s]]
  BY <1>1, <1>2, HouseKeys
<1>6. Tallied(View(p)', cur, count, calls') /\ summarizeUsage(View(p)') = summarizeUsage(h)
  <2> HIDE DEF cur
  <2> QED BY <1>3, <1>4, <1>5, SameCounters
<1>7. Tallied(file, cur, count, calls')
  <2>1. Tallied(file, cur, was, calls)
    BY DEF UsageInv
  <2>2. TotalOf(file) \in Nat /\ Others(file, cur) \in Nat /\ Mine(file, cur) \in 0..was
    <3> HIDE DEF cur, was
    <3> QED BY <1>3, <2>1, UsageParts
  <2>3. TotalOf(file) + Others(file, cur) + was <= calls
    BY <2>1 DEF Tallied, Others
  <2>4. TotalOf(file) + Others(file, cur) + count <= calls'
    BY <1>3, <2>2, <2>3
  <2>5. cur \in Sessions(file) => file[SessionKey[cur]] <= count
    BY <1>3, <2>2 DEF Mine
  <2> HIDE DEF cur, was
  <2> QED BY <2>1, <2>4, <2>5 DEF Tallied, Others
<1>8. summarizeUsage(file) <= summarizeUsage(View(p)')
  <2>1. summarizeUsage(file) <= summarizeUsage(View(p))
    BY DEF UsageInv
  <2>2. Tallied(View(p), cur, was, calls) /\ Tallied(file, cur, was, calls)
    BY DEF UsageInv
  <2>3. summarizeUsage(View(p)) \in Nat /\ summarizeUsage(file) \in Nat /\ summarizeUsage(h) \in Nat
    <3> HIDE DEF cur, was
    <3>1. summarizeUsage(View(p)) \in 0..calls
      BY <1>3, <2>2, UsageParts
    <3>2. summarizeUsage(file) \in 0..calls
      BY <1>3, <2>2, UsageParts
    <3>3. summarizeUsage(h) \in 0..calls'
      BY <1>3, <1>4, UsageParts
    <3> QED BY <3>1, <3>2, <3>3
  <2> QED BY <1>4, <1>6, <2>1, <2>3
<1>9. \A q \in Server : q = p
  BY DEF OneServer
<1>10. session' \in [Server -> Session] /\ byTool' \in [Server -> Nat] /\ byTool'[p] = count /\ session'[p] = cur
  BY DEF UsageInv
<1> QED BY <1>2, <1>3, <1>6, <1>7, <1>8, <1>9, <1>10 DEF UsageInv

\* Writes of memories and summaries count nothing; a flush writes the session's counter.
Uncounted(W) == W[UsageTotal] = Same /\ \A s \in Session : W[SessionKey[s]] = Same
LEMMA UncountedTallies ==
  ASSUME UsageInv, NEW p \in Server, NEW W, Uncounted(W), NEW count \in Nat
  PROVE  Tallies(p, W, count) /\ Tallies(p, Over(FlushUsage(p, count), W), count)
<1> DEFINE g == View(p)
           cur == session[p]
           F == FlushUsage(p, count)
           U == Over(F, W)
           h == Over(U, g)
<1>1. cur \in Session
  BY DEF UsageInv
<1>2. /\ \A k \in Key : F[k] = IF k = SessionKey[cur] THEN count ELSE Same
      /\ SessionKey[cur] \in Key /\ SessionKey[cur] # UsageTotal /\ UsageTotal \in Key
      /\ \A s \in Session : SessionKey[s] \in Key /\ (SessionKey[s] = SessionKey[cur] => s = cur)
  BY <1>1, HouseKeys, Writes DEF FlushUsage
<1>3. count # Same
  BY HouseKeys
<1>4. SumOf(g, SessionKey, {}) = 0
  BY SumEmpty
<1>5. TotalOf(g) \in Nat
  BY DEF UsageInv, Tallied
<1> HIDE DEF F, g, cur
<1>6. /\ h[UsageTotal] = g[UsageTotal] /\ h[SessionKey[cur]] = count
      /\ \A s \in Session \ {cur} : h[SessionKey[s]] = g[SessionKey[s]]
  BY <1>1, <1>2, <1>3, Writes DEF Uncounted
<1>7. /\ Over(W, g)[UsageTotal] = g[UsageTotal]
      /\ \A s \in Session : Over(W, g)[SessionKey[s]] = g[SessionKey[s]]
  BY <1>2, Writes DEF Uncounted
<1>8. Moves(g, h, cur, {}, count)
  <2> HIDE DEF h
  <2> QED BY <1>4, <1>5, <1>6 DEF Moves, TotalOf
<1>9. Moves(g, Over(W, g), cur, {}, count)
  BY <1>1, <1>4, <1>5, <1>7 DEF Moves, TotalOf
<1>10. Tallies(p, U, count)
  <2> HIDE DEF U
  <2> QED BY <1>8 DEF Tallies, g, cur, h
<1>11. Tallies(p, W, count)
  BY <1>9 DEF Tallies, g, cur
<1> QED BY <1>10, <1>11 DEF U, F

LEMMA CompactUncounted ==
  ASSUME NEW g, NEW m
  PROVE  Uncounted(Compact(g, m))
<1>1. \A k \in Key \ (Title \cup Entity) : Compact(g, m)[k] = Same
  BY HouseKeys DEF Compact, Linked, Active
<1> QED BY <1>1, HouseKeys DEF Uncounted

LEMMA StoreUncounted ==
  ASSUME NEW g, NEW t \in Title, NEW lines, NEW e
  PROVE  Uncounted(StoreWrites(g, t, lines, e))
<1> DEFINE v == [lines |-> lines, entity |-> e, archived |-> FALSE]
           stored == Write(t, v)
           after == Over(stored, g)
<1>1. Uncounted(stored)
  <2> HIDE DEF v
  <2> QED BY HouseKeys, Writes DEF Uncounted
<1>2. Uncounted(Compact(after, 2))
  BY CompactUncounted
<1> HIDE DEF stored, after
<1>3. Uncounted(Over(Compact(after, 2), stored))
  BY <1>1, <1>2, HouseKeys, Writes DEF Uncounted
<1> QED BY <1>1, <1>3 DEF StoreWrites, stored, after, v

\* The pass moves all but the newest sessions, and the current one is the newest.
LEMMA MaintenanceTallies ==
  ASSUME UsageInv, NEW p \in Server
  PROVE  Tallies(p, Over(FlushUsage(p, byTool[p]), MaintenanceWrites(View(p))), byTool[p])
<1> DEFINE g == View(p)
           cur == session[p]
           count == byTool[p]
           C == Compact(g, 2)
           u == Over(C, g)
           old == Old(u, keepUsageSessions)
           R == rollUpUsage(u, keepUsageSessions)
           F == FlushUsage(p, count)
           M == MaintenanceWrites(g)
           W == Over(F, M)
           h == Over(W, g)
<1>1. cur \in Session /\ count \in Nat /\ calls \in Nat /\ Tallied(g, cur, count, calls)
  BY DEF UsageInv
<1>2. M = Over(R, C)
  BY DEF MaintenanceWrites
<1>3. Uncounted(C)
  BY CompactUncounted
<1> HIDE DEF g, cur, count, C
<1>4. u[UsageTotal] = g[UsageTotal] /\ \A s \in Session : u[SessionKey[s]] = g[SessionKey[s]]
  BY <1>3, HouseKeys, Writes DEF Uncounted
<1> HIDE DEF u
<1>5. Sessions(u) = Sessions(g) /\ TotalOf(u) = TotalOf(g) /\ Sessions(g) \subseteq Session
  BY <1>4 DEF Sessions, TotalOf
<1>6. old \subseteq Sessions(g) \ {cur}
  <2>1. cur \notin old
    <3>1. {n \in Sessions(u) : n > cur} = {}
      <4>1. ASSUME NEW n \in Sessions(u) PROVE ~ (n > cur)
        <5>1. n <= cur /\ n \in Nat /\ cur \in Nat
          BY <1>1, <1>5, HousekeepingAssumption DEF Tallied
        <5> QED BY <5>1
      <4> QED BY <4>1
    <3>2. Cardinality({n \in Sessions(u) : n > cur}) = 0
      BY <3>1, FS_EmptySet
    <3>3. ~ (0 >= keepUsageSessions)
      BY HousekeepingAssumption
    <3> QED BY <3>2, <3>3 DEF Old
  <2> QED BY <1>5, <2>1 DEF Old
<1>7. SumOf(u, SessionKey, old) = SumOf(g, SessionKey, old) /\ SumOf(g, SessionKey, old) \in Nat
  <2>1. IsFiniteSet(old) /\ Counts(g, SessionKey, old) /\ Counts(u, SessionKey, old)
        /\ \A s \in old : u[SessionKey[s]] = g[SessionKey[s]]
    <3>1. old \subseteq Session /\ old \subseteq Sessions(g)
      BY <1>5, <1>6
    <3>2. Counts(g, SessionKey, Sessions(g))
      BY <1>1 DEF Tallied
    <3> HIDE DEF old
    <3> QED BY <1>4, <3>1, <3>2, HousekeepingAssumption, FS_Subset DEF Counts
  <2> HIDE DEF old
  <2> QED BY <2>1, SameSums, SumType
<1>8. TotalOf(g) \in Nat
  BY <1>1 DEF Tallied
<1>9. R[UsageTotal] = IF old = {} THEN Same ELSE TotalOf(g) + SumOf(g, SessionKey, old)
  <2> DEFINE sum == TotalOf(u) + Counted(u, old)
  <2>3. UsageTotal \in Key /\ UsageTotal \notin {SessionKey[s] : s \in old}
    <3>1. old \subseteq Session
      BY <1>5, <1>6
    <3> HIDE DEF old
    <3> QED BY <3>1, HouseKeys
  <2>4. R = IF old = {} THEN NoWrites
            ELSE [k \in Key |-> CASE k = UsageTotal -> sum
                                  [] k \in {SessionKey[s] : s \in old} -> None
                                  [] OTHER -> Same]
    BY DEF rollUpUsage
  <2>1. R[UsageTotal] = IF old = {} THEN Same ELSE sum
    <3> HIDE DEF R, old, sum
    <3> QED BY <2>3, <2>4, Writes
  <2>2. Counted(u, old) = SumOf(u, SessionKey, old)
    BY DEF Counted, SumOf
  <2> HIDE DEF R, old
  <2> QED BY <1>5, <1>7, <2>1, <2>2
<1>10. ASSUME NEW s \in Session PROVE R[SessionKey[s]] = IF s \in old THEN None ELSE Same
  <2>1. SessionKey[s] \in Key /\ SessionKey[s] # UsageTotal
        /\ \A n \in Session : SessionKey[s] = SessionKey[n] => s = n
    BY HouseKeys
  <2>2. old \subseteq Session
    BY <1>5, <1>6
  <2>3. SessionKey[s] \in {SessionKey[n] : n \in old} <=> s \in old
    <3> HIDE DEF old
    <3> QED BY <2>1, <2>2
  <2> QED BY <2>1, <2>3, Writes DEF rollUpUsage
<1> HIDE DEF R, old, M
<1>11. /\ \A k \in Key : F[k] = IF k = SessionKey[cur] THEN count ELSE Same
       /\ SessionKey[cur] \in Key /\ SessionKey[cur] # UsageTotal /\ UsageTotal \in Key
       /\ \A s \in Session : SessionKey[s] \in Key /\ (SessionKey[s] = SessionKey[cur] => s = cur)
  BY <1>1, HouseKeys, Writes DEF FlushUsage, cur
<1> HIDE DEF F
<1>12. count # Same
  BY <1>1, HouseKeys
<1>13. h[SessionKey[cur]] = count
  BY <1>11, <1>12, Writes
<1>14. \A s \in Session \ {cur} : h[SessionKey[s]] = IF s \in old THEN None ELSE g[SessionKey[s]]
  <2> SUFFICES ASSUME NEW s \in Session \ {cur}
               PROVE  h[SessionKey[s]] = IF s \in old THEN None ELSE g[SessionKey[s]]
    OBVIOUS
  <2>1. SessionKey[s] \in Key /\ F[SessionKey[s]] = Same
    BY <1>11
  <2>2. C[SessionKey[s]] = Same /\ None # Same
    BY <1>3 DEF Uncounted
  <2>3. R[SessionKey[s]] = IF s \in old THEN None ELSE Same
    BY <1>10
  <2>4. M[SessionKey[s]] = IF s \in old THEN None ELSE Same
    BY <1>2, <2>1, <2>2, <2>3, Writes
  <2>5. W[SessionKey[s]] = IF s \in old THEN None ELSE Same
    BY <2>1, <2>4, Writes
  <2> HIDE DEF W
  <2> QED BY <2>1, <2>2, <2>5, Writes
<1>15. h[UsageTotal] = IF old = {} THEN g[UsageTotal] ELSE TotalOf(g) + SumOf(g, SessionKey, old)
  <2> DEFINE sum == TotalOf(g) + SumOf(g, SessionKey, old)
  <2>1. sum # Same
    <3>1. sum \in Nat
      BY <1>7, <1>8
    <3> QED BY <3>1, HouseKeys
  <2> HIDE DEF sum
  <2>2. M[UsageTotal] = IF old = {} THEN Same ELSE sum
    BY <1>2, <1>3, <1>9, <1>11, <2>1, Writes DEF Uncounted, sum
  <2>3. W[UsageTotal] = IF old = {} THEN Same ELSE sum
    BY <1>11, <2>2, Writes
  <2> HIDE DEF W
  <2>4. h[UsageTotal] = IF old = {} THEN g[UsageTotal] ELSE sum
    BY <1>11, <2>1, <2>3, Writes
  <2> QED BY <2>4 DEF sum
<1> HIDE DEF h
<1>16. TotalOf(h) = TotalOf(g) + SumOf(g, SessionKey, old)
  <2>1. CASE old = {}
    <3>1. SumOf(g, SessionKey, old) = 0
      BY <2>1, SumEmpty
    <3>2. TotalOf(h) = TotalOf(g)
      BY <1>15, <2>1 DEF TotalOf
    <3> QED BY <1>8, <3>1, <3>2
  <2>2. CASE old # {}
    <3>1. h[UsageTotal] = TotalOf(g) + SumOf(g, SessionKey, old)
      BY <1>15, <2>2
    <3>2. h[UsageTotal] \in Nat
      BY <1>7, <1>8, <3>1
    <3>3. h[UsageTotal] # None
      BY <3>2, HouseKeys
    <3> QED BY <3>1, <3>3 DEF TotalOf
  <2> QED BY <2>1, <2>2
<1>17. Moves(g, h, cur, old, count)
  BY <1>6, <1>13, <1>14, <1>16 DEF Moves
<1> HIDE DEF W
<1>18. Tallies(p, W, count)
  BY <1>17 DEF Tallies, g, cur, h
<1> QED BY <1>18 DEF W, F, M, count, g


-----------------------------------------------------------------------------
(* The steps of the server.                                                *)

LEMMA HouseStarts == HouseInit => SearchInv /\ UsageInv
<1> SUFFICES ASSUME HouseInit PROVE SearchInv /\ UsageInv
  OBVIOUS
<1>1. /\ DOMAIN journal = Server /\ file = [k \in Key |-> None] /\ \A p \in Server : journal[p] = NoWrites
      /\ session \in [Server -> Session] /\ byTool = [p \in Server |-> 0] /\ calls = 0
  BY DEF HouseInit, ServerInit
<1>2. \A k \in Key : file[k] = None /\ \A p \in Server : View(p)[k] = None
  BY <1>1, Writes DEF View
<1>3. ASSUME NEW g, \A k \in Key : g[k] = None
      PROVE  Summarized(g) /\ (\A h : Grows(g, h)) /\ summarizeUsage(g) = 0
             /\ \A cur \in Session : Tallied(g, cur, 0, 0)
  <2>1. Summarized(g) /\ \A h : Grows(g, h)
    BY <1>3, HouseKeys DEF Summarized, Grows
  <2>2. Sessions(g) = {} /\ TotalOf(g) = 0 /\ SumOf(g, SessionKey, {}) = 0
    BY <1>3, HouseKeys, SumEmpty DEF Sessions, TotalOf
  <2>3. summarizeUsage(g) = TotalOf(g) + SumOf(g, SessionKey, Sessions(g))
    BY DEF summarizeUsage, Counted, SumOf
  <2>4. \A cur \in Session : {} \ {cur} = {}
    OBVIOUS
  <2>5. \A cur \in Session : Tallied(g, cur, 0, 0)
    BY <2>2, <2>4 DEF Tallied, Counts
  <2> QED BY <2>1, <2>2, <2>3, <2>5
<1>4. SearchInv
  BY <1>1, <1>2, <1>3 DEF SearchInv
<1>5. \A p \in Server : byTool[p] = 0 /\ session[p] \in Session
  BY <1>1
<1>6. UsageInv
  BY <1>1, <1>2, <1>3, <1>5 DEF UsageInv
<1> QED BY <1>4, <1>6

LEMMA RecordedCall ==
  ASSUME SearchInv, UsageInv, OneServer, NEW p \in Server, NEW writes, NEW flushes \in BOOLEAN,
         Improves(p, writes), Uncounted(writes), ToolCall(p, writes, flushes)
  PROVE  SearchInv' /\ UsageInv'
<1> DEFINE count == byTool[p] + 1
           F == FlushUsage(p, count)
           W == IF flushes THEN Over(F, writes) ELSE writes
<1>1. Handle(p, W, None) /\ session' = session /\ calls' = calls + 1 /\ byTool' = [byTool EXCEPT ![p] = count]
  BY DEF ToolCall, Record, UsageInv
<1>2. session[p] \in Session /\ byTool[p] \in Nat /\ count \in Nat /\ byTool[p] <= count
      /\ calls' = calls + (count - byTool[p])
  <2>1. session[p] \in Session /\ byTool[p] \in Nat /\ calls \in Nat
    BY DEF UsageInv
  <2> QED BY <1>1, <2>1
<1> HIDE DEF count
<1>3. Improves(p, W) /\ Tallies(p, W, count)
  BY <1>2, FlushImproves, UncountedTallies
<1> HIDE DEF W
<1> QED BY <1>1, <1>2, <1>3, ImprovesKeeps, TalliesKeeps

LEMMA HouseCallKeeps ==
  ASSUME SearchInv, UsageInv, OneServer, NEW p \in Server,
         StoreMemory(p) \/ ReadCall(p) \/ RunMaintenanceNow(p)
  PROVE  SearchInv' /\ UsageInv'
<1>1. ASSUME NEW t \in Title, NEW lines \in (SUBSET MemLine) \ {{}}, NEW e \in Entity \cup {NoEntity},
             NEW flushes \in BOOLEAN, ToolCall(p, StoreWrites(View(p), t, lines, e), flushes)
      PROVE  SearchInv' /\ UsageInv'
  BY <1>1, StoreImproves, StoreUncounted, RecordedCall
<1>2. ASSUME NEW flushes \in BOOLEAN, ToolCall(p, NoWrites, flushes)
      PROVE  SearchInv' /\ UsageInv'
  <2>1. Uncounted(NoWrites)
    BY HouseKeys, Writes DEF Uncounted
  <2> QED BY <1>2, <2>1, NothingImproves, RecordedCall
<1>3. ASSUME RunMaintenanceNow(p) PROVE SearchInv' /\ UsageInv'
  <2> DEFINE M == MaintenanceWrites(View(p))
             W == Over(FlushUsage(p, byTool[p]), M)
  <2>1. Handle(p, W, None) /\ UNCHANGED usageVars
    BY <1>3 DEF RunMaintenanceNow
  <2>2. session[p] \in Session /\ byTool[p] \in Nat /\ calls \in Nat
    BY DEF UsageInv
  <2>3. Improves(p, M)
    BY MaintenanceImproves
  <2>4. Tallies(p, W, byTool[p])
    BY MaintenanceTallies
  <2> HIDE DEF M
  <2>5. Improves(p, W)
    BY <2>2, <2>3, FlushImproves
  <2> HIDE DEF W
  <2>6. /\ session' = session /\ byTool[p] <= byTool[p]
        /\ byTool' = [byTool EXCEPT ![p] = byTool[p]] /\ calls' = calls + (byTool[p] - byTool[p])
    BY <2>1, <2>2 DEF usageVars, UsageInv
  <2> QED BY <2>1, <2>2, <2>4, <2>5, <2>6, ImprovesKeeps, TalliesKeeps
<1> QED BY <1>1, <1>2, <1>3 DEF StoreMemory, ReadCall

\* After a save, and after a kill, the call's graph is the file.
LEMMA SettledAgrees ==
  ASSUME DOMAIN journal = Server, NEW p \in Server, Save(p) \/ Killed(p)
  PROVE  DOMAIN journal' = Server /\ \A k \in Key : View(p)'[k] = file'[k]
BY Writes DEF Save, Killed, View

LEMMA AgreedSearch ==
  ASSUME OneServer, NEW p \in Server, DOMAIN journal' = Server,
         Summarized(file'), \A k \in Key : View(p)'[k] = file'[k]
  PROVE  SearchInv'
<1>1. \A k \in Title \cup Entity : file'[k] = View(p)'[k]
  BY HouseKeys
<1>2. Grows(file', file')
  BY DEF Grows
<1>3. Summarized(View(p)') /\ Grows(file', View(p)')
  BY <1>1, <1>2, SameMemories
<1> QED BY <1>3 DEF SearchInv, OneServer

LEMMA AgreedUsage ==
  ASSUME OneServer, NEW p \in Server, DOMAIN journal' = Server,
         session' \in [Server -> Session], byTool' \in [Server -> Nat], calls' \in Nat,
         Tallied(file', session'[p], byTool'[p], calls'), \A k \in Key : View(p)'[k] = file'[k]
  PROVE  UsageInv'
<1>1. View(p)'[UsageTotal] = file'[UsageTotal] /\ \A s \in Session : View(p)'[SessionKey[s]] = file'[SessionKey[s]]
  BY HouseKeys
<1>2. session'[p] \in Session /\ byTool'[p] \in Nat
  OBVIOUS
<1>3. Tallied(View(p)', session'[p], byTool'[p], calls') /\ summarizeUsage(View(p)') = summarizeUsage(file')
  BY <1>1, <1>2, SameCounters
<1>4. summarizeUsage(file') \in 0..calls'
  BY <1>2, UsageParts
<1>5. \A q \in Server : q = p
  BY DEF OneServer
<1>6. summarizeUsage(file') <= summarizeUsage(View(p)')
  BY <1>3, <1>4
<1> QED BY <1>3, <1>5, <1>6 DEF UsageInv

LEMMA HouseSettles ==
  ASSUME SearchInv, UsageInv, OneServer, NEW p \in Server,
         (Save(p) \/ SaveFails(p)) /\ UNCHANGED usageVars
  PROVE  SearchInv' /\ UsageInv'
<1>1. CASE Save(p)
  <2>1. file' = View(p) /\ session' = session /\ byTool' = byTool /\ calls' = calls
    BY <1>1 DEF Save, usageVars
  <2>2. DOMAIN journal' = Server /\ \A k \in Key : View(p)'[k] = file'[k]
    BY <1>1, SettledAgrees DEF SearchInv
  <2>3. Summarized(file')
    BY <2>1 DEF SearchInv
  <2>4. SearchInv'
    BY <2>2, <2>3, AgreedSearch
  <2>5. /\ Tallied(file', session'[p], byTool'[p], calls')
        /\ session' \in [Server -> Session] /\ byTool' \in [Server -> Nat] /\ calls' \in Nat
    BY <2>1 DEF UsageInv
  <2>6. UsageInv'
    BY <2>2, <2>5, AgreedUsage
  <2> QED BY <2>4, <2>6
<1>2. CASE SaveFails(p)
  <2>1. file' = file /\ journal' = journal /\ session' = session /\ byTool' = byTool /\ calls' = calls
    BY <1>2 DEF SaveFails, usageVars
  <2>2. \A q : View(q)' = View(q)
    BY <2>1 DEF View
  <2> QED BY <2>1, <2>2 DEF SearchInv, UsageInv
<1> QED BY <1>1, <1>2

LEMMA HouseRestarts ==
  ASSUME SearchInv, UsageInv, OneServer, NEW p \in Server, Restart(p)
  PROVE  SearchInv' /\ UsageInv'
<1>1. PICK s \in Session : /\ \A q \in Server : s > session[q]
                           /\ session' = [session EXCEPT ![p] = s]
  BY DEF Restart
<1>2. Killed(p) /\ byTool' = [byTool EXCEPT ![p] = 0] /\ calls' = calls /\ file' = file
  BY DEF Restart, Killed
<1>3. DOMAIN journal' = Server /\ \A k \in Key : View(p)'[k] = file'[k]
  BY <1>2, SettledAgrees DEF SearchInv
<1>4. Summarized(file')
  BY <1>2 DEF SearchInv
<1>5. SearchInv'
  BY <1>3, <1>4, AgreedSearch
<1>6. /\ session[p] \in Session /\ byTool[p] \in Nat /\ calls \in Nat
      /\ Tallied(file, session[p], byTool[p], calls)
      /\ session' \in [Server -> Session] /\ byTool' \in [Server -> Nat]
      /\ session'[p] = s /\ byTool'[p] = 0 /\ s > session[p]
  BY <1>1, <1>2 DEF UsageInv
<1>7. Tallied(file, s, 0, calls)
  BY <1>6, TallyNext
<1>8. UsageInv'
  BY <1>2, <1>3, <1>6, <1>7, AgreedUsage
<1> QED BY <1>5, <1>8

LEMMA HouseKeeps ==
  ASSUME SearchInv, UsageInv, OneServer, [HouseNext]_houseVars
  PROVE  SearchInv' /\ UsageInv'
<1>1. CASE UNCHANGED houseVars
  <2>1. file' = file /\ journal' = journal /\ session' = session /\ byTool' = byTool /\ calls' = calls
    BY <1>1 DEF houseVars, serverVars, usageVars
  <2>2. \A q : View(q)' = View(q)
    BY <2>1 DEF View
  <2> QED BY <2>1, <2>2 DEF SearchInv, UsageInv
<1>2. CASE HouseNext
  <2>1. PICK p \in Server : HouseStep(p)
    BY <1>2 DEF HouseNext
  <2> QED BY <2>1, HouseCallKeeps, HouseSettles, HouseRestarts DEF HouseStep
<1> QED BY <1>1, <1>2

\* With one server, the graph a call works on has every summary that its archived
\* memories need, with all their lines, and what the file has of memories, summaries
\* and counted calls is in it too (memory_compact.go, Compact; usage.go, Flush and
\* rollUpUsage; maintenance.go).
THEOREM HouseInvariance == ASSUME OneServer PROVE HouseSpec => [](SearchInv /\ UsageInv)
BY HouseStarts, HouseKeeps, PTL DEF HouseSpec

LEMMA OnlySavesWrite ==
  ASSUME [HouseNext]_houseVars
  PROVE  file' = file \/ \E p \in Server : file' = View(p) /\ calls' = calls
BY DEF HouseNext, HouseStep, StoreMemory, ReadCall, RunMaintenanceNow, ToolCall, Handle, Save, SaveFails,
       Restart, Killed, houseVars, serverVars, usageVars

\* With one server, a line that a search finds is found after every save, unless the
\* memory that held it was stored again with other lines.
THEOREM CompactionLosesNothing == ASSUME OneServer PROVE HouseSpec => SearchStillFinds
<1> DEFINE A == \A l \in Found(file) \ Found(file') :
                  \E t \in Active(file) : l \in file[t].lines /\ file'[t].lines # file[t].lines
<1>1. ASSUME SearchInv, [HouseNext]_houseVars PROVE A
  <2> SUFFICES ASSUME NEW l \in Found(file) \ Found(file')
               PROVE  \E t \in Active(file) : l \in file[t].lines /\ file'[t].lines # file[t].lines
    OBVIOUS
  <2>1. PICK p \in Server : file' = View(p)
    BY <1>1, OnlySavesWrite
  <2>2. Grows(file, file') /\ Summarized(file')
    BY <1>1, <2>1 DEF SearchInv
  <2>3. \A e \in Entity : file'[e] # None => l \notin file'[e].lines
    BY HouseKeys DEF Found
  <2>4. \A e \in Entity : file[e] # None => l \notin file[e].lines
    BY <2>2, <2>3, HouseKeys DEF Grows
  <2>5. PICK t \in Active(file) : l \in file[t].lines
    BY <2>4, HouseKeys DEF Found
  <2>6. t \in Title /\ file[t] # None /\ file'[t] # None
    BY <2>2 DEF Active, Grows
  <2>7. ASSUME file'[t].lines = file[t].lines PROVE FALSE
    <3>1. l \in file'[t].lines
      BY <2>5, <2>7
    <3>2. t \notin Active(file')
      BY <3>1 DEF Found
    <3>3. isArchived(file'[t])
      BY <2>6, <3>2 DEF Active
    <3>4. l \in file'[file'[t].entity].lines /\ file'[file'[t].entity] # None /\ file'[t].entity \in Entity
      BY <2>2, <2>6, <3>1, <3>3 DEF Summarized
    <3> QED BY <2>3, <3>4
  <2> QED BY <2>5, <2>7
<1>2. ASSUME SearchInv, [HouseNext]_houseVars PROVE [A]_houseVars
  <2> HIDE DEF A
  <2> QED BY <1>1, <1>2
<1> HIDE DEF A
<1>3. ASSUME OneServer PROVE HouseSpec => [][A]_houseVars
  BY <1>2, <1>3, HouseInvariance, PTL DEF HouseSpec
<1> QED BY <1>3 DEF A, SearchStillFinds

\* With one server, the totals count a call at most once: no save takes a counted call
\* away and they never exceed the calls made.
THEOREM CallsCountOnce == ASSUME OneServer PROVE HouseSpec => UsageCountedOnce
<1> DEFINE A == summarizeUsage(file) <= summarizeUsage(file') /\ summarizeUsage(file') <= calls'
<1>1. ASSUME UsageInv, UsageInv', HouseNext PROVE A
  <2>1. PICK p \in Server : HouseStep(p)
    BY <1>1 DEF HouseNext
  <2>2. \A q \in Server : /\ session[q] \in Session /\ byTool[q] \in Nat /\ calls \in Nat
                         /\ Tallied(file, session[q], byTool[q], calls)
                         /\ summarizeUsage(file) <= summarizeUsage(View(q))
    BY <1>1 DEF UsageInv
  <2>3. /\ session'[p] \in Session /\ byTool'[p] \in Nat /\ calls' \in Nat
        /\ Tallied(file', session'[p], byTool'[p], calls')
    BY <1>1 DEF UsageInv
  <2>4. summarizeUsage(file) \in 0..calls
    BY <2>2, UsageParts
  <2>5. summarizeUsage(file') \in 0..calls'
    BY <2>3, UsageParts
  <2>6. file' = file \/ \E q \in Server : file' = View(q)
    BY <1>1, OnlySavesWrite
  <2>7. summarizeUsage(file) <= summarizeUsage(file')
    BY <2>2, <2>4, <2>6
  <2> QED BY <2>5, <2>7, <2>3
<1>2. ASSUME UsageInv, UsageInv', [HouseNext]_houseVars PROVE [A]_houseVars
  <2> HIDE DEF A
  <2> QED BY <1>1, <1>2
<1> HIDE DEF A
<1>3. ASSUME OneServer PROVE HouseSpec => [][A]_houseVars
  BY <1>2, <1>3, HouseInvariance, PTL DEF HouseSpec
<1> QED BY <1>3 DEF A, UsageCountedOnce
=============================================================================
