---------------------------- MODULE Housekeeping ----------------------------
(***************************************************************************)
(* What a tool server keeps about itself and tidies up: engineering        *)
(* memories folded into summaries (internal/services/memory.go,            *)
(* memory_compact.go), the counters of tool calls (usage.go) and the       *)
(* scheduled pass that does both (maintenance.go, internal/mcp/ops.go).    *)
(*                                                                         *)
(* A memory's content is a set of lines, its entity the first by name of   *)
(* the code entities it mentions; a summary has the key of its entity.     *)
(* A tool's counters are one number.  The pass's third part, the removal   *)
(* of cache entries, is in ExactCache.                                     *)
(***************************************************************************)
EXTENDS ToolServer, FiniteSetsExt

CONSTANTS
  Title, MemLine, Entity,
  NoEntity,               \* a memory that mentions no entity
  UsageTotal,             \* the node that holds the sum of old sessions
  SessionKey,             \* SessionKey[n]: the node of the n-th process start
  autoCompactThreshold, keepUsageSessions,
  MaxCalls                \* bound: tool calls

Summary == Entity  \* the key of a compacted memory
Session == DOMAIN SessionKey
SessionKeys == {SessionKey[s] : s \in Session}

ASSUME HousekeepingAssumption ==
  /\ Title \cup Summary \cup SessionKeys \cup {UsageTotal} \subseteq Key
  /\ Title \cap Summary = {} /\ (Title \cup Summary) \cap (SessionKeys \cup {UsageTotal}) = {}
  /\ UsageTotal \notin SessionKeys
  /\ \A s, n \in Session : SessionKey[s] = SessionKey[n] => s = n
  /\ Session \subseteq Nat \ {0} /\ IsFiniteSet(Session)
  /\ autoCompactThreshold \in Nat /\ keepUsageSessions \in Nat \ {0} /\ MaxCalls \in Nat

VARIABLES
  session,   \* session[p]: the UsageSession of process p; a later one started later
  byTool,    \* byTool[p]: the calls p has recorded
  calls      \* history: calls recorded by all processes

usageVars == <<session, byTool, calls>>
houseVars == <<serverVars, usageVars>>

MemoryNode == [lines : SUBSET MemLine, entity : Entity \cup {NoEntity}, archived : BOOLEAN]
SummaryNode == [lines : SUBSET MemLine]

ASSUME HouseValueAssumption == {None, Same} \cap (MemoryNode \cup SummaryNode \cup Nat) = {}

HouseInit ==
  /\ ServerInit
  /\ session \in [Server -> Session] /\ \A p, q \in Server : p # q => session[p] # session[q]
  /\ byTool = [p \in Server |-> 0]
  /\ calls = 0

-----------------------------------------------------------------------------
(* Memories.                                                               *)

isArchived(node) == node.archived
Active(g) == {t \in Title : g[t] # None /\ ~ isArchived(g[t])}
Linked(g) == {t \in Active(g) : g[t].entity # NoEntity}
Group(g, e) == {t \in Linked(g) : g[t].entity = e}

Folds(g, e, minGroup) ==
  \/ Cardinality(Group(g, e)) >= minGroup
  \/ g[e] # None /\ Group(g, e) # {}
\* Mutant: a summary is written anew.
SummaryLinesNew(g, e) ==
  UNION {g[t].lines : t \in Group(g, e)}

SummaryLines(g, e) ==
  (IF g[e] = None THEN {} ELSE g[e].lines) \cup UNION {g[t].lines : t \in Group(g, e)}

Compact(g, minGroup) ==
  [k \in Key |->
     CASE k \in Summary /\ Folds(g, k, minGroup) -> [lines |-> SummaryLines(g, k)]
       [] k \in Linked(g) /\ Folds(g, g[k].entity, minGroup) -> [g[k] EXCEPT !.archived = TRUE]
       [] OTHER -> Same]

\* What a search that skips archived memories looks through.
Found(g) ==
  (UNION {g[t].lines : t \in Active(g)}) \cup UNION {g[e].lines : e \in {s \in Summary : g[s] # None}}

\* MemoryService.Store: the memory is written, also over an archived one, and with
\* autoCompactThreshold active linked memories a compaction follows.
StoreWrites(g, t, lines, e) ==
  LET stored == Write(t, [lines |-> lines, entity |-> e, archived |-> FALSE])
      after == Over(stored, g)
  IN IF Cardinality(Linked(after)) >= autoCompactThreshold
     THEN Over(Compact(after, 2), stored) ELSE stored

-----------------------------------------------------------------------------
(* Usage.                                                                  *)

Sessions(g) == {s \in Session : g[SessionKey[s]] # None}
TotalOf(g) == IF g[UsageTotal] = None THEN 0 ELSE g[UsageTotal]
Counted(g, S) == MapThenSumSet(LAMBDA s : g[SessionKey[s]], S)
summarizeUsage(g) == TotalOf(g) + Counted(g, Sessions(g))

\* Mutant: the newest session is rolled up with the others.
OldNewest(g, keep) == {s \in Sessions(g) : Cardinality({n \in Sessions(g) : n > s}) >= keep - 1}

\* All but the newest sessions.
Old(g, keep) == {s \in Sessions(g) : Cardinality({n \in Sessions(g) : n > s}) >= keep}

rollUpUsage(g, keep) ==
  IF Old(g, keep) = {} THEN NoWrites
  ELSE [k \in Key |->
          CASE k = UsageTotal -> TotalOf(g) + Counted(g, Old(g, keep))
            [] k \in {SessionKey[s] : s \in Old(g, keep)} -> None
            [] OTHER -> Same]

\* Flush writes the cumulative counters of the process.
FlushUsage(p, count) == Write(SessionKey[session[p]], count)

-----------------------------------------------------------------------------
(* The calls.                                                              *)

Record(p) ==
  /\ calls < MaxCalls
  /\ byTool' = [byTool EXCEPT ![p] = @ + 1] /\ calls' = calls + 1
  /\ UNCHANGED session

\* A call records itself and flushes the counters when usageFlushEvery has passed.
ToolCall(p, writes, flushes) ==
  /\ Record(p)
  /\ Handle(p, IF flushes THEN Over(FlushUsage(p, byTool[p] + 1), writes) ELSE writes, None)

StoreMemory(p) ==
  \E t \in Title, lines \in (SUBSET MemLine) \ {{}}, e \in Entity \cup {NoEntity}, flushes \in BOOLEAN :
    ToolCall(p, StoreWrites(View(p), t, lines, e), flushes)

ReadCall(p) == \E flushes \in BOOLEAN : ToolCall(p, NoWrites, flushes)

\* Application.RunMaintenance
MaintenanceWrites(g) ==
  LET compacted == Compact(g, 2)
  IN Over(rollUpUsage(Over(compacted, g), keepUsageSessions), compacted)

\* The ticker's pass, under the lock of the calls; nobody gets an answer.
RunMaintenanceNow(p) ==
  /\ Handle(p, Over(FlushUsage(p, byTool[p]), MaintenanceWrites(View(p))), None)
  /\ UNCHANGED usageVars

\* A new process starts a new session.
Restart(p) ==
  /\ Killed(p)
  /\ \E s \in Session :
       /\ \A q \in Server : s > session[q]
       /\ session' = [session EXCEPT ![p] = s]
  /\ byTool' = [byTool EXCEPT ![p] = 0]
  /\ UNCHANGED calls

HouseStep(p) ==
  \/ StoreMemory(p) \/ ReadCall(p) \/ RunMaintenanceNow(p)
  \/ (Save(p) \/ SaveFails(p)) /\ UNCHANGED usageVars
  \/ Restart(p)
HouseNext == \E p \in Server : HouseStep(p)
HouseSpec == HouseInit /\ [][HouseNext]_houseVars

-----------------------------------------------------------------------------
(* Properties.                                                             *)

\* Compaction is lossless for whoever searches: a line that was found is found after
\* every save, unless the memory that held it was stored again with other lines.
SearchStillFinds ==
  [][\A l \in Found(file) \ Found(file') :
       \E t \in Active(file) : l \in file[t].lines /\ file'[t].lines # file[t].lines]_houseVars

\* The totals count a call once: they never exceed the calls made and no save takes
\* a counted call away, whatever is rolled up, flushed again or restarted.
UsageCountedOnce ==
  [][summarizeUsage(file) <= summarizeUsage(file') /\ summarizeUsage(file') <= calls']_houseVars
=============================================================================
