-------------------------- MODULE GraphQueryIndex --------------------------
(***************************************************************************)
(* GraphQueryIndex (internal/graph/query_index.go), the in-memory index    *)
(* queries are answered from, over the PersistentGraphRepository of its    *)
(* process.  It holds a snapshot of the graph and the generation the       *)
(* repository had then, and takes a new snapshot when the repository's     *)
(* generation has changed.  The lookup maps are functions of the snapshot. *)
(***************************************************************************)
EXTENDS PersistentGraph

VARIABLES
  istate,    \* istate[p]: IndexReady or not (absent, stale, failed)
  snapshot,  \* snapshot[p]: what the maps of the index hold
  igen,      \* igen[p]: graphGeneration
  behind     \* behind[p]: Refresh has found another generation

queryVars == <<istate, snapshot, igen, behind>>
queryIndexVars == <<vars, queryVars>>

QueryTypeOK ==
  /\ istate \in [Proc -> {"ready", "stale"}]
  /\ snapshot \in [Proc -> Graph \cup {NoGraph}]
  /\ \A p \in Proc : istate[p] = "ready" => snapshot[p] \in Graph /\ igen[p] <= gen[p]
  /\ igen \in [Proc -> Nat] /\ behind \in [Proc -> BOOLEAN]

QueryInit ==
  /\ Init
  /\ istate = [p \in Proc |-> "stale"] /\ snapshot = [p \in Proc |-> NoGraph]
  /\ igen = [p \in Proc |-> 0] /\ behind = [p \in Proc |-> FALSE]

\* rebuildLocked: snapshot and generation are read under the repository's lock.
Rebuild(p) ==
  /\ istate[p] = "stale" \/ behind[p]
  /\ \E g \in Merges(Base(p), journal[p]) :
       /\ View(p, g)
       /\ snapshot' = [snapshot EXCEPT ![p] = g]
  /\ gen' = [gen EXCEPT ![p] = @ + Bump(p)]
  /\ igen' = [igen EXCEPT ![p] = gen'[p]]
  /\ istate' = [istate EXCEPT ![p] = "ready"]
  /\ behind' = [behind EXCEPT ![p] = FALSE]
  /\ UNCHANGED <<fileVars, idVars, journal, lru>>

\* Refresh of an index that is ready: compare generations (Rebuild follows if
\* they differ, without a lock over both).
CheckGeneration(p) ==
  /\ istate[p] = "ready" /\ ~behind[p]
  /\ \E g \in Merges(Base(p), journal[p]) : View(p, g)
  /\ gen' = [gen EXCEPT ![p] = @ + Bump(p)]
  /\ behind' = [behind EXCEPT ![p] = gen'[p] # igen[p]]
  /\ UNCHANGED <<fileVars, idVars, journal, lru, istate, snapshot, igen>>

Invalidate(p) ==
  /\ istate[p] = "ready"
  /\ istate' = [istate EXCEPT ![p] = "stale"]
  /\ UNCHANGED <<vars, snapshot, igen, behind>>

\* The index of a process dies with it.
ForgetIndex(p) ==
  /\ istate' = [istate EXCEPT ![p] = "stale"]
  /\ snapshot' = [snapshot EXCEPT ![p] = NoGraph]
  /\ igen' = [igen EXCEPT ![p] = 0]
  /\ behind' = [behind EXCEPT ![p] = FALSE]

QueryNext ==
  \E p \in Proc :
    \/ Step(p) /\ pc'[p] # "down" /\ UNCHANGED queryVars
    \/ Crash(p) /\ ForgetIndex(p)
    \/ Rebuild(p) \/ CheckGeneration(p) \/ Invalidate(p)

QuerySpec == QueryInit /\ [][QueryNext]_queryIndexVars

-----------------------------------------------------------------------------
(* Properties.                                                             *)

\* An index that Refresh would find current answers what the repository would:
\* while the generations agree and the file has not been saved since the
\* repository last read it, the snapshot is the graph with the unsaved changes.
\* Every change of what a repository shows must move its generation.
\* With one process this holds; tools.go:964, "Call refreshes before running a
\* tool, so changes from other processes are visible", says it for several.
IndexIsCurrent ==
  \A p \in Proc :
    /\ istate[p] = "ready" /\ igen[p] = gen[p] /\ ~behind[p]
    /\ pc[p] = "idle" /\ cached[p] # NoGraph /\ cstamp[p] = stamp
    => snapshot[p] \in Merges(cached[p], journal[p])
=============================================================================
