----------------------------- MODULE GraphStore -----------------------------
(***************************************************************************)
(* What the shared graph file promises to the processes that use it: there *)
(* is one graph; a process collects changes in a private journal and       *)
(* commits the whole journal in one atomic step that merges it into the    *)
(* graph as it is at that moment; a process that dies loses only its own   *)
(* journal.  PersistentGraph implements this specification.                *)
(***************************************************************************)
EXTENDS GraphMerge

CONSTANT Proc

VARIABLES store,    \* the graph every process agrees on
          pending   \* pending[p]: the changes p has not committed

storeVars == <<store, pending>>

StoreInit ==
  /\ store \in Graph /\ Closed(store)
  /\ pending = [p \in Proc |-> EmptyJournal]

\* Process p changes its own journal; nobody else sees it.
Record(p) ==
  /\ pending'[p] \in Journal
  /\ pending' = [pending EXCEPT ![p] = pending'[p]]
  /\ UNCHANGED store

\* Process p commits: its journal is merged into the current graph, whole.
Commit(p) ==
  /\ store' \in Merges(store, pending[p])
  /\ pending' = [pending EXCEPT ![p] = EmptyJournal]

\* Process p dies or restarts.
Lose(p) ==
  /\ pending' = [pending EXCEPT ![p] = EmptyJournal]
  /\ UNCHANGED store

StoreNext == \E p \in Proc : Record(p) \/ Commit(p) \/ Lose(p)

StoreSpec == StoreInit /\ [][StoreNext]_storeVars

=============================================================================
