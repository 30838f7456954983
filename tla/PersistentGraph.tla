-------------------------- MODULE PersistentGraph --------------------------
(***************************************************************************)
(* PersistentGraphRepository in file mode (internal/graph/persistent.go):  *)
(* several processes share one graph file.  Each process has a repository  *)
(* with a journal of unsaved changes, a decoded copy of the file with the  *)
(* stamp (mtime, size) it was read at, a bounded cache of nodes, and a     *)
(* generation that query indexes compare.                                  *)
(*                                                                         *)
(* A repository serializes its operations with r.mu, so an operation is    *)
(* one step, except where it touches the file: a reader stats the file and *)
(* later reads it without the file lock, and Save holds the file lock from *)
(* its read to its rename.  stamp counts the renames; 0 is "no file".      *)
(* UpsertNodesBatch and LinkBatch do not work in file mode and are left    *)
(* out (README).                                                           *)
(***************************************************************************)
EXTENDS GraphMerge

CONSTANTS Proc,        \* processes that open the file
          NoProc,      \* holder of the free file lock
          NoGraph,     \* cachedState == nil, and no usable temporary file
          InitGraphs,  \* contents the file may have at the start
          CacheMax,    \* persistentCache.maxNodes
          MaxGen,      \* bound: changes a process makes per life
          MaxStamp     \* bound: saves of the file

ASSUME GraphAssumption ==
  /\ NoProc \notin Proc
  /\ NoGraph \notin Graph
  /\ CacheMax \in Nat \ {0} /\ MaxGen \in [Proc -> Nat] /\ MaxStamp \in Nat
  /\ \A g \in InitGraphs : g \in Graph /\ Closed(g) /\ UniqueKeys(g)

VARIABLES
  disk, stamp,      \* content and stamp of the graph file
  tmp,              \* dbPath + ".tmp" (what a failed save leaves in it is
                    \* never read: the next save truncates it)
  lock,             \* holder of the flock on dbPath + ".lock"
  pc,               \* pc[p]: what the goroutine that holds r.mu is doing
  seen,             \* seen[p]: the stamp it read (currentStamp)
  journal,          \* journal[p]: dirty, newEdges, deletedNodes, deletedEdges
  cached, cstamp,   \* r.cachedState and r.stamp
  lru,              \* lru[p]: r.cache.nodes
  gen,              \* gen[p]: r.generation
  usedNodes, usedEdges  \* ids given out so far (NewID never repeats one)

fileVars == <<disk, stamp, tmp, lock>>
idVars == <<usedNodes, usedEdges>>
vars == <<disk, stamp, tmp, lock, pc, seen, journal, cached, cstamp, lru, gen,
          usedNodes, usedEdges>>

PCs == {"down", "idle", "stated", "locked", "written"}

TypeOK ==
  /\ disk \in Graph /\ stamp \in Nat
  /\ tmp \in Graph \cup {NoGraph}
  /\ lock \in Proc \cup {NoProc}
  /\ pc \in [Proc -> PCs]
  /\ seen \in [Proc -> Nat] /\ cstamp \in [Proc -> Nat] /\ gen \in [Proc -> Nat]
  /\ journal \in [Proc -> Journal]
  /\ cached \in [Proc -> Graph \cup {NoGraph}]
  /\ lru \in [Proc -> Maps(NodeId, Node)]
  /\ usedNodes \subseteq NodeId /\ usedEdges \subseteq EdgeId

Init ==
  /\ disk \in InitGraphs
  /\ stamp \in {0, 1} /\ (stamp = 0 => disk = EmptyGraph)
  /\ tmp = NoGraph /\ lock = NoProc
  /\ pc = [p \in Proc |-> "down"]
  /\ seen = [p \in Proc |-> 0] /\ cstamp = [p \in Proc |-> 0] /\ gen = [p \in Proc |-> 0]
  /\ journal = [p \in Proc |-> EmptyJournal]
  /\ cached = [p \in Proc |-> NoGraph]
  /\ lru = [p \in Proc |-> NoEntries]
  /\ usedNodes = DOMAIN disk.nodes /\ usedEdges = DOMAIN disk.edges

-----------------------------------------------------------------------------
(* The node cache.  Which entry an insertion into a full cache evicts is   *)
(* left open (the order of use is not kept here): the results of putting   *)
(* the entries new into c.                                                 *)
Puts(c, new) ==
  LET all == DOMAIN c \cup DOMAIN new
  IN  {[n \in D |-> IF n \in DOMAIN new THEN new[n] ELSE c[n]] :
         D \in {E \in SUBSET all :
                  IF Cardinality(all) <= CacheMax THEN E = all
                  ELSE Cardinality(E) = CacheMax /\ (DOMAIN new = {} \/ E \cap DOMAIN new # {})}}

CachePut(p, new) == \E c \in Puts(lru[p], new) : lru' = [lru EXCEPT ![p] = c]

(* readEffectiveStateLocked.  The copy of the file is used when its stamp  *)
(* is the file's; else the file is read again and the copy replaced, and   *)
(* the journal is merged into the copy itself.                             *)
CopyIsCurrent(p) == cached[p] # NoGraph /\ seen[p] = cstamp[p]
Base(p) == IF CopyIsCurrent(p) THEN cached[p] ELSE disk
Bump(p) == IF cached[p] # NoGraph /\ seen[p] # cstamp[p] THEN 1 ELSE 0

View(p, g) ==
  /\ pc[p] = "stated"
  /\ g \in Merges(Base(p), journal[p])
  /\ cached' = IF CopyIsCurrent(p) THEN cached ELSE [cached EXCEPT ![p] = g]
  /\ cstamp' = IF CopyIsCurrent(p) THEN cstamp ELSE [cstamp EXCEPT ![p] = seen[p]]
  /\ pc' = [pc EXCEPT ![p] = "idle"]
  /\ seen' = [seen EXCEPT ![p] = 0]

JournalEmpty(p) == journal[p] = EmptyJournal
-----------------------------------------------------------------------------
(* Operations under r.mu.                                                  *)

\* NewPersistentRepository: load takes the file lock if there is a file.
Open(p) ==
  /\ pc[p] = "down" /\ (stamp = 0 \/ lock = NoProc)
  /\ cached' = [cached EXCEPT ![p] = IF stamp = 0 THEN NoGraph ELSE disk]
  /\ cstamp' = [cstamp EXCEPT ![p] = stamp]
  /\ pc' = [pc EXCEPT ![p] = "idle"]
  /\ UNCHANGED <<fileVars, idVars, seen, journal, lru, gen>>

\* An operation that needs the effective state stats the file.
StatFile(p) ==
  /\ pc[p] = "idle"
  /\ pc' = [pc EXCEPT ![p] = "stated"]
  /\ seen' = [seen EXCEPT ![p] = stamp]
  /\ UNCHANGED <<fileVars, idVars, journal, cached, cstamp, lru, gen>>

\* The node an UpsertNode writes: one with the identity, else a fresh id.
UpsertTargets(g, k) ==
  LET holders == {n \in DOMAIN g.nodes : g.nodes[n].key = k}
  IN  IF holders # {} THEN holders ELSE NodeId \ usedNodes

UpsertNode(p, k, v) ==
  /\ gen[p] < MaxGen[p]
  /\ \E g \in Merges(Base(p), journal[p]) : \E n \in UpsertTargets(g, k) :
       /\ View(p, g)
       /\ CachePut(p, Set(NoEntries, n, [key |-> k, val |-> v]))
       /\ journal' = [journal EXCEPT ![p].dirty = Set(@, n, [key |-> k, val |-> v])]
       /\ usedNodes' = usedNodes \cup {n}
  /\ gen' = [gen EXCEPT ![p] = @ + 1 + Bump(p)]
  /\ UNCHANGED <<fileVars, usedEdges>>

\* Link returns the edge between the two nodes if there is one; it does not
\* ask whether the nodes exist.
Link(p, from, to) ==
  /\ gen[p] < MaxGen[p]
  /\ \E g \in Merges(Base(p), journal[p]) :
       /\ View(p, g)
       /\ IF \E e \in DOMAIN g.edges : g.edges[e] = [from |-> from, to |-> to]
          THEN UNCHANGED <<journal, usedEdges>>
          ELSE \E e \in EdgeId \ usedEdges :
                 /\ journal' = [journal EXCEPT ![p].newEdges =
                                  Set(@, e, [from |-> from, to |-> to])]
                 /\ usedEdges' = usedEdges \cup {e}
  /\ gen' = [gen EXCEPT ![p] = @ + 1 + Bump(p)]
  /\ UNCHANGED <<fileVars, usedNodes, lru>>

RemoveNodes(p, ids) ==
  /\ pc[p] = "idle" /\ gen[p] < MaxGen[p]
  /\ LET j == journal[p]
         incident == {e \in DOMAIN j.newEdges :
                        j.newEdges[e].from \in ids \/ j.newEdges[e].to \in ids}
     IN  journal' = [journal EXCEPT ![p] =
           [j EXCEPT !.dirty = Without(j.dirty, ids),
                     !.newEdges = Without(j.newEdges, incident),
                     !.deletedNodes = @ \cup ids]]
  /\ lru' = [lru EXCEPT ![p] = Without(@, ids)]
  /\ gen' = [gen EXCEPT ![p] = @ + 1]
  /\ UNCHANGED <<fileVars, idVars, pc, seen, cached, cstamp>>

\* Mutant: the generation does not move.
RemoveEdgesQuietly(p, ids) ==
  /\ pc[p] = "idle" /\ gen[p] < MaxGen[p]
  /\ LET j == journal[p]
     IN  journal' = [journal EXCEPT ![p] =
           [j EXCEPT !.newEdges = Without(j.newEdges, ids),
                     !.deletedEdges = @ \cup ids]]
  /\ UNCHANGED <<fileVars, idVars, pc, seen, cached, cstamp, lru, gen>>

RemoveEdges(p, ids) ==
  /\ pc[p] = "idle" /\ gen[p] < MaxGen[p]
  /\ LET j == journal[p]
     IN  journal' = [journal EXCEPT ![p] =
           [j EXCEPT !.newEdges = Without(j.newEdges, ids),
                     !.deletedEdges = @ \cup ids]]
  /\ gen' = [gen EXCEPT ![p] = @ + 1]
  /\ UNCHANGED <<fileVars, idVars, pc, seen, cached, cstamp, lru>>

\* GetNode of a node that is not cached (a hit changes nothing here).  A
\* journaled node that the merge moved to another id is found in the journal.
GetNode(p, n) ==
  /\ n \notin DOMAIN lru[p]
  /\ \E g \in Merges(Base(p), journal[p]) :
       /\ View(p, g)
       /\ IF n \in DOMAIN g.nodes
          THEN CachePut(p, Set(NoEntries, n, g.nodes[n]))
          ELSE IF n \in DOMAIN journal[p].dirty
               THEN CachePut(p, Set(NoEntries, n, journal[p].dirty[n]))
               ELSE UNCHANGED lru
  /\ gen' = [gen EXCEPT ![p] = @ + Bump(p)]
  /\ UNCHANGED <<fileVars, idVars, journal>>

\* FindNodes caches every node it returns: those with identities in ks.
FindNodes(p, ks) ==
  /\ \E g \in Merges(Base(p), journal[p]) :
       /\ View(p, g)
       /\ LET found == {n \in DOMAIN g.nodes : g.nodes[n].key \in ks}
          IN  CachePut(p, [n \in found |-> g.nodes[n]])
  /\ gen' = [gen EXCEPT ![p] = @ + Bump(p)]
  /\ UNCHANGED <<fileVars, idVars, journal>>

\* Neighbors caches the nodes at the other ends of the edges of n.
Neighbors(p, n) ==
  /\ \E g \in Merges(Base(p), journal[p]) :
       /\ View(p, g)
       /\ LET found == {m \in DOMAIN g.nodes :
                          [from |-> n, to |-> m] \in {g.edges[e] : e \in DOMAIN g.edges}
                          \/ [from |-> m, to |-> n] \in {g.edges[e] : e \in DOMAIN g.edges}}
          IN  CachePut(p, [m \in found |-> g.nodes[m]])
  /\ gen' = [gen EXCEPT ![p] = @ + Bump(p)]
  /\ UNCHANGED <<fileVars, idVars, journal>>

\* Generation, GraphSnapshot, Counts, EdgesOfKind: read the effective state.
Look(p) ==
  /\ \E g \in Merges(Base(p), journal[p]) : View(p, g)
  /\ gen' = [gen EXCEPT ![p] = @ + Bump(p)]
  /\ UNCHANGED <<fileVars, idVars, journal, lru>>

\* Refresh does nothing while there are unsaved changes or the stamp is the
\* file's; it leaves the generation alone.
Refresh(p) ==
  /\ pc[p] = "idle" /\ JournalEmpty(p) /\ stamp # cstamp[p] /\ lock = NoProc
  /\ cached' = [cached EXCEPT ![p] = disk]
  /\ lru' = [lru EXCEPT ![p] = NoEntries]
  /\ cstamp' = [cstamp EXCEPT ![p] = stamp]
  /\ UNCHANGED <<fileVars, idVars, pc, seen, journal, gen>>

-----------------------------------------------------------------------------
(* Save, and what can go wrong during it.                                  *)

\* Mutant: the lock of lock_other.go, which excludes nobody.
SaveLockShared(p) ==
  /\ pc[p] = "idle" /\ ~JournalEmpty(p) /\ stamp < MaxStamp
  /\ lock' = p
  /\ pc' = [pc EXCEPT ![p] = "locked"]
  /\ UNCHANGED <<disk, stamp, tmp, idVars, seen, journal, cached, cstamp, lru, gen>>

SaveLock(p) ==
  /\ pc[p] = "idle" /\ ~JournalEmpty(p) /\ lock = NoProc /\ stamp < MaxStamp
  /\ lock' = p
  /\ pc' = [pc EXCEPT ![p] = "locked"]
  /\ UNCHANGED <<disk, stamp, tmp, idVars, seen, journal, cached, cstamp, lru, gen>>

\* Mutant: the journal is merged into the copy, not into the file as it is now.
SaveWriteCopy(p) ==
  /\ pc[p] = "locked"
  /\ tmp' \in Merges(IF cached[p] # NoGraph THEN cached[p] ELSE disk, journal[p])
  /\ pc' = [pc EXCEPT ![p] = "written"]
  /\ UNCHANGED <<disk, stamp, lock, idVars, seen, journal, cached, cstamp, lru, gen>>

\* readState, merge, write the temporary file.
SaveWrite(p) ==
  /\ pc[p] = "locked"
  /\ tmp' \in Merges(disk, journal[p])
  /\ pc' = [pc EXCEPT ![p] = "written"]
  /\ UNCHANGED <<disk, stamp, lock, idVars, seen, journal, cached, cstamp, lru, gen>>

\* Mutant: the new stamp on the copy from before the save.
SaveRenameKeepsCopy(p) ==
  /\ pc[p] = "written"
  /\ disk' = tmp /\ stamp' = stamp + 1 /\ tmp' = NoGraph /\ lock' = NoProc
  /\ cstamp' = [cstamp EXCEPT ![p] = stamp']
  /\ lru' = [lru EXCEPT ![p] = NoEntries]
  /\ journal' = [journal EXCEPT ![p] = EmptyJournal]
  /\ pc' = [pc EXCEPT ![p] = "idle"]
  /\ UNCHANGED <<idVars, seen, cached, gen>>

\* Rename, adopt the merged graph, clear cache and journal, unlock.
SaveRename(p) ==
  /\ pc[p] = "written"
  /\ disk' = tmp /\ stamp' = stamp + 1 /\ tmp' = NoGraph /\ lock' = NoProc
  /\ cached' = [cached EXCEPT ![p] = tmp]
  /\ cstamp' = [cstamp EXCEPT ![p] = stamp']
  /\ lru' = [lru EXCEPT ![p] = NoEntries]
  /\ journal' = [journal EXCEPT ![p] = EmptyJournal]
  /\ pc' = [pc EXCEPT ![p] = "idle"]
  /\ UNCHANGED <<idVars, seen, gen>>

\* An I/O error before the rename: the journal is kept for the next Save.
SaveFail(p) ==
  /\ pc[p] \in {"locked", "written"}
  /\ lock' = NoProc /\ tmp' = NoGraph
  /\ pc' = [pc EXCEPT ![p] = "idle"]
  /\ UNCHANGED <<disk, stamp, idVars, seen, journal, cached, cstamp, lru, gen>>

\* The process dies anywhere: the kernel releases its flock, the journal is
\* lost.  (Close is Save, then this.)
Crash(p) ==
  /\ pc[p] # "down"
  /\ lock' = IF lock = p THEN NoProc ELSE lock
  /\ tmp' = IF pc[p] \in {"locked", "written"} THEN NoGraph ELSE tmp
  /\ pc' = [pc EXCEPT ![p] = "down"]
  /\ seen' = [seen EXCEPT ![p] = 0] /\ cstamp' = [cstamp EXCEPT ![p] = 0]
  /\ gen' = [gen EXCEPT ![p] = 0]
  /\ journal' = [journal EXCEPT ![p] = EmptyJournal]
  /\ cached' = [cached EXCEPT ![p] = NoGraph]
  /\ lru' = [lru EXCEPT ![p] = NoEntries]
  /\ UNCHANGED <<disk, stamp, idVars>>

Step(p) ==
  \/ Open(p) \/ StatFile(p) \/ Look(p) \/ Refresh(p) \/ Crash(p)
  \/ \E k \in Key, v \in Val : UpsertNode(p, k, v)
  \/ \E from, to \in usedNodes : Link(p, from, to)
  \/ \E ids \in (SUBSET usedNodes) \ {{}} : RemoveNodes(p, ids)
  \/ \E ids \in (SUBSET usedEdges) \ {{}} : RemoveEdges(p, ids)
  \/ \E n \in usedNodes : GetNode(p, n) \/ Neighbors(p, n)
  \/ \E ks \in {{k} : k \in Key} \cup {Key} : FindNodes(p, ks)
  \/ SaveLock(p) \/ SaveWrite(p) \/ SaveRename(p) \/ SaveFail(p)

Next == \E p \in Proc : Step(p)

Spec == Init /\ [][Next]_vars

-----------------------------------------------------------------------------
(* Properties.                                                             *)

\* An edge never outlives its nodes: neither in the file nor in the copy of
\* it that any process reads is there an edge whose end is missing, whatever
\* other processes linked and removed in between (mergeJournalSnapshotLocked).
NoDanglingEdges ==
  /\ Closed(disk)
  /\ \A p \in Proc : cached[p] # NoGraph => Closed(cached[p])

\* A repository with nothing unsaved whose stamp is the file's reads exactly
\* the file: reading, re-reading and saving leave no trace in cachedState.
CleanCopyIsFile ==
  \A p \in Proc :
    cached[p] # NoGraph /\ cstamp[p] = stamp /\ JournalEmpty(p) => cached[p] = disk

\* Read, merge and rename of a save are one critical section: two saves never
\* overlap, and what is about to be renamed is the merge of the saver's journal
\* into the file as it still is (lock_unix.go:10, "serialize their
\* read-merge-write cycles").
SavesAreSerialized ==
  \A p \in Proc :
    /\ pc[p] \in {"locked", "written"} => lock = p
    /\ pc[p] = "written" => tmp \in Merges(disk, journal[p])

\* The id of an unsaved edge is in no other journal and not in the file.
EdgeIdsFresh ==
  \A p \in Proc :
    LET mine == DOMAIN journal[p].newEdges
    IN  /\ mine \subseteq usedEdges /\ mine \cap DOMAIN disk.edges = {}
        /\ \A q \in Proc \ {p} : mine \cap DOMAIN journal[q].newEdges = {}

\* The inductive invariant behind the theorems of PersistentGraphProofs.
IInv ==
  /\ TypeOK /\ NoDanglingEdges /\ CleanCopyIsFile /\ SavesAreSerialized /\ EdgeIdsFresh
  /\ DOMAIN disk.edges \subseteq usedEdges
  /\ \A p \in Proc : cstamp[p] <= stamp /\ seen[p] <= stamp

\* Node n with identity k is in the file, in a journal or in a copy.
Has(nodes, n, k) == n \in DOMAIN nodes /\ nodes[n].key = k
Known(n, k) ==
  \/ Has(disk.nodes, n, k)
  \/ \E p \in Proc : Has(journal[p].dirty, n, k) \/ (cached[p] # NoGraph /\ Has(cached[p].nodes, n, k))

\* A node id means one identity, in whichever process, for good.
KeysFixed ==
  \A n \in NodeId, k, l \in Key : Known(n, k) /\ Known(n, l) => k = l

\* What a journal names has been given an id, and it does not both write and
\* delete a thing.
IdsGiven ==
  /\ \A n \in NodeId, k \in Key : Known(n, k) => n \in usedNodes
  /\ \A p \in Proc :
       LET j == journal[p]
       IN  /\ j.deletedNodes \subseteq usedNodes /\ j.deletedEdges \subseteq usedEdges
           /\ DOMAIN j.dirty \cap j.deletedNodes = {}
           /\ DOMAIN j.newEdges \cap j.deletedEdges = {}

\* The inductive invariant behind what a save keeps.
JInv == IInv /\ KeysFixed /\ IdsGiven

\* Process p's save reaches the file in this step.
Saved(p) == pc[p] = "written" /\ stamp' # stamp

LosesNothing(p) ==
  Saved(p) =>
    /\ \A n \in DOMAIN disk.nodes \ journal[p].deletedNodes :
         /\ n \in DOMAIN disk'.nodes
         /\ \/ disk'.nodes[n] = disk.nodes[n]
            \/ \E d \in DOMAIN journal[p].dirty : disk'.nodes[n] = journal[p].dirty[d]
    /\ \A e \in DOMAIN disk.edges \ journal[p].deletedEdges :
         \/ e \in DOMAIN disk'.edges /\ disk'.edges[e] = disk.edges[e]
         \/ {disk.edges[e].from, disk.edges[e].to} \cap journal[p].deletedNodes # {}

\* A save changes in the file only what the saving process journaled: a node
\* or edge another process saved is neither dropped nor reverted to the older
\* value in p's copy (TestConcurrentWritersKeepBothSetsOfChanges).
SaveLosesNothing == [][\A p \in Proc : LosesNothing(p)]_vars

\* Save clears the journal only when every change in it is in the file: each
\* upserted identity is there, no removed node or edge is, and each new edge
\* is unless an end it was linked to is not.
SaveKeepsJournal == [][\A p \in Proc : Saved(p) => KeepsJournal(disk', journal[p])]_vars

MergesIdentities(p) ==
  Saved(p) /\ UniqueKeys(disk) /\ UniqueKeys([nodes |-> journal[p].dirty]) => UniqueKeys(disk')

\* A save does not duplicate an identity: if the file and the journal each
\* hold an identity at most once, so does the merged file
\* (TestSameLogicalNodeCreatedTwiceIsMergedNotDuplicated).
SaveMergesIdentities == [][\A p \in Proc : MergesIdentities(p)]_vars

\* The stronger claim of the tests and of CHANGELOG.md:182, "identity-based
\* deduplication during journal merges": no identity is ever in the file twice.
NoDuplicateIdentity == UniqueKeys(disk)

(* The shared file implements the atomic store of GraphStore.              *)
Store == INSTANCE GraphStore WITH store <- disk, pending <- journal
ImplementsStore == Store!StoreSpec

=============================================================================
