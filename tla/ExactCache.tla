----------------------------- MODULE ExactCache -----------------------------
(***************************************************************************)
(* CacheManager (internal/cache/cache.go): results of tools kept as        *)
(* CacheEntry nodes of the shared graph, and the count of them that each   *)
(* process keeps beside the graph to know when to purge.  The privacy      *)
(* service keeps its state in entries of the same kind ("special" ones),   *)
(* which the count leaves out.                                             *)
(*                                                                         *)
(* An entry is the time it was written; the result itself does not matter. *)
(* Nothing in the program marks an entry STALE or INVALID, so entries go   *)
(* stale only by their age, and the maintenance pass's removal of marked   *)
(* entries has nothing to do.  The semantic level is left out: nothing     *)
(* fills it (SemanticCache.Index has no caller).                           *)
(***************************************************************************)
EXTENDS ToolServer

CONSTANTS
  Project,
  CacheKey,                     \* keys of results
  EntryProject,                 \* EntryProject[c]: the project a key was made for
  PolicyEntry, SnapshotEntry,   \* PolicyEntry[j]: a special entry of project j
  MaxEntries,                   \* config.Exact.MaxEntries
  MaxStores                     \* bound: entries written

SpecialEntry == {PolicyEntry[j] : j \in Project} \cup {SnapshotEntry[j] : j \in Project}

ASSUME CacheAssumption ==
  /\ CacheKey \cup SpecialEntry \subseteq Key /\ SpecialEntry \cap CacheKey = {}
  /\ EntryProject \in [CacheKey -> Project]
  /\ DOMAIN PolicyEntry = Project /\ DOMAIN SnapshotEntry = Project
  /\ MaxEntries \in Nat \ {0} /\ MaxStores \in Nat

VARIABLES
  exactCount,  \* exactCount[p]: what process p takes for the number of entries
  now          \* the time, in the seconds of updated_at

cacheVars == <<exactCount, now>>

ExactEntries(g) == {c \in CacheKey : g[c] # None}
ExactOf(g, j) == {c \in ExactEntries(g) : EntryProject[c] = j}
EntriesOf(g, j) == ExactOf(g, j) \cup {c \in {PolicyEntry[j], SnapshotEntry[j]} : g[c] # None}

Removing(S) == [k \in Key |-> IF k \in S THEN None ELSE Same]

\* NewCacheManager counts the entries of the graph.
CountedAtStart(g) == Cardinality(ExactEntries(g))

\* forgetExact: never below zero.
Forgotten(count, n) == IF count <= n THEN 0 ELSE count - n

\* What PurgeExact removes: all but the newest MaxEntries of each project; of one
\* second, the order of the ids decides, which may be any.
Purges(g, S) ==
  /\ S \subseteq ExactEntries(g)
  /\ \A j \in Project :
       LET mine == ExactOf(g, j)
       IN /\ Cardinality(mine \ S) = IF Cardinality(mine) > MaxEntries THEN MaxEntries
                                     ELSE Cardinality(mine)
          /\ \A kept \in mine \ S, gone \in mine \cap S : g[kept] >= g[gone]

\* PurgeExact: the count is what remains.
PurgeExact(p, g, writes) ==
  \E S \in SUBSET CacheKey :
    LET after == Over(writes, g)
    IN /\ Purges(after, S)
       /\ Handle(p, Over(Removing(S), writes), None)
       /\ exactCount' = [exactCount EXCEPT ![p] = Cardinality(ExactEntries(after) \ S)]

-----------------------------------------------------------------------------
(* The calls.                                                              *)

CheckExactCache(p, c, expired) ==
  /\ View(p)[c] # None /\ expired => View(p)[c] < now
  /\ IF expired
     THEN /\ Handle(p, Removing({c}), None)
          /\ exactCount' = [exactCount EXCEPT ![p] = Forgotten(@, 1)]
     ELSE Refuse(p) /\ UNCHANGED exactCount
  /\ UNCHANGED now

\* The clock may have moved since the last entry.
StoreExactCache(p, c) ==
  /\ now < MaxStores
  /\ now' \in {now, now + 1}
  /\ LET view == View(p)
         stored == Write(c, now')
         count == exactCount[p] + 1
     IN \/ /\ view[c] # None
           /\ Handle(p, stored, None) /\ UNCHANGED exactCount
        \/ /\ view[c] = None /\ count <= MaxEntries
           /\ Handle(p, stored, None) /\ exactCount' = [exactCount EXCEPT ![p] = count]
        \/ /\ view[c] = None /\ count > MaxEntries
           /\ PurgeExact(p, view, stored)

\* Invalidate (one tool: some results; no filter but the project: everything) and
\* Flush.  What is removed is counted as if it had been counted.
Invalidate(p, S) ==
  /\ Handle(p, Removing(S), None)
  /\ exactCount' = [exactCount EXCEPT ![p] = Forgotten(@, Cardinality(S))]
  /\ UNCHANGED now
Flush(p, j) == Invalidate(p, EntriesOf(View(p), j))
InvalidateTool(p, c) == Invalidate(p, {c} \cap ExactEntries(View(p)))

\* The part of the maintenance pass that is about the cache.
PurgeCache(p) == PurgeExact(p, View(p), NoWrites) /\ UNCHANGED now

CacheCall(p) ==
  \/ \E c \in CacheKey :
       \/ StoreExactCache(p, c) \/ InvalidateTool(p, c)
       \/ \E expired \in BOOLEAN : CheckExactCache(p, c, expired)
  \/ \E j \in Project : Flush(p, j)
  \/ PurgeCache(p)

CacheSettle(p) == (Save(p) \/ SaveFails(p)) /\ UNCHANGED cacheVars
CacheRestart(p) ==
  /\ Killed(p)
  /\ exactCount' = [exactCount EXCEPT ![p] = CountedAtStart(file)]
  /\ UNCHANGED now

CacheInit ==
  /\ ServerInit
  /\ exactCount = [p \in Server |-> 0] /\ now = 0

-----------------------------------------------------------------------------
(* Properties.                                                             *)

\* The exact cache is bounded: no project has more than MaxEntries results in the
\* graph.  (CHANGELOG.md:162)
CacheBounded == \A j \in Project : Cardinality(ExactOf(file, j)) <= MaxEntries

\* A purge leaves the count exact and every project within its bound, whatever
\* invalidations, restarts and failed saves had done to the count before.
PurgeRestoresBound ==
  [][\A p \in Server : PurgeCache(p) =>
       LET after == Over(journal'[p], file')
       IN /\ exactCount'[p] = CountedAtStart(after)
          /\ \A j \in Project : Cardinality(ExactOf(after, j)) <= MaxEntries]_<<serverVars, cacheVars>>
=============================================================================
