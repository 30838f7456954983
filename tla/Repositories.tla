---------------------------- MODULE Repositories ----------------------------
(* The other implementations of GraphRepository (internal/graph/repository.go):  *)
(* in memory (memory.go), over PostgreSQL (sql.go) and over MongoDB (mongo.go),   *)
(* the last two built with a tag.  Every operation takes the repository's lock,   *)
(* or is one statement of the database, and is one step here.  The tables, their  *)
(* foreign keys and their unique indexes are as the code creates them.            *)
EXTENDS Integers, FiniteSets

CONSTANTS
  Identity,  \* identities of nodes
  IdKey,     \* those that give the id themselves, as a Project's does
  Field, Value, Missing,  \* the properties of a node
  MaxIds     \* bound: ids made

ASSUME RepositoryAssumption == MaxIds \in Nat /\ IdKey \cap (0..MaxIds) = {}

VARIABLES
  backend,   \* "memory", "sql" or "mongo"
  rows,      \* the nodes: function from ids to [key, fields]
  links,     \* the edges: set of [id, from, to]
  idsMade,   \* ids made so far
  ackedNodes,\* what UpsertNode and UpsertNodesBatch returned and was not removed
             \*   since: function from ids to [key, fields, how] (history)
  ackedEdges \* the same for Link and LinkBatch (history)

repositoryVars == <<backend, rows, links, idsMade, ackedNodes, ackedEdges>>

Ids == IdKey \cup 1..MaxIds
FieldMaps == [Field -> Value \cup {Missing}]
Over(old, new) == [f \in Field |-> IF new[f] = Missing THEN old[f] ELSE new[f]]
Row(key, fields) == [key |-> key, fields |-> fields]
Put(f, id, v) == [i \in DOMAIN f \cup {id} |-> IF i = id THEN v ELSE f[i]]
Dropped(f, id) == [i \in DOMAIN f \ {id} |-> f[i]]

RepositoryInit ==
  /\ backend \in {"memory", "sql", "mongo"}
  /\ rows = << >> /\ links = {} /\ idsMade = 0
  /\ ackedNodes = << >> /\ ackedEdges = {}

-----------------------------------------------------------------------------
(* Nodes.  A store is a record [nodes, made, id]: the last is the id written,    *)
(* and 0 when nothing was.                                                      *)

Stored(ns, m, id) == [nodes |-> ns, made |-> m, id |-> id]
NewId(key, m) == IF key \in IdKey THEN key ELSE m + 1
Made(key, m) == IF key \in IdKey THEN m ELSE m + 1
Holding(ns, key) == {i \in DOMAIN ns : ns[i].key = key}

\* Mutant: the properties given replace those of the node.
MemoryUpsertReplaces(ns, m, key, fields) ==
  IF Holding(ns, key) # {}
  THEN LET i == CHOOSE i \in Holding(ns, key) : TRUE
       IN  Stored(Put(ns, i, Row(key, fields)), m, i)
  ELSE LET i == NewId(key, m) IN Stored(Put(ns, i, Row(key, fields)), Made(key, m), i)

\* memory.go finds the node of the identity.
MemoryUpsert(ns, m, key, fields) ==
  IF Holding(ns, key) # {}
  THEN LET i == CHOOSE i \in Holding(ns, key) : TRUE
       IN  Stored(Put(ns, i, Row(key, Over(ns[i].fields, fields))), m, i)
  ELSE LET i == NewId(key, m) IN Stored(Put(ns, i, Row(key, fields)), Made(key, m), i)

\* sql.go inserts, and updates on a conflict of ids only.
SqlUpsert(ns, m, key, fields) ==
  LET i == NewId(key, m)
  IN  Stored(Put(ns, i, IF i \in DOMAIN ns THEN Row(key, Over(ns[i].fields, fields)) ELSE Row(key, fields)),
            Made(key, m), i)

\* mongo.go keeps the id in _id; the unique index of the field "id", which no document
\* has, admits one document.  The update after a conflict replaces the properties by
\* ones that hold no field, or matches nothing.
MongoInsert(ns, m, key, fields) ==
  IF DOMAIN ns = {} THEN Stored(Put(ns, NewId(key, m), Row(key, fields)), Made(key, m), NewId(key, m))
  ELSE Stored(ns, Made(key, m), 0)
MongoUpsert(ns, m, key, fields) ==
  LET i == NewId(key, m)
  IN  IF DOMAIN ns = {} THEN MongoInsert(ns, m, key, fields)
      ELSE IF i \in DOMAIN ns THEN Stored(Put(ns, i, Row(Missing, [f \in Field |-> Missing])), Made(key, m), i)
      ELSE Stored(ns, Made(key, m), i)

Upserted(ns, m, key, fields) ==
  CASE backend = "memory" -> MemoryUpsert(ns, m, key, fields)
    [] backend = "sql" -> SqlUpsert(ns, m, key, fields)
    [] backend = "mongo" -> MongoUpsert(ns, m, key, fields)
\* UpsertNodesBatch of mongo.go does not update.
BatchUpserted(ns, m, key, fields) ==
  IF backend = "mongo" THEN MongoInsert(ns, m, key, fields) ELSE Upserted(ns, m, key, fields)

\* What was acknowledged for an id before and is given now; how tells UpsertNode from a batch.
Acked(acks, s, key, fields, how) ==
  IF s.id = 0 THEN acks
  ELSE Put(acks, s.id, [key |-> key, how |-> how,
                        fields |-> IF s.id \in DOMAIN acks THEN Over(acks[s.id].fields, fields) ELSE fields])

RepoUpsertNode ==
  \E key \in Identity, fields \in FieldMaps :
    LET s == Upserted(rows, idsMade, key, fields)
    IN  /\ s.made <= MaxIds
        /\ rows' = s.nodes /\ idsMade' = s.made
        /\ ackedNodes' = Acked(ackedNodes, s, key, fields, "upsert")
        /\ UNCHANGED <<backend, links, ackedEdges>>

\* One item after the other, under the lock.
RepoUpsertNodesBatch ==
  \E k1, k2 \in Identity, f1, f2 \in FieldMaps :
    LET s1 == BatchUpserted(rows, idsMade, k1, f1)
        s2 == BatchUpserted(s1.nodes, s1.made, k2, f2)
    IN  /\ s2.made <= MaxIds
        /\ rows' = s2.nodes /\ idsMade' = s2.made
        /\ ackedNodes' = Acked(Acked(ackedNodes, s1, k1, f1, "batch"), s2, k2, f2, "batch")
        /\ UNCHANGED <<backend, links, ackedEdges>>

-----------------------------------------------------------------------------
(* Edges.                                                                    *)

Between(es, from, to) == {e \in es : e.from = from /\ e.to = to}
NewEdge(from, to) == [id |-> idsMade + 1, from |-> from, to |-> to]

\* memory.go returns the edge that is there (LinkBatch adds another all the same) and does
\* not ask for the ends; the foreign keys of sql.go do; mongo.go's unique index of the
\* field "id" admits one edge.
Admits(from, to) ==
  CASE backend = "memory" -> TRUE
    [] backend = "sql" -> {from, to} \subseteq DOMAIN rows
    [] backend = "mongo" -> links = {}
LinkEnds(from, to, batch) ==
  LET there == IF backend = "memory" THEN Between(links, from, to) ELSE {}
      new == IF Admits(from, to) /\ (batch \/ there = {}) THEN {NewEdge(from, to)} ELSE {}
  IN  /\ idsMade < MaxIds
      /\ links' = links \cup new
      /\ ackedEdges' = ackedEdges \cup there \cup new
      /\ idsMade' = IF new = {} THEN idsMade ELSE idsMade + 1
      /\ UNCHANGED <<backend, rows, ackedNodes>>
RepoLink == \E from, to \in Ids : LinkEnds(from, to, FALSE)
RepoLinkBatch == \E from, to \in Ids : LinkEnds(from, to, TRUE)

-----------------------------------------------------------------------------
(* Removals.  sql.go gives its statements no arguments: they fail.  mongo.go     *)
(* deletes by the field "id": nothing.                                          *)

RepoRemoveNodes ==
  \E i \in DOMAIN rows :
    /\ backend = "memory"
    /\ rows' = Dropped(rows, i)
    /\ links' = {e \in links : i \notin {e.from, e.to}}
    /\ ackedNodes' = Dropped(ackedNodes, i)
    /\ ackedEdges' = {e \in ackedEdges : i \notin {e.from, e.to}}
    /\ UNCHANGED <<backend, idsMade>>
RepoRemoveEdges ==
  \E e \in links :
    /\ backend = "memory"
    /\ links' = links \ {e} /\ ackedEdges' = ackedEdges \ {e}
    /\ UNCHANGED <<backend, rows, idsMade, ackedNodes>>

RepositoryNext ==
  RepoUpsertNode \/ RepoUpsertNodesBatch \/ RepoLink \/ RepoLinkBatch \/ RepoRemoveNodes \/ RepoRemoveEdges
RepositorySpec == RepositoryInit /\ [][RepositoryNext]_repositoryVars

-----------------------------------------------------------------------------
(* Reads.                                                                    *)

\* GetNode: mongo.go asks for the field "id".
RepoGetNode(id) == IF backend # "mongo" /\ id \in DOMAIN rows THEN {rows[id]} ELSE {}
RepoFindNodes(key) == Holding(rows, key)
\* Neighbors: sql.go joins no node for DirBoth; mongo.go looks the rows up by "id".
Ahead(id) == {e \in links : e.from = id /\ RepoGetNode(e.to) # {}}
Behind(id) == {e \in links : e.to = id /\ RepoGetNode(e.from) # {}}
RepoNeighbors(id, direction) ==
  CASE direction = "out" -> Ahead(id)
    [] direction = "in" -> Behind(id)
    [] direction = "both" -> IF backend = "memory" THEN Ahead(id) \cup Behind(id) ELSE {}

\* What an operation acknowledged is found again until it is removed: a node by its id and
\* by its identity, with the properties of all upserts of its id; an edge whose ends are
\* there from both of them (the other callers of a GraphRepository rely on it).  In memory
\* an identity has one node.  Not of mongo.go's UpsertNode, which acknowledges what it could
\* not write, and of its reads by id, which find nothing.
AckedIsFound ==
  /\ \A i \in DOMAIN ackedNodes :
       (backend = "mongo" => ackedNodes[i].how = "batch") =>
         /\ i \in RepoFindNodes(ackedNodes[i].key)
         /\ rows[i].fields = ackedNodes[i].fields
         /\ backend # "mongo" => RepoGetNode(i) = {rows[i]}
  /\ \A e \in ackedEdges :
       /\ e \in links
       /\ backend # "mongo" /\ {e.from, e.to} \subseteq DOMAIN rows =>
            e \in RepoNeighbors(e.from, "out") \cap RepoNeighbors(e.to, "in")
  /\ backend = "memory" => \A k \in Identity : Cardinality(RepoFindNodes(k)) <= 1
=============================================================================
