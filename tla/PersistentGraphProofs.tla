----------------------- MODULE PersistentGraphProofs -----------------------
(***************************************************************************)
(* Part 1: the merge of a journal into a graph gives, for every graph and  *)
(* journal, a graph without dangling edges that holds all of the journal.  *)
(* Part 2: IInv is an inductive invariant of PersistentGraph, for every    *)
(* set of processes, ids, identities and values and every cache size; it   *)
(* implies that the shared file behaves as the atomic store of GraphStore. *)
(* Part 3: what a save keeps.  JInv is inductive, and with it every change *)
(* of a journal is in the file when Save clears the journal, and no        *)
(* identity is duplicated.  And what one process's query index shows is    *)
(* what its repository would answer.                                       *)
(* Part 4: the records of what agents claimed and found, which are nodes   *)
(* of the graph, and what the detector of loops says of them.              *)
(***************************************************************************)
EXTENDS GraphQueryIndex, EvidenceLog, FoldProofs, SequenceTheorems, FiniteSetTheorems, WellFoundedInduction, TLAPS

(* Part 1: the merge of a journal into a graph.                            *)

\* A non-empty finite set of natural numbers has a greatest element: the id
\* order of the journal has a last entry (sort.Strings in the merge).
LEMMA GreatestElement ==
  ASSUME NEW S \in SUBSET Nat, IsFiniteSet(S), S # {}
  PROVE  \E m \in S : \A n \in S : n <= m
<1> DEFINE Above(x) == {y \in S : x < y}
<1> DEFINE T == {Cardinality(Above(x)) : x \in S}
<1>1. \A x \in S : IsFiniteSet(Above(x)) /\ Cardinality(Above(x)) \in Nat
  BY FS_Subset, FS_CardinalityType
<1>2. PICK m \in S : \A n \in S : Cardinality(Above(m)) <= Cardinality(Above(n))
  <2>1. T \in SUBSET Nat /\ T # {}
    BY <1>1
  <2>2. \E t \in T : \A u \in T : t <= u
    BY <2>1, LeastNumber
  <2>3. QED BY <2>2
<1>3. ASSUME NEW n \in S, ~ (n <= m)
      PROVE  FALSE
  <2>1. m < n
    BY <1>3
  <2>2. Above(n) \subseteq Above(m) /\ n \in Above(m) /\ n \notin Above(n)
    <3>1. \A y \in S : n < y => m < y
      BY <2>1
    <3>2. ~ (n < n)
      OBVIOUS
    <3>3. QED BY <2>1, <3>1, <3>2
  <2>3. Cardinality(Above(n)) <= Cardinality(Above(m))
        /\ (Cardinality(Above(n)) = Cardinality(Above(m)) => Above(n) = Above(m))
    BY <2>2, <1>1, FS_Subset
  <2>4. Cardinality(Above(n)) < Cardinality(Above(m))
    BY <2>2, <2>3, <1>1
  <2>5. QED BY <2>4, <1>1, <1>2
<1>4. QED BY <1>3

-----------------------------------------------------------------------------
\* A function from some of S to T is a map, and only those are (map[string]X).
LEMMA MapsIntro ==
  ASSUME NEW S, NEW T, NEW D \in SUBSET S, NEW m \in [D -> T]
  PROVE  m \in Maps(S, T)
BY DEF Maps

\* A map has entries only where S and T allow.
LEMMA MapsElim ==
  ASSUME NEW S, NEW T, NEW m \in Maps(S, T)
  PROVE  DOMAIN m \in SUBSET S /\ m \in [DOMAIN m -> T]
BY DEF Maps

\* Setting and deleting entries of a map gives a map.
LEMMA SetWithoutType ==
  ASSUME NEW S, NEW T, NEW m \in Maps(S, T), NEW x \in S, NEW v \in T, NEW R
  PROVE  /\ Set(m, x, v) \in Maps(S, T)
         /\ Without(m, R) \in Maps(S, T)
<1>1. DOMAIN m \in SUBSET S /\ m \in [DOMAIN m -> T]
  BY MapsElim
<1>2. Set(m, x, v) \in [DOMAIN m \cup {x} -> T]
  BY <1>1 DEF Set
<1>3. Without(m, R) \in [DOMAIN m \ R -> T]
  BY <1>1 DEF Without
<1>4. QED BY <1>1, <1>2, <1>3, MapsIntro

\* Deleting entries of a map gives a map (Go: delete).
LEMMA WithoutType ==
  ASSUME NEW S, NEW T, NEW m \in Maps(S, T), NEW R
  PROVE  Without(m, R) \in Maps(S, T) /\ DOMAIN Without(m, R) \subseteq DOMAIN m
<1>1. DOMAIN m \in SUBSET S /\ m \in [DOMAIN m -> T]
  BY MapsElim
<1>2. Without(m, R) \in [DOMAIN m \ R -> T]
  BY <1>1 DEF Without
<1>3. QED BY <1>1, <1>2, MapsIntro

\* The empty graph and the empty journal of a new repository are well typed.
LEMMA EmptyTypes ==
  /\ \A S, T : NoEntries \in Maps(S, T)
  /\ EmptyGraph \in Graph /\ EmptyJournal \in Journal
<1>1. \A S, T : NoEntries \in Maps(S, T)
  <2>1. TAKE S, T
  <2>2. NoEntries \in [{} -> T]
    BY DEF NoEntries
  <2>3. QED BY <2>2, MapsIntro
<1>2. QED BY <1>1 DEF EmptyGraph, EmptyJournal, Graph, Journal

-----------------------------------------------------------------------------
\* Each merged node is a node the graph kept or one the journal wrote, and
\* every node of either is there (first and second part of the merge).
LEMMA MergedNodesType ==
  ASSUME NEW g \in Graph, NEW j \in Journal, NEW f \in Targets(g, j)
  PROVE  /\ MergedNodes(g, j, f) \in Maps(NodeId, Node)
         /\ KeptNodes(g, j) \subseteq DOMAIN MergedNodes(g, j, f)
         /\ \A d \in DOMAIN j.dirty : f[d] \in DOMAIN MergedNodes(g, j, f)
         /\ \A n \in DOMAIN MergedNodes(g, j, f) :
              \/ n \in KeptNodes(g, j) /\ MergedNodes(g, j, f)[n] = g.nodes[n]
              \/ \E d \in DOMAIN j.dirty :
                   f[d] = n /\ MergedNodes(g, j, f)[n] = j.dirty[d]
<1> DEFINE D == KeptNodes(g, j) \cup {f[d] : d \in DOMAIN j.dirty}
           W(n) == {d \in DOMAIN j.dirty : f[d] = n}
           Last(n) == CHOOSE d \in W(n) : \A c \in W(n) : c <= d
           ns == MergedNodes(g, j, f)
<1>1. /\ DOMAIN g.nodes \in SUBSET NodeId /\ g.nodes \in [DOMAIN g.nodes -> Node]
      /\ DOMAIN j.dirty \in SUBSET NodeId /\ j.dirty \in [DOMAIN j.dirty -> Node]
      /\ f \in [DOMAIN j.dirty -> NodeId]
  BY MapsElim DEF Graph, Journal, Targets
<1>2. ns = [n \in D |-> IF W(n) = {} THEN g.nodes[n] ELSE j.dirty[Last(n)]]
  BY DEF MergedNodes
<1>3. ASSUME NEW n \in D, W(n) # {}
      PROVE  Last(n) \in W(n)
  <2>1. W(n) \in SUBSET NodeId
    BY <1>1
  <2>2. W(n) \in SUBSET Nat /\ IsFiniteSet(W(n))
    BY <2>1, IdAssumption, FS_Subset
  <2>3. \E d \in W(n) : \A c \in W(n) : c <= d
    BY <2>2, <1>3, GreatestElement
  <2>4. QED BY <2>3
<1>4. ASSUME NEW n \in D
      PROVE  \/ n \in KeptNodes(g, j) /\ ns[n] = g.nodes[n]
             \/ \E d \in DOMAIN j.dirty : f[d] = n /\ ns[n] = j.dirty[d]
  <2>1. CASE W(n) = {}
    <3>1. n \in KeptNodes(g, j)
      BY <2>1
    <3>2. QED BY <3>1, <2>1, <1>2
  <2>2. CASE W(n) # {}
    <3>1. Last(n) \in DOMAIN j.dirty /\ f[Last(n)] = n
      BY <2>2, <1>3
    <3>2. ns[n] = j.dirty[Last(n)]
      BY <2>2, <1>2
    <3>3. QED BY <3>1, <3>2
  <2>3. QED BY <2>1, <2>2
<1>5. DOMAIN ns = D
  BY <1>2
<1>6. D \in SUBSET NodeId
  BY <1>1 DEF KeptNodes
<1>7. \A n \in D : ns[n] \in Node
  BY <1>4, <1>1 DEF KeptNodes
<1>8. ns \in [D -> Node]
  BY <1>2, <1>7
<1>9. ns \in Maps(NodeId, Node)
  BY <1>6, <1>8, MapsIntro
<1>10. QED BY <1>4, <1>5, <1>9

\* Each merged edge joins two merged nodes if each edge of the graph did.
LEMMA MergedEdgesType ==
  ASSUME NEW g \in Graph, NEW j \in Journal, NEW f \in Targets(g, j)
  PROVE  /\ MergedEdges(g, j, f) \in Maps(EdgeId, Edge)
         /\ KeptEdges(g, j) \subseteq DOMAIN MergedEdges(g, j, f)
         /\ \A e \in DOMAIN MergedEdges(g, j, f) :
              \/ e \in KeptEdges(g, j) /\ MergedEdges(g, j, f)[e] = g.edges[e]
              \/ /\ MergedEdges(g, j, f)[e].from \in DOMAIN MergedNodes(g, j, f)
                 /\ MergedEdges(g, j, f)[e].to \in DOMAIN MergedNodes(g, j, f)
                 /\ e \in DOMAIN j.newEdges
<1> DEFINE A == AddedEdges(g, j, f)
           K == KeptEdges(g, j)
           es == MergedEdges(g, j, f)
           ns == DOMAIN MergedNodes(g, j, f)
<1>1. /\ DOMAIN g.edges \in SUBSET EdgeId /\ g.edges \in [DOMAIN g.edges -> Edge]
      /\ DOMAIN j.newEdges \in SUBSET EdgeId
      /\ ns \in SUBSET NodeId
  <2>1. g.edges \in Maps(EdgeId, Edge) /\ j.newEdges \in Maps(EdgeId, Edge)
    BY DEF Graph, Journal
  <2>2. MergedNodes(g, j, f) \in Maps(NodeId, Node)
    BY MergedNodesType
  <2>3. ns \in SUBSET NodeId
    BY <2>2, MapsElim
  <2>4. QED BY <2>1, <2>3, MapsElim
<1>2. es = [e \in K \cup A |-> IF e \in A THEN Ends(j, f, e) ELSE g.edges[e]]
  BY DEF MergedEdges
<1>3. ASSUME NEW e \in A
      PROVE  /\ e \in DOMAIN j.newEdges /\ es[e] = Ends(j, f, e)
             /\ es[e].from \in ns /\ es[e].to \in ns
  BY <1>2 DEF AddedEdges, Linkable
<1>4. ASSUME NEW e \in K, e \notin A
      PROVE  es[e] = g.edges[e]
  BY <1>2, <1>4
<1>5. K \cup A \in SUBSET EdgeId
  BY <1>1, <1>3 DEF KeptEdges
<1>6. \A e \in K \cup A : es[e] \in Edge
  <2>1. ASSUME NEW e \in A
        PROVE  es[e] \in Edge
    <3>1. Ends(j, f, e).from \in NodeId /\ Ends(j, f, e).to \in NodeId
      BY <1>1, <1>3
    <3>2. Ends(j, f, e) = [from |-> Ends(j, f, e).from, to |-> Ends(j, f, e).to]
      BY DEF Ends
    <3>3. QED BY <1>3, <3>1, <3>2 DEF Edge
  <2>2. ASSUME NEW e \in K, e \notin A
        PROVE  es[e] \in Edge
    BY <1>1, <1>4, <2>2 DEF KeptEdges
  <2>3. QED BY <2>1, <2>2
<1>7. es \in [K \cup A -> Edge]
  BY <1>2, <1>6
<1>8. es \in Maps(EdgeId, Edge)
  BY <1>5, <1>7, MapsIntro
<1>9. DOMAIN es = K \cup A
  BY <1>2
<1>10. QED BY <1>3, <1>4, <1>8, <1>9

\* Merging a journal into a graph gives a graph (mergeJournalSnapshotLocked).
THEOREM MergeType ==
  ASSUME NEW g \in Graph, NEW j \in Journal, NEW h \in Merges(g, j)
  PROVE  h \in Graph
<1>1. PICK f \in Targets(g, j) :
        h = [nodes |-> MergedNodes(g, j, f), edges |-> MergedEdges(g, j, f)]
  BY DEF Merges
<1>2. QED BY <1>1, MergedNodesType, MergedEdgesType DEF Graph

\* A merge leaves no dangling edge: the edges of deleted nodes go with them and
\* new edges without both ends are dropped (mergeJournalSnapshotLocked).
THEOREM MergeClosed ==
  ASSUME NEW g \in Graph, Closed(g), NEW j \in Journal, NEW h \in Merges(g, j)
  PROVE  Closed(h)
<1>1. PICK f \in Targets(g, j) :
        h = [nodes |-> MergedNodes(g, j, f), edges |-> MergedEdges(g, j, f)]
  BY DEF Merges
<1>2. SUFFICES ASSUME NEW e \in DOMAIN h.edges
               PROVE  h.edges[e].from \in DOMAIN h.nodes /\ h.edges[e].to \in DOMAIN h.nodes
  BY DEF Closed
<1>3. KeptNodes(g, j) \subseteq DOMAIN h.nodes
  <2>1. KeptNodes(g, j) \subseteq DOMAIN MergedNodes(g, j, f)
    BY MergedNodesType
  <2>2. QED BY <1>1, <2>1
<1>4. CASE e \in KeptEdges(g, j) /\ h.edges[e] = g.edges[e]
  BY <1>3, <1>4 DEF KeptEdges, KeptNodes, Closed
<1>5. CASE h.edges[e].from \in DOMAIN h.nodes /\ h.edges[e].to \in DOMAIN h.nodes
  BY <1>5
<1>6. QED BY <1>1, <1>2, <1>4, <1>5, MergedEdgesType

\* Merging an empty journal changes nothing: a read of an unmodified repository
\* returns the file (readEffectiveStateLocked with nothing unsaved).
THEOREM MergeNothing ==
  ASSUME NEW g \in Graph, NEW h \in Merges(g, EmptyJournal)
  PROVE  h = g
<1> DEFINE j == EmptyJournal
<1>1. PICK f \in Targets(g, j) :
        h = [nodes |-> MergedNodes(g, j, f), edges |-> MergedEdges(g, j, f)]
  BY DEF Merges
<1>2. /\ DOMAIN j.dirty = {} /\ DOMAIN j.newEdges = {}
      /\ j.deletedNodes = {} /\ j.deletedEdges = {}
  BY DEF EmptyJournal, NoEntries
<1>3. /\ g.nodes \in [DOMAIN g.nodes -> Node] /\ g.edges \in [DOMAIN g.edges -> Edge]
      /\ g = [nodes |-> g.nodes, edges |-> g.edges]
  BY MapsElim DEF Graph
<1>4. MergedNodes(g, j, f) = g.nodes
  <2>1. KeptNodes(g, j) = DOMAIN g.nodes
    BY <1>2 DEF KeptNodes
  <2>2. MergedNodes(g, j, f) = [n \in DOMAIN g.nodes |-> g.nodes[n]]
    BY <1>2, <2>1 DEF MergedNodes
  <2>3. QED BY <2>2, <1>3
<1>5. MergedEdges(g, j, f) = g.edges
  <2>1. KeptEdges(g, j) = DOMAIN g.edges /\ AddedEdges(g, j, f) = {}
    BY <1>2 DEF KeptEdges, AddedEdges, Linkable
  <2>2. MergedEdges(g, j, f) = [e \in DOMAIN g.edges |-> g.edges[e]]
    BY <2>1 DEF MergedEdges
  <2>3. QED BY <2>2, <1>3
<1>6. QED BY <1>1, <1>3, <1>4, <1>5

\* A merge drops or changes only what the journal names: other nodes and edges
\* of the graph are in the merged graph as they were, if no edge of the journal
\* has the id of one of the graph (mergeJournalSnapshotLocked).
THEOREM MergeLosesNothing ==
  ASSUME NEW g \in Graph, NEW j \in Journal, NEW h \in Merges(g, j),
         DOMAIN j.newEdges \cap DOMAIN g.edges = {}
  PROVE  /\ \A n \in DOMAIN g.nodes \ j.deletedNodes :
              /\ n \in DOMAIN h.nodes
              /\ \/ h.nodes[n] = g.nodes[n]
                 \/ \E d \in DOMAIN j.dirty : h.nodes[n] = j.dirty[d]
         /\ \A e \in DOMAIN g.edges \ j.deletedEdges :
              \/ e \in DOMAIN h.edges /\ h.edges[e] = g.edges[e]
              \/ {g.edges[e].from, g.edges[e].to} \cap j.deletedNodes # {}
<1>1. PICK f \in Targets(g, j) :
        h = [nodes |-> MergedNodes(g, j, f), edges |-> MergedEdges(g, j, f)]
  BY DEF Merges
<1>2. ASSUME NEW n \in DOMAIN g.nodes \ j.deletedNodes
      PROVE  /\ n \in DOMAIN h.nodes
             /\ \/ h.nodes[n] = g.nodes[n]
                \/ \E d \in DOMAIN j.dirty : h.nodes[n] = j.dirty[d]
  <2>1. n \in KeptNodes(g, j)
    BY DEF KeptNodes
  <2>2. n \in DOMAIN MergedNodes(g, j, f)
    BY <2>1, MergedNodesType
  <2>3. QED BY <1>1, <2>2, MergedNodesType
<1>3. ASSUME NEW e \in DOMAIN g.edges \ j.deletedEdges,
             {g.edges[e].from, g.edges[e].to} \cap j.deletedNodes = {}
      PROVE  e \in DOMAIN h.edges /\ h.edges[e] = g.edges[e]
  <2>1. e \in KeptEdges(g, j)
    BY <1>3 DEF KeptEdges
  <2>2. e \in DOMAIN MergedEdges(g, j, f) /\ e \notin DOMAIN j.newEdges
    BY <2>1, MergedEdgesType
  <2>3. QED BY <1>1, <2>2, MergedEdgesType
<1>4. QED BY <1>2, <1>3

-----------------------------------------------------------------------------
(* What a merge keeps of the journal, when node ids stand for identities   *)
(* and the journal does not write what it deletes.                         *)

\* Node ids mean the same identities in the graph and in the journal.
Agree(g, j) ==
  \A n \in DOMAIN g.nodes \cap DOMAIN j.dirty : g.nodes[n].key = j.dirty[n].key

Consistent(g, j) ==
  /\ Agree(g, j)
  /\ DOMAIN j.dirty \cap j.deletedNodes = {} /\ DOMAIN j.newEdges \cap j.deletedEdges = {}
  /\ DOMAIN j.newEdges \cap DOMAIN g.edges = {}

\* A journaled node goes to its own id or to a node with its identity.
LEMMA TargetCases ==
  ASSUME NEW g, NEW j, NEW f \in Targets(g, j), NEW d \in DOMAIN j.dirty
  PROVE  \/ f[d] = d
         \/ f[d] \in KeptNodes(g, j) /\ g.nodes[f[d]].key = j.dirty[d].key
BY DEF Targets, Holders

\* Every merged node has the identity its id has in the graph or the journal.
LEMMA MergedKeys ==
  ASSUME NEW g \in Graph, NEW j \in Journal, NEW f \in Targets(g, j),
         NEW n \in DOMAIN MergedNodes(g, j, f)
  PROVE  \/ n \in KeptNodes(g, j) /\ MergedNodes(g, j, f)[n].key = g.nodes[n].key
         \/ n \in DOMAIN j.dirty /\ MergedNodes(g, j, f)[n].key = j.dirty[n].key
<1>1. CASE n \in KeptNodes(g, j) /\ MergedNodes(g, j, f)[n] = g.nodes[n]
  BY <1>1
<1>2. CASE \E d \in DOMAIN j.dirty : f[d] = n /\ MergedNodes(g, j, f)[n] = j.dirty[d]
  BY <1>2, TargetCases
<1>3. QED BY <1>1, <1>2, MergedNodesType

\* No merged node is one the journal deletes.
LEMMA MergedNotDeleted ==
  ASSUME NEW g \in Graph, NEW j \in Journal, NEW f \in Targets(g, j),
         DOMAIN j.dirty \cap j.deletedNodes = {}
  PROVE  DOMAIN MergedNodes(g, j, f) \cap j.deletedNodes = {}
BY MergedKeys DEF KeptNodes

\* The node a journaled node goes to has its identity after the merge.
LEMMA TargetKey ==
  ASSUME NEW g \in Graph, NEW j \in Journal, Agree(g, j),
         NEW f \in Targets(g, j), NEW d \in DOMAIN j.dirty
  PROVE  /\ f[d] \in DOMAIN MergedNodes(g, j, f)
         /\ MergedNodes(g, j, f)[f[d]].key = j.dirty[d].key
<1>1. f[d] \in DOMAIN MergedNodes(g, j, f)
  BY MergedNodesType
<1>2. f[d] \in KeptNodes(g, j) => f[d] \in DOMAIN g.nodes
  BY DEF KeptNodes
<1>3. QED BY <1>1, <1>2, MergedKeys, TargetCases DEF Agree

\* A node is found where the merge has moved it.
LEMMA MovedHome ==
  ASSUME NEW g \in Graph, NEW j \in Journal, Agree(g, j), NEW f \in Targets(g, j), NEW h,
         h = [nodes |-> MergedNodes(g, j, f), edges |-> MergedEdges(g, j, f)],
         NEW n, Homes(h, j, n) # {}
  PROVE  Moved(f, n) \in Homes(h, j, n)
<1>1. DOMAIN f = DOMAIN j.dirty
  BY DEF Targets
<1>2. CASE n \in DOMAIN j.dirty
  BY <1>1, <1>2, TargetKey DEF Homes, Moved
<1>3. CASE n \notin DOMAIN j.dirty
  BY <1>1, <1>3 DEF Homes, Moved
<1>4. QED BY <1>2, <1>3

\* Of the new edges between two merged nodes one is merged, or the graph had it.
LEMMA LinkableMerged ==
  ASSUME NEW g \in Graph, NEW j \in Journal, Consistent(g, j), NEW f \in Targets(g, j),
         NEW e \in Linkable(g, j, f)
  PROVE  \E d \in DOMAIN MergedEdges(g, j, f) : MergedEdges(g, j, f)[d] = Ends(j, f, e)
<1> DEFINE A == AddedEdges(g, j, f)
           K == KeptEdges(g, j)
           es == MergedEdges(g, j, f)
           Same == {d \in Linkable(g, j, f) : Ends(j, f, d) = Ends(j, f, e)}
<1>1. es = [d \in K \cup A |-> IF d \in A THEN Ends(j, f, d) ELSE g.edges[d]]
  BY DEF MergedEdges
<1>2. CASE \E k \in K : g.edges[k] = Ends(j, f, e)
  <2>1. PICK k \in K : g.edges[k] = Ends(j, f, e)
    BY <1>2
  <2>2. k \notin A
    BY DEF KeptEdges, AddedEdges, Linkable, Consistent
  <2>3. QED BY <1>1, <2>1, <2>2
<1>3. CASE \A k \in K : g.edges[k] # Ends(j, f, e)
  <2>1. Same \in SUBSET Nat /\ Same # {}
    <3>1. j.newEdges \in Maps(EdgeId, Edge)
      BY DEF Journal
    <3>2. DOMAIN j.newEdges \in SUBSET EdgeId
      BY <3>1, MapsElim
    <3>3. QED BY <3>2, IdAssumption DEF Linkable
  <2>2. PICK d \in Same : \A c \in Same : d <= c
    BY <2>1, LeastNumber
  <2>3. d \in A
    BY <1>3, <2>2 DEF AddedEdges
  <2>4. QED BY <1>1, <2>2, <2>3
<1>4. QED BY <1>2, <1>3

\* A merge of a consistent journal has every change of the journal
\* (mergeJournalSnapshotLocked): Save may clear it.
THEOREM MergeKeepsJournal ==
  ASSUME NEW g \in Graph, NEW j \in Journal, Consistent(g, j), NEW h \in Merges(g, j)
  PROVE  KeepsJournal(h, j)
<1>1. PICK f \in Targets(g, j) :
        h = [nodes |-> MergedNodes(g, j, f), edges |-> MergedEdges(g, j, f)]
  BY DEF Merges
<1>2. Agree(g, j)
  BY DEF Consistent
<1>3. ASSUME NEW d \in DOMAIN j.dirty
      PROVE  Homes(h, j, d) # {}
  BY <1>1, <1>2, TargetKey DEF Homes
<1>4. DOMAIN h.nodes \cap j.deletedNodes = {}
  BY <1>1, MergedNotDeleted DEF Consistent
<1>5. DOMAIN h.edges \cap j.deletedEdges = {}
  BY <1>1 DEF MergedEdges, KeptEdges, AddedEdges, Linkable, Consistent
<1>6. ASSUME NEW e \in DOMAIN j.newEdges,
             Homes(h, j, j.newEdges[e].from) # {}, Homes(h, j, j.newEdges[e].to) # {}
      PROVE  \E d \in DOMAIN h.edges : /\ h.edges[d].from \in Homes(h, j, j.newEdges[e].from)
                                       /\ h.edges[d].to \in Homes(h, j, j.newEdges[e].to)
  <2>1. /\ Ends(j, f, e).from \in Homes(h, j, j.newEdges[e].from)
        /\ Ends(j, f, e).to \in Homes(h, j, j.newEdges[e].to)
    BY <1>1, <1>2, <1>6, MovedHome DEF Ends
  <2>2. \A n : Homes(h, j, n) \subseteq DOMAIN h.nodes
    BY DEF Homes
  <2>3. e \in Linkable(g, j, f)
    BY <1>1, <2>1, <2>2 DEF Linkable
  <2>4. QED BY <1>1, <2>1, <2>3, LinkableMerged
<1>7. QED BY <1>3, <1>4, <1>5, <1>6 DEF KeepsJournal

\* A merge does not duplicate an identity that the graph and the journal each
\* hold at most once (mergeJournalSnapshotLocked).
THEOREM MergeKeepsKeysUnique ==
  ASSUME NEW g \in Graph, NEW j \in Journal, Agree(g, j), NEW h \in Merges(g, j),
         UniqueKeys(g), UniqueKeys([nodes |-> j.dirty])
  PROVE  UniqueKeys(h)
<1>1. PICK f \in Targets(g, j) :
        h = [nodes |-> MergedNodes(g, j, f), edges |-> MergedEdges(g, j, f)]
  BY DEF Merges
<1> DEFINE Old(n) == n \in KeptNodes(g, j) /\ h.nodes[n].key = g.nodes[n].key
           New(n) == \E d \in DOMAIN j.dirty : f[d] = n /\ h.nodes[n].key = j.dirty[d].key
<1>2. \A n \in DOMAIN h.nodes : Old(n) \/ New(n)
  BY <1>1, MergedNodesType
<1>3. \A n : n \in KeptNodes(g, j) => n \in DOMAIN g.nodes
  BY DEF KeptNodes
<1>4. ASSUME NEW m \in DOMAIN h.nodes, NEW n \in DOMAIN h.nodes,
             h.nodes[m].key = h.nodes[n].key, Old(m), Old(n)
      PROVE  m = n
  BY <1>3, <1>4 DEF UniqueKeys
<1>5. ASSUME NEW m \in DOMAIN h.nodes, NEW n \in DOMAIN h.nodes,
             h.nodes[m].key = h.nodes[n].key, New(m), New(n)
      PROVE  m = n
  BY <1>5 DEF UniqueKeys
<1>6. ASSUME NEW m \in DOMAIN h.nodes, NEW n \in DOMAIN h.nodes,
             h.nodes[m].key = h.nodes[n].key, Old(m), New(n)
      PROVE  m = n
  <2>1. PICK d \in DOMAIN j.dirty : f[d] = n /\ h.nodes[n].key = j.dirty[d].key
    BY <1>6
  <2>2. m \in Holders(g, j, j.dirty[d].key)
    BY <1>6, <2>1 DEF Holders
  <2>3. n \in KeptNodes(g, j) /\ g.nodes[n].key = j.dirty[d].key
    <3>1. CASE d \in KeptNodes(g, j)
      BY <1>3, <2>1, <3>1 DEF Targets, Agree
    <3>2. CASE d \notin KeptNodes(g, j)
      BY <2>1, <2>2, <3>2 DEF Targets, Holders
    <3>3. QED BY <3>1, <3>2
  <2>4. QED BY <1>3, <1>6, <2>1, <2>3 DEF UniqueKeys
<1>7. SUFFICES ASSUME NEW m \in DOMAIN h.nodes, NEW n \in DOMAIN h.nodes,
                      h.nodes[m].key = h.nodes[n].key
               PROVE  m = n
  BY DEF UniqueKeys
<1>8. QED BY <1>2, <1>4, <1>5, <1>6, <1>7

-----------------------------------------------------------------------------
(* Part 2: the processes that share the file.                              *)

USE GraphAssumption, IdAssumption

\* Putting nodes into the cache leaves a cache of nodes (persistentCache).
LEMMA PutsType ==
  ASSUME NEW c \in Maps(NodeId, Node), NEW new \in Maps(NodeId, Node), NEW m \in Puts(c, new)
  PROVE  m \in Maps(NodeId, Node)
<1>1. /\ DOMAIN c \in SUBSET NodeId /\ c \in [DOMAIN c -> Node]
      /\ DOMAIN new \in SUBSET NodeId /\ new \in [DOMAIN new -> Node]
  BY MapsElim
<1>2. PICK D \in SUBSET (DOMAIN c \cup DOMAIN new) :
        m = [n \in D |-> IF n \in DOMAIN new THEN new[n] ELSE c[n]]
  BY DEF Puts
<1>3. m \in [D -> Node]
  BY <1>1, <1>2
<1>4. D \in SUBSET NodeId
  BY <1>1
<1>5. QED BY <1>3, <1>4, MapsIntro

\* Putting entries into the bounded node cache keeps it a map of nodes.
LEMMA CachePutType ==
  ASSUME TypeOK, NEW p \in Proc, NEW new \in Maps(NodeId, Node), CachePut(p, new)
  PROVE  lru' \in [Proc -> Maps(NodeId, Node)]
<1>1. PICK c \in Puts(lru[p], new) : lru' = [lru EXCEPT ![p] = c]
  BY DEF CachePut
<1>2. lru[p] \in Maps(NodeId, Node)
  BY DEF TypeOK
<1>3. c \in Maps(NodeId, Node)
  BY <1>1, <1>2, PutsType
<1>4. QED BY <1>1, <1>3 DEF TypeOK

\* One node under one id is a map of nodes: what UpsertNode and GetNode cache.
LEMMA OneEntryType ==
  ASSUME NEW n \in NodeId, NEW v \in Node
  PROVE  Set(NoEntries, n, v) \in Maps(NodeId, Node)
BY EmptyTypes, SetWithoutType

\* A read step: what readEffectiveStateLocked returns is a graph without
\* dangling edges, and the copy it leaves is still the file's if it claims to be.
LEMMA ViewStep ==
  ASSUME IInv, NEW p \in Proc, NEW g, View(p, g)
  PROVE  /\ g \in Graph /\ Closed(g)
         /\ pc[p] = "stated" /\ pc' = [pc EXCEPT ![p] = "idle"]
         /\ cached' \in [Proc -> Graph \cup {NoGraph}]
         /\ \A q \in Proc : cached'[q] # NoGraph => Closed(cached'[q])
         /\ cstamp' \in [Proc -> Nat] /\ seen' \in [Proc -> Nat]
         /\ \A q \in Proc : cstamp'[q] <= stamp /\ seen'[q] <= stamp
         /\ \A q \in Proc : cached'[q] # NoGraph /\ cstamp'[q] = stamp /\ JournalEmpty(q)
                              => cached'[q] = disk
<1>1. /\ journal[p] \in Journal /\ disk \in Graph /\ Closed(disk)
      /\ cached[p] \in Graph \cup {NoGraph}
      /\ cached[p] # NoGraph => Closed(cached[p])
  BY DEF IInv, TypeOK, NoDanglingEdges
<1>2. Base(p) \in Graph /\ Closed(Base(p))
  BY <1>1 DEF Base, CopyIsCurrent
<1>3. g \in Merges(Base(p), journal[p])
  BY DEF View
<1>4. g \in Graph /\ Closed(g)
  BY <1>1, <1>2, <1>3, MergeType, MergeClosed
<1>5. g # NoGraph
  BY <1>4
<1>6. /\ pc[p] = "stated" /\ pc' = [pc EXCEPT ![p] = "idle"]
      /\ seen' = [seen EXCEPT ![p] = 0]
  BY DEF View
<1>7. CASE CopyIsCurrent(p)
  <2>1. cached' = cached /\ cstamp' = cstamp
    BY <1>7 DEF View
  <2>2. QED BY <2>1, <1>4, <1>6 DEF IInv, TypeOK, NoDanglingEdges, CleanCopyIsFile
<1>8. CASE ~ CopyIsCurrent(p)
  <2>1. cached' = [cached EXCEPT ![p] = g] /\ cstamp' = [cstamp EXCEPT ![p] = seen[p]]
    BY <1>8 DEF View
  <2>2. JournalEmpty(p) => g = disk
    <3>1. Base(p) = disk
      BY <1>8 DEF Base
    <3>2. QED BY <3>1, <1>1, <1>3, MergeNothing DEF JournalEmpty
  <2>3. /\ cached' \in [Proc -> Graph \cup {NoGraph}]
        /\ cstamp' \in [Proc -> Nat] /\ seen' \in [Proc -> Nat]
    BY <2>1, <1>4, <1>6 DEF IInv, TypeOK
  <2>4. \A q \in Proc : cached'[q] # NoGraph => Closed(cached'[q])
    BY <2>1, <1>4 DEF IInv, TypeOK, NoDanglingEdges
  <2>5. \A q \in Proc : cstamp'[q] <= stamp /\ seen'[q] <= stamp
    BY <2>1, <1>6 DEF IInv, TypeOK
  <2>6. \A q \in Proc : cached'[q] # NoGraph /\ cstamp'[q] = stamp /\ JournalEmpty(q)
                          => cached'[q] = disk
    BY <2>1, <2>2 DEF IInv, TypeOK, CleanCopyIsFile
  <2>7. QED BY <2>3, <2>4, <2>5, <2>6, <1>4, <1>6
<1>9. QED BY <1>7, <1>8

-----------------------------------------------------------------------------
\* A step of p outside Save leaves the saves of the others alone.
LEMMA OutsideSave ==
  ASSUME IInv, NEW p \in Proc, UNCHANGED <<disk, tmp, lock>>,
         pc[p] \in {"down", "idle", "stated"}, NEW s \in {"idle", "stated"},
         pc' = [pc EXCEPT ![p] = s],
         \A q \in Proc \ {p} : journal'[q] = journal[q]
  PROVE  SavesAreSerialized' /\ pc' \in [Proc -> PCs]
<1>1. pc \in [Proc -> PCs]
  BY DEF IInv, TypeOK
<1>2. ASSUME NEW q \in Proc
      PROVE  /\ pc'[q] \in {"locked", "written"} => lock' = q
             /\ pc'[q] = "written" => tmp' \in Merges(disk', journal'[q])
  <2>1. CASE q = p
    BY <2>1, <1>1
  <2>2. CASE q # p
    <3>1. pc'[q] = pc[q] /\ journal'[q] = journal[q]
      BY <2>2, <1>1
    <3>2. QED BY <3>1 DEF IInv, SavesAreSerialized
  <2>3. QED BY <2>1, <2>2
<1>3. QED BY <1>1, <1>2 DEF SavesAreSerialized, PCs

\* A read that changes neither file nor journal keeps the invariant.
LEMMA ReadStep ==
  ASSUME IInv, NEW p \in Proc, NEW g, View(p, g),
         UNCHANGED <<fileVars, idVars, journal>>,
         lru' \in [Proc -> Maps(NodeId, Node)], gen' = [gen EXCEPT ![p] = @ + Bump(p)]
  PROVE  IInv'
<1>1. UNCHANGED <<disk, stamp, tmp, lock, usedNodes, usedEdges, journal>>
  BY DEF fileVars, idVars
<1>2. SavesAreSerialized' /\ pc' \in [Proc -> PCs]
  <2>1. pc[p] = "stated" /\ pc' = [pc EXCEPT ![p] = "idle"]
    BY ViewStep
  <2>2. QED BY <1>1, <2>1, OutsideSave
<1>3. gen' \in [Proc -> Nat]
  BY DEF Bump, IInv, TypeOK
<1>4. TypeOK'
  BY <1>1, <1>2, <1>3, ViewStep DEF IInv, TypeOK
<1>5. NoDanglingEdges'
  BY <1>1, ViewStep DEF IInv, NoDanglingEdges
<1>6. CleanCopyIsFile'
  BY <1>1, ViewStep DEF CleanCopyIsFile, JournalEmpty
<1>7. EdgeIdsFresh'
  BY <1>1 DEF IInv, EdgeIdsFresh
<1>8. /\ (DOMAIN disk.edges \subseteq usedEdges)'
      /\ (\A q \in Proc : cstamp[q] <= stamp /\ seen[q] <= stamp)'
  BY <1>1, ViewStep DEF IInv
<1>9. QED BY <1>2, <1>4, <1>5, <1>6, <1>7, <1>8 DEF IInv

\* Snapshots, counts and generation reads keep the invariant.
LEMMA LookStep == ASSUME IInv, NEW p \in Proc, Look(p) PROVE IInv'
<1>1. PICK g : View(p, g)
  BY DEF Look
<1>2. UNCHANGED <<fileVars, idVars, journal>> /\ gen' = [gen EXCEPT ![p] = @ + Bump(p)]
  BY DEF Look
<1>3. lru' \in [Proc -> Maps(NodeId, Node)]
  BY DEF Look, IInv, TypeOK
<1>4. QED BY <1>1, <1>2, <1>3, ReadStep

\* The nodes of a graph restricted to some of its ids, as a cache entry list.
LEMMA SomeNodesType ==
  ASSUME NEW g \in Graph, NEW D \in SUBSET (DOMAIN g.nodes)
  PROVE  [n \in D |-> g.nodes[n]] \in Maps(NodeId, Node)
<1>1. DOMAIN g.nodes \in SUBSET NodeId /\ g.nodes \in [DOMAIN g.nodes -> Node]
  <2>1. g.nodes \in Maps(NodeId, Node)
    BY DEF Graph
  <2>2. QED BY <2>1, MapsElim
<1>2. D \in SUBSET NodeId /\ [n \in D |-> g.nodes[n]] \in [D -> Node]
  BY <1>1
<1>3. QED BY <1>2, MapsIntro

\* FindNodes keeps the invariant.
LEMMA FindNodesStep == ASSUME IInv, NEW p \in Proc, NEW ks, FindNodes(p, ks) PROVE IInv'
<1> DEFINE found(g) == {n \in DOMAIN g.nodes : g.nodes[n].key \in ks}
<1>1. PICK g : View(p, g) /\ CachePut(p, [n \in found(g) |-> g.nodes[n]])
  BY DEF FindNodes
<1>2. UNCHANGED <<fileVars, idVars, journal>> /\ gen' = [gen EXCEPT ![p] = @ + Bump(p)]
  BY DEF FindNodes
<1>3. lru' \in [Proc -> Maps(NodeId, Node)]
  <2>1. [n \in found(g) |-> g.nodes[n]] \in Maps(NodeId, Node)
    BY <1>1, ViewStep, SomeNodesType
  <2>2. QED BY <1>1, <2>1, CachePutType DEF IInv
<1>4. QED BY <1>1, <1>2, <1>3, ReadStep

\* Neighbors keeps the invariant.
LEMMA NeighborsStep == ASSUME IInv, NEW p \in Proc, NEW n, Neighbors(p, n) PROVE IInv'
<1> DEFINE ends(g) == {g.edges[e] : e \in DOMAIN g.edges}
           found(g) == {m \in DOMAIN g.nodes : [from |-> n, to |-> m] \in ends(g)
                                               \/ [from |-> m, to |-> n] \in ends(g)}
<1>1. PICK g : View(p, g) /\ CachePut(p, [m \in found(g) |-> g.nodes[m]])
  BY DEF Neighbors
<1>2. UNCHANGED <<fileVars, idVars, journal>> /\ gen' = [gen EXCEPT ![p] = @ + Bump(p)]
  BY DEF Neighbors
<1>3. lru' \in [Proc -> Maps(NodeId, Node)]
  <2>1. [m \in found(g) |-> g.nodes[m]] \in Maps(NodeId, Node)
    BY <1>1, ViewStep, SomeNodesType
  <2>2. QED BY <1>1, <2>1, CachePutType DEF IInv
<1>4. QED BY <1>1, <1>2, <1>3, ReadStep

\* GetNode keeps the invariant, also when the node is only in the journal.
LEMMA GetNodeStep == ASSUME IInv, NEW p \in Proc, NEW n \in NodeId, GetNode(p, n) PROVE IInv'
<1>1. PICK g : /\ View(p, g)
               /\ IF n \in DOMAIN g.nodes
                  THEN CachePut(p, Set(NoEntries, n, g.nodes[n]))
                  ELSE IF n \in DOMAIN journal[p].dirty
                       THEN CachePut(p, Set(NoEntries, n, journal[p].dirty[n]))
                       ELSE UNCHANGED lru
  BY DEF GetNode
<1>2. UNCHANGED <<fileVars, idVars, journal>> /\ gen' = [gen EXCEPT ![p] = @ + Bump(p)]
  BY DEF GetNode
<1>3. lru' \in [Proc -> Maps(NodeId, Node)]
  <2>1. /\ g.nodes \in [DOMAIN g.nodes -> Node]
        /\ journal[p].dirty \in [DOMAIN journal[p].dirty -> Node]
    <3>1. g.nodes \in Maps(NodeId, Node)
      BY <1>1, ViewStep DEF Graph
    <3>2. journal[p].dirty \in Maps(NodeId, Node)
      BY DEF IInv, TypeOK, Journal
    <3>3. QED BY <3>1, <3>2, MapsElim
  <2>2. CASE n \in DOMAIN g.nodes
    <3>1. Set(NoEntries, n, g.nodes[n]) \in Maps(NodeId, Node)
      BY <2>1, <2>2, OneEntryType
    <3>2. QED BY <1>1, <2>2, <3>1, CachePutType DEF IInv
  <2>3. CASE n \notin DOMAIN g.nodes /\ n \in DOMAIN journal[p].dirty
    <3>1. Set(NoEntries, n, journal[p].dirty[n]) \in Maps(NodeId, Node)
      BY <2>1, <2>3, OneEntryType
    <3>2. QED BY <1>1, <2>3, <3>1, CachePutType DEF IInv
  <2>4. CASE n \notin DOMAIN g.nodes /\ n \notin DOMAIN journal[p].dirty
    BY <1>1, <2>4 DEF IInv, TypeOK
  <2>5. QED BY <2>2, <2>3, <2>4
<1>4. QED BY <1>1, <1>2, <1>3, ReadStep


-----------------------------------------------------------------------------
\* A change p journals is a journal, is not empty, and disturbs nobody else.
LEMMA UpsertNodeStep ==
  ASSUME IInv, NEW p \in Proc, NEW k \in Key, NEW v \in Val, UpsertNode(p, k, v)
  PROVE  IInv' /\ journal'[p] \in Journal /\ UNCHANGED disk
               /\ journal' = [journal EXCEPT ![p] = journal'[p]]
<1> DEFINE node == [key |-> k, val |-> v]
<1>0. PICK g \in Merges(Base(p), journal[p]) :
        \E n \in UpsertTargets(g, k) :
          /\ View(p, g)
          /\ CachePut(p, Set(NoEntries, n, node))
          /\ journal' = [journal EXCEPT ![p].dirty = Set(@, n, node)]
          /\ usedNodes' = usedNodes \cup {n}
  BY DEF UpsertNode
<1>1. PICK n \in UpsertTargets(g, k) :
        /\ View(p, g)
        /\ CachePut(p, Set(NoEntries, n, node))
        /\ journal' = [journal EXCEPT ![p].dirty = Set(@, n, node)]
        /\ usedNodes' = usedNodes \cup {n}
  BY <1>0
<1>2. /\ UNCHANGED <<disk, stamp, tmp, lock, usedEdges>>
      /\ gen' = [gen EXCEPT ![p] = @ + 1 + Bump(p)]
  BY DEF UpsertNode, fileVars
<1>3. n \in NodeId /\ node \in Node
  <2>1. DOMAIN g.nodes \in SUBSET NodeId
    <3>1. g.nodes \in Maps(NodeId, Node)
      BY <1>1, ViewStep DEF Graph
    <3>2. QED BY <3>1, MapsElim
  <2>2. QED BY <2>1 DEF UpsertTargets, Node
<1>4. /\ journal[p] \in Journal /\ journal \in [Proc -> Journal]
      /\ journal[p].dirty \in Maps(NodeId, Node)
  BY DEF IInv, TypeOK, Journal
<1>5. Set(journal[p].dirty, n, node) \in Maps(NodeId, Node)
  BY <1>3, <1>4, SetWithoutType
<1>6. journal'[p] = [journal[p] EXCEPT !.dirty = Set(journal[p].dirty, n, node)]
  BY <1>1, <1>4
<1>7. /\ journal'[p] \in Journal
      /\ journal'[p].dirty = Set(journal[p].dirty, n, node)
      /\ journal'[p].newEdges = journal[p].newEdges
  BY <1>4, <1>5, <1>6 DEF Journal
<1>8. journal' = [journal EXCEPT ![p] = journal'[p]]
  BY <1>1, <1>4
<1>9. journal'[p] # EmptyJournal
  <2>1. n \in DOMAIN Set(journal[p].dirty, n, node)
    BY DEF Set
  <2>2. DOMAIN EmptyJournal.dirty = {}
    BY DEF EmptyJournal, NoEntries
  <2>3. QED BY <1>7, <2>1, <2>2
<1>10. \A q \in Proc : JournalEmpty(q)' => JournalEmpty(q)
  BY <1>8, <1>9, <1>4 DEF JournalEmpty
<1>11. SavesAreSerialized' /\ pc' \in [Proc -> PCs]
  <2>1. pc[p] = "stated" /\ pc' = [pc EXCEPT ![p] = "idle"]
    BY <1>1, ViewStep
  <2>2. \A q \in Proc \ {p} : journal'[q] = journal[q]
    BY <1>8, <1>4
  <2>3. QED BY <1>2, <2>1, <2>2, OutsideSave
<1>12. TypeOK'
  <2>1. lru' \in [Proc -> Maps(NodeId, Node)]
    <3>1. Set(NoEntries, n, node) \in Maps(NodeId, Node)
      BY <1>3, OneEntryType
    <3>2. QED BY <1>1, <3>1, CachePutType DEF IInv
  <2>2. gen' \in [Proc -> Nat]
    BY <1>2 DEF Bump, IInv, TypeOK
  <2>3. journal' \in [Proc -> Journal]
    BY <1>4, <1>7, <1>8
  <2>4. QED BY <1>1, <1>2, <1>3, <1>11, <2>1, <2>2, <2>3, ViewStep DEF IInv, TypeOK
<1>13. NoDanglingEdges'
  BY <1>1, <1>2, ViewStep DEF IInv, NoDanglingEdges
<1>14. CleanCopyIsFile'
  BY <1>1, <1>2, <1>10, ViewStep DEF CleanCopyIsFile
<1>15. EdgeIdsFresh'
  <2>1. \A q \in Proc : journal'[q].newEdges = journal[q].newEdges
    BY <1>7, <1>8, <1>4
  <2>2. QED BY <1>2, <2>1 DEF IInv, EdgeIdsFresh
<1>16. /\ (DOMAIN disk.edges \subseteq usedEdges)'
       /\ (\A q \in Proc : cstamp[q] <= stamp /\ seen[q] <= stamp)'
  BY <1>1, <1>2, ViewStep DEF IInv
<1>17. QED BY <1>2, <1>7, <1>8, <1>11, <1>12, <1>13, <1>14, <1>15, <1>16 DEF IInv

\* Link keeps the invariant: the id of a new edge is fresh.
LEMMA LinkStep ==
  ASSUME IInv, NEW p \in Proc, NEW from \in NodeId, NEW to \in NodeId, Link(p, from, to)
  PROVE  IInv' /\ journal'[p] \in Journal /\ UNCHANGED disk
               /\ journal' = [journal EXCEPT ![p] = journal'[p]]
<1> DEFINE edge == [from |-> from, to |-> to]
<1>1. PICK g \in Merges(Base(p), journal[p]) :
        /\ View(p, g)
        /\ IF \E e \in DOMAIN g.edges : g.edges[e] = edge
           THEN UNCHANGED <<journal, usedEdges>>
           ELSE \E e \in EdgeId \ usedEdges :
                  /\ journal' = [journal EXCEPT ![p].newEdges = Set(@, e, edge)]
                  /\ usedEdges' = usedEdges \cup {e}
  BY DEF Link
<1>2. /\ UNCHANGED <<disk, stamp, tmp, lock, usedNodes, lru>>
      /\ gen' = [gen EXCEPT ![p] = @ + 1 + Bump(p)]
  BY DEF Link, fileVars
<1>3. /\ journal[p] \in Journal /\ journal \in [Proc -> Journal]
      /\ journal[p].newEdges \in Maps(EdgeId, Edge)
  BY DEF IInv, TypeOK, Journal
<1>4. \/ UNCHANGED <<journal, usedEdges>>
      \/ \E e \in EdgeId \ usedEdges :
           /\ journal' = [journal EXCEPT ![p].newEdges = Set(@, e, edge)]
           /\ usedEdges' = usedEdges \cup {e}
  BY <1>1
<1>5. /\ journal'[p] \in Journal
      /\ journal' = [journal EXCEPT ![p] = journal'[p]]
      /\ \A q \in Proc : JournalEmpty(q)' => JournalEmpty(q)
      /\ usedEdges' \in SUBSET EdgeId /\ usedEdges \subseteq usedEdges'
      /\ EdgeIdsFresh'
  <2>1. CASE UNCHANGED <<journal, usedEdges>>
    BY <2>1, <1>2, <1>3 DEF JournalEmpty, IInv, TypeOK, EdgeIdsFresh
  <2>2. CASE \E e \in EdgeId \ usedEdges :
               /\ journal' = [journal EXCEPT ![p].newEdges = Set(@, e, edge)]
               /\ usedEdges' = usedEdges \cup {e}
    <3>1. PICK e \in EdgeId \ usedEdges :
            /\ journal' = [journal EXCEPT ![p].newEdges = Set(@, e, edge)]
            /\ usedEdges' = usedEdges \cup {e}
      BY <2>2
    <3>2. Set(journal[p].newEdges, e, edge) \in Maps(EdgeId, Edge)
      <4>1. edge \in Edge
        BY DEF Edge
      <4>2. QED BY <4>1, <1>3, SetWithoutType
    <3>3. journal'[p] = [journal[p] EXCEPT !.newEdges = Set(journal[p].newEdges, e, edge)]
      BY <3>1, <1>3
    <3>4. /\ journal'[p] \in Journal
          /\ journal'[p].newEdges = Set(journal[p].newEdges, e, edge)
      BY <3>2, <3>3, <1>3 DEF Journal
    <3>5. journal' = [journal EXCEPT ![p] = journal'[p]]
      BY <3>1, <1>3
    <3>6. DOMAIN journal'[p].newEdges = DOMAIN journal[p].newEdges \cup {e}
      BY <3>4 DEF Set
    <3>7. journal'[p] # EmptyJournal
      <4>1. DOMAIN EmptyJournal.newEdges = {}
        BY DEF EmptyJournal, NoEntries
      <4>2. QED BY <3>6, <4>1
    <3>8. \A q \in Proc : JournalEmpty(q)' => JournalEmpty(q)
      BY <3>5, <3>7, <1>3 DEF JournalEmpty
    <3>9. \A q \in Proc \ {p} : journal'[q] = journal[q]
      BY <3>5, <1>3
    <3>10. e \notin DOMAIN disk.edges /\ \A q \in Proc : e \notin DOMAIN journal[q].newEdges
      BY <3>1 DEF IInv, EdgeIdsFresh
    <3>11. EdgeIdsFresh'
      <4>1. ASSUME NEW q \in Proc
            PROVE  /\ DOMAIN journal'[q].newEdges \subseteq usedEdges'
                   /\ DOMAIN journal'[q].newEdges \cap DOMAIN disk'.edges = {}
                   /\ \A r \in Proc \ {q} :
                        DOMAIN journal'[q].newEdges \cap DOMAIN journal'[r].newEdges = {}
        <5>1. CASE q = p
          BY <5>1, <3>1, <3>6, <3>9, <3>10, <1>2 DEF IInv, EdgeIdsFresh
        <5>2. CASE q # p
          BY <5>2, <3>1, <3>6, <3>9, <3>10, <1>2 DEF IInv, EdgeIdsFresh
        <5>3. QED BY <5>1, <5>2
      <4>2. QED BY <4>1 DEF EdgeIdsFresh
    <3>12. QED BY <3>1, <3>4, <3>5, <3>8, <3>11 DEF IInv, TypeOK
  <2>3. QED BY <1>4, <2>1, <2>2
<1>6. SavesAreSerialized' /\ pc' \in [Proc -> PCs]
  <2>1. pc[p] = "stated" /\ pc' = [pc EXCEPT ![p] = "idle"]
    BY <1>1, ViewStep
  <2>2. \A q \in Proc \ {p} : journal'[q] = journal[q]
    BY <1>5, <1>3
  <2>3. QED BY <1>2, <2>1, <2>2, OutsideSave
<1>7. TypeOK'
  <2>1. gen' \in [Proc -> Nat]
    BY <1>2 DEF Bump, IInv, TypeOK
  <2>2. journal' \in [Proc -> Journal]
    BY <1>5, <1>3
  <2>3. QED BY <1>1, <1>2, <1>5, <1>6, <2>1, <2>2, ViewStep DEF IInv, TypeOK
<1>8. NoDanglingEdges'
  BY <1>1, <1>2, ViewStep DEF IInv, NoDanglingEdges
<1>9. CleanCopyIsFile'
  BY <1>1, <1>2, <1>5, ViewStep DEF CleanCopyIsFile
<1>10. /\ (DOMAIN disk.edges \subseteq usedEdges)'
       /\ (\A q \in Proc : cstamp[q] <= stamp /\ seen[q] <= stamp)'
  BY <1>1, <1>2, <1>5, ViewStep DEF IInv
<1>11. QED BY <1>2, <1>5, <1>6, <1>7, <1>8, <1>9, <1>10 DEF IInv


\* Removals touch the journal and the cache only.
LEMMA RemovalStep ==
  ASSUME IInv, NEW p \in Proc, pc[p] = "idle", NEW j \in Journal, j # EmptyJournal,
         DOMAIN j.newEdges \subseteq DOMAIN journal[p].newEdges,
         journal' = [journal EXCEPT ![p] = j],
         lru' \in [Proc -> Maps(NodeId, Node)],
         gen' = [gen EXCEPT ![p] = @ + 1],
         UNCHANGED <<disk, stamp, tmp, lock, usedNodes, usedEdges, pc, seen, cached, cstamp>>
  PROVE  IInv' /\ journal'[p] \in Journal /\ UNCHANGED disk
               /\ journal' = [journal EXCEPT ![p] = journal'[p]]
<1>1. journal \in [Proc -> Journal]
  BY DEF IInv, TypeOK
<1>2. \A q \in Proc : JournalEmpty(q)' => JournalEmpty(q)
  BY <1>1 DEF JournalEmpty
<1>3. \A q \in Proc : DOMAIN journal'[q].newEdges \subseteq DOMAIN journal[q].newEdges
  BY <1>1
<1>4. SavesAreSerialized'
  <2>1. \A q \in Proc \ {p} : journal'[q] = journal[q]
    BY <1>1
  <2>2. pc' = [pc EXCEPT ![p] = "idle"]
    BY DEF IInv, TypeOK
  <2>3. QED BY <2>1, <2>2, OutsideSave
<1>5. TypeOK'
  <2>1. gen' \in [Proc -> Nat] /\ journal' \in [Proc -> Journal]
    BY <1>1 DEF IInv, TypeOK
  <2>2. QED BY <2>1 DEF IInv, TypeOK
<1>6. NoDanglingEdges'
  BY DEF IInv, NoDanglingEdges
<1>7. CleanCopyIsFile'
  BY <1>2 DEF IInv, CleanCopyIsFile
<1>8. EdgeIdsFresh'
  BY <1>3 DEF IInv, EdgeIdsFresh
<1>9. QED BY <1>1, <1>4, <1>5, <1>6, <1>7, <1>8 DEF IInv

\* RemoveNodes, which also drops unsaved edges of the nodes, keeps the invariant.
LEMMA RemoveNodesStep ==
  ASSUME IInv, NEW p \in Proc, NEW ids \in SUBSET NodeId, ids # {}, RemoveNodes(p, ids)
  PROVE  IInv' /\ journal'[p] \in Journal /\ UNCHANGED disk
               /\ journal' = [journal EXCEPT ![p] = journal'[p]]
<1> DEFINE incident == {e \in DOMAIN journal[p].newEdges :
                          journal[p].newEdges[e].from \in ids \/ journal[p].newEdges[e].to \in ids}
           j == [journal[p] EXCEPT !.dirty = Without(journal[p].dirty, ids),
                                   !.newEdges = Without(journal[p].newEdges, incident),
                                   !.deletedNodes = @ \cup ids]
<1>1. /\ pc[p] = "idle" /\ journal' = [journal EXCEPT ![p] = j]
      /\ lru' = [lru EXCEPT ![p] = Without(@, ids)] /\ gen' = [gen EXCEPT ![p] = @ + 1]
      /\ UNCHANGED <<disk, stamp, tmp, lock, usedNodes, usedEdges, pc, seen, cached, cstamp>>
  BY DEF RemoveNodes, fileVars, idVars
<1>2. /\ journal[p] \in Journal
      /\ journal[p].dirty \in Maps(NodeId, Node) /\ journal[p].newEdges \in Maps(EdgeId, Edge)
      /\ lru[p] \in Maps(NodeId, Node) /\ lru \in [Proc -> Maps(NodeId, Node)]
  BY DEF IInv, TypeOK, Journal
<1>3. /\ Without(journal[p].dirty, ids) \in Maps(NodeId, Node)
      /\ Without(journal[p].newEdges, incident) \in Maps(EdgeId, Edge)
      /\ DOMAIN Without(journal[p].newEdges, incident) \subseteq DOMAIN journal[p].newEdges
      /\ Without(lru[p], ids) \in Maps(NodeId, Node)
  BY <1>2, WithoutType
<1>4. /\ j \in Journal /\ j.newEdges = Without(journal[p].newEdges, incident)
      /\ j.deletedNodes = journal[p].deletedNodes \cup ids
  BY <1>2, <1>3 DEF Journal
<1>5. j # EmptyJournal
  BY <1>4 DEF EmptyJournal
<1>6. lru' \in [Proc -> Maps(NodeId, Node)]
  BY <1>1, <1>2, <1>3
<1> HIDE DEF j
<1>7. QED BY <1>1, <1>3, <1>4, <1>5, <1>6, RemovalStep

\* RemoveEdges keeps the invariant.
LEMMA RemoveEdgesStep ==
  ASSUME IInv, NEW p \in Proc, NEW ids \in SUBSET EdgeId, ids # {}, RemoveEdges(p, ids)
  PROVE  IInv' /\ journal'[p] \in Journal /\ UNCHANGED disk
               /\ journal' = [journal EXCEPT ![p] = journal'[p]]
<1> DEFINE j == [journal[p] EXCEPT !.newEdges = Without(journal[p].newEdges, ids),
                                   !.deletedEdges = @ \cup ids]
<1>1. /\ pc[p] = "idle" /\ journal' = [journal EXCEPT ![p] = j]
      /\ lru' = lru /\ gen' = [gen EXCEPT ![p] = @ + 1]
      /\ UNCHANGED <<disk, stamp, tmp, lock, usedNodes, usedEdges, pc, seen, cached, cstamp>>
  BY DEF RemoveEdges, fileVars, idVars
<1>2. /\ journal[p] \in Journal /\ journal[p].newEdges \in Maps(EdgeId, Edge)
      /\ lru' \in [Proc -> Maps(NodeId, Node)]
  BY <1>1 DEF IInv, TypeOK, Journal
<1>3. /\ Without(journal[p].newEdges, ids) \in Maps(EdgeId, Edge)
      /\ DOMAIN Without(journal[p].newEdges, ids) \subseteq DOMAIN journal[p].newEdges
  BY <1>2, WithoutType
<1>4. /\ j \in Journal /\ j.newEdges = Without(journal[p].newEdges, ids)
      /\ j.deletedEdges = journal[p].deletedEdges \cup ids
  BY <1>2, <1>3 DEF Journal
<1>5. j # EmptyJournal
  BY <1>4 DEF EmptyJournal
<1> HIDE DEF j
<1>6. QED BY <1>1, <1>2, <1>3, <1>4, <1>5, RemovalStep

-----------------------------------------------------------------------------
\* Opening the file, stating it and refreshing the copy.
LEMMA OpenStep == ASSUME IInv, NEW p \in Proc, Open(p) PROVE IInv'
<1> DEFINE g == IF stamp = 0 THEN NoGraph ELSE disk
<1>1. /\ pc[p] = "down" /\ cached' = [cached EXCEPT ![p] = g]
      /\ cstamp' = [cstamp EXCEPT ![p] = stamp] /\ pc' = [pc EXCEPT ![p] = "idle"]
      /\ UNCHANGED <<disk, stamp, tmp, lock, usedNodes, usedEdges, seen, journal, lru, gen>>
  BY DEF Open, fileVars, idVars
<1>2. SavesAreSerialized' /\ pc' \in [Proc -> PCs]
  BY <1>1, OutsideSave
<1>3. TypeOK'
  BY <1>1, <1>2 DEF IInv, TypeOK
<1>4. NoDanglingEdges' /\ CleanCopyIsFile'
  BY <1>1 DEF IInv, TypeOK, NoDanglingEdges, CleanCopyIsFile, JournalEmpty
<1>5. EdgeIdsFresh' /\ (\A q \in Proc : cstamp[q] <= stamp /\ seen[q] <= stamp)'
  BY <1>1 DEF IInv, TypeOK, EdgeIdsFresh
<1>6. QED BY <1>1, <1>2, <1>3, <1>4, <1>5 DEF IInv

\* The stat before a read keeps the invariant: the stamp seen is no newer than
\* the file's.
LEMMA StatFileStep == ASSUME IInv, NEW p \in Proc, StatFile(p) PROVE IInv'
<1>1. /\ pc[p] = "idle" /\ pc' = [pc EXCEPT ![p] = "stated"] /\ seen' = [seen EXCEPT ![p] = stamp]
      /\ UNCHANGED <<disk, stamp, tmp, lock, usedNodes, usedEdges, journal, cached, cstamp, lru, gen>>
  BY DEF StatFile, fileVars, idVars
<1>2. SavesAreSerialized' /\ pc' \in [Proc -> PCs]
  BY <1>1, OutsideSave
<1>3. TypeOK'
  BY <1>1, <1>2 DEF IInv, TypeOK
<1>4. NoDanglingEdges' /\ CleanCopyIsFile' /\ EdgeIdsFresh'
  BY <1>1 DEF IInv, NoDanglingEdges, CleanCopyIsFile, JournalEmpty, EdgeIdsFresh
<1>5. (\A q \in Proc : cstamp[q] <= stamp /\ seen[q] <= stamp)'
  BY <1>1 DEF IInv, TypeOK
<1>6. QED BY <1>1, <1>2, <1>3, <1>4, <1>5 DEF IInv

\* Refresh adopts the file as it is and keeps the invariant.
LEMMA RefreshStep == ASSUME IInv, NEW p \in Proc, Refresh(p) PROVE IInv'
<1>1. /\ pc[p] = "idle" /\ cached' = [cached EXCEPT ![p] = disk]
      /\ lru' = [lru EXCEPT ![p] = NoEntries] /\ cstamp' = [cstamp EXCEPT ![p] = stamp]
      /\ UNCHANGED <<disk, stamp, tmp, lock, usedNodes, usedEdges, pc, seen, journal, gen>>
  BY DEF Refresh, fileVars, idVars
<1>2. SavesAreSerialized'
  BY <1>1 DEF IInv, SavesAreSerialized
<1>3. TypeOK'
  BY <1>1, EmptyTypes DEF IInv, TypeOK
<1>4. NoDanglingEdges' /\ CleanCopyIsFile'
  BY <1>1 DEF IInv, TypeOK, NoDanglingEdges, CleanCopyIsFile, JournalEmpty
<1>5. EdgeIdsFresh' /\ (\A q \in Proc : cstamp[q] <= stamp /\ seen[q] <= stamp)'
  BY <1>1 DEF IInv, TypeOK, EdgeIdsFresh
<1>6. QED BY <1>1, <1>2, <1>3, <1>4, <1>5 DEF IInv


-----------------------------------------------------------------------------
\* The steps of Save: only the holder of the file lock takes the last two.
LEMMA SaveLockStep == ASSUME IInv, NEW p \in Proc, SaveLock(p) PROVE IInv'
<1>1. /\ lock = NoProc /\ lock' = p /\ pc' = [pc EXCEPT ![p] = "locked"]
      /\ UNCHANGED <<disk, stamp, tmp, usedNodes, usedEdges, seen, journal, cached, cstamp, lru, gen>>
  BY DEF SaveLock, idVars
<1>2. TypeOK'
  BY <1>1 DEF IInv, TypeOK, PCs
<1>3. SavesAreSerialized'
  <2>1. \A q \in Proc : pc[q] \notin {"locked", "written"}
    BY <1>1 DEF IInv, SavesAreSerialized
  <2>2. QED BY <1>1, <2>1 DEF IInv, TypeOK, SavesAreSerialized
<1>4. NoDanglingEdges' /\ CleanCopyIsFile' /\ EdgeIdsFresh'
  BY <1>1 DEF IInv, NoDanglingEdges, CleanCopyIsFile, JournalEmpty, EdgeIdsFresh
<1>5. QED BY <1>1, <1>2, <1>3, <1>4 DEF IInv

\* What Save writes is a merge into the file, which nobody else can change.
LEMMA SaveWriteStep == ASSUME IInv, NEW p \in Proc, SaveWrite(p) PROVE IInv'
<1>1. /\ pc[p] = "locked" /\ tmp' \in Merges(disk, journal[p])
      /\ pc' = [pc EXCEPT ![p] = "written"]
      /\ UNCHANGED <<disk, stamp, lock, usedNodes, usedEdges, seen, journal, cached, cstamp, lru, gen>>
  BY DEF SaveWrite, idVars
<1>2. tmp' \in Graph
  BY <1>1, MergeType DEF IInv, TypeOK
<1>3. TypeOK'
  BY <1>1, <1>2 DEF IInv, TypeOK, PCs
<1>4. SavesAreSerialized'
  <2>1. lock = p
    BY <1>1 DEF IInv, SavesAreSerialized
  <2>2. \A q \in Proc \ {p} : pc[q] \notin {"locked", "written"}
    BY <2>1 DEF IInv, SavesAreSerialized
  <2>3. QED BY <1>1, <2>1, <2>2 DEF IInv, TypeOK, SavesAreSerialized
<1>5. NoDanglingEdges' /\ CleanCopyIsFile' /\ EdgeIdsFresh'
  BY <1>1 DEF IInv, NoDanglingEdges, CleanCopyIsFile, JournalEmpty, EdgeIdsFresh
<1>6. QED BY <1>1, <1>3, <1>4, <1>5 DEF IInv

\* A Save that fails gives the lock back and keeps the journal.
LEMMA SaveFailStep == ASSUME IInv, NEW p \in Proc, SaveFail(p) PROVE IInv'
<1>1. /\ pc[p] \in {"locked", "written"} /\ lock' = NoProc /\ tmp' = NoGraph
      /\ pc' = [pc EXCEPT ![p] = "idle"]
      /\ UNCHANGED <<disk, stamp, usedNodes, usedEdges, seen, journal, cached, cstamp, lru, gen>>
  BY DEF SaveFail, idVars
<1>2. TypeOK'
  BY <1>1 DEF IInv, TypeOK, PCs
<1>3. SavesAreSerialized'
  <2>1. \A q \in Proc \ {p} : pc[q] \notin {"locked", "written"}
    BY <1>1 DEF IInv, SavesAreSerialized
  <2>2. QED BY <1>1, <2>1 DEF IInv, TypeOK, SavesAreSerialized
<1>4. NoDanglingEdges' /\ CleanCopyIsFile' /\ EdgeIdsFresh'
  BY <1>1 DEF IInv, NoDanglingEdges, CleanCopyIsFile, JournalEmpty, EdgeIdsFresh
<1>5. QED BY <1>1, <1>2, <1>3, <1>4 DEF IInv

\* The edges of a merged graph are those of the graph and of the journal.
LEMMA MergedEdgeIds ==
  ASSUME NEW g \in Graph, NEW j \in Journal, NEW h \in Merges(g, j)
  PROVE  DOMAIN h.edges \subseteq DOMAIN g.edges \cup DOMAIN j.newEdges
<1>1. PICK f \in Targets(g, j) :
        h = [nodes |-> MergedNodes(g, j, f), edges |-> MergedEdges(g, j, f)]
  BY DEF Merges
<1>2. \A e \in DOMAIN MergedEdges(g, j, f) : e \in KeptEdges(g, j) \/ e \in DOMAIN j.newEdges
  BY MergedEdgesType
<1>3. QED BY <1>1, <1>2 DEF KeptEdges

\* The rename makes the merge the file; no other copy can look current after it.
LEMMA SaveRenameStep == ASSUME IInv, NEW p \in Proc, SaveRename(p) PROVE IInv'
<1>1. /\ pc[p] = "written" /\ disk' = tmp /\ stamp' = stamp + 1 /\ tmp' = NoGraph /\ lock' = NoProc
      /\ cached' = [cached EXCEPT ![p] = tmp] /\ cstamp' = [cstamp EXCEPT ![p] = stamp']
      /\ lru' = [lru EXCEPT ![p] = NoEntries] /\ journal' = [journal EXCEPT ![p] = EmptyJournal]
      /\ pc' = [pc EXCEPT ![p] = "idle"]
      /\ UNCHANGED <<usedNodes, usedEdges, seen, gen>>
  BY DEF SaveRename, idVars
<1>2. tmp \in Merges(disk, journal[p]) /\ lock = p
  BY <1>1 DEF IInv, SavesAreSerialized
<1>3. disk \in Graph /\ Closed(disk) /\ journal[p] \in Journal
  BY DEF IInv, TypeOK, NoDanglingEdges
<1>4. tmp \in Graph /\ Closed(tmp) /\ DOMAIN tmp.edges \subseteq DOMAIN disk.edges \cup DOMAIN journal[p].newEdges
  BY <1>2, <1>3, MergeType, MergeClosed, MergedEdgeIds
<1>5. TypeOK'
  BY <1>1, <1>4, EmptyTypes DEF IInv, TypeOK, PCs
<1>6. SavesAreSerialized'
  <2>1. \A q \in Proc \ {p} : pc[q] \notin {"locked", "written"}
    BY <1>2 DEF IInv, SavesAreSerialized
  <2>2. QED BY <1>1, <2>1 DEF IInv, TypeOK, SavesAreSerialized
<1>7. NoDanglingEdges'
  BY <1>1, <1>4 DEF IInv, TypeOK, NoDanglingEdges
<1>8. CleanCopyIsFile'
  <2>1. ASSUME NEW q \in Proc, cached'[q] # NoGraph, cstamp'[q] = stamp'
        PROVE  cached'[q] = disk'
    <3>1. CASE q = p
      BY <1>1, <3>1 DEF IInv, TypeOK
    <3>2. CASE q # p
      <4>1. cstamp'[q] = cstamp[q] /\ cstamp[q] <= stamp /\ cstamp[q] \in Nat /\ stamp \in Nat
        BY <1>1, <3>2 DEF IInv, TypeOK
      <4>2. QED BY <1>1, <2>1, <4>1
    <3>3. QED BY <3>1, <3>2
  <2>2. QED BY <2>1 DEF CleanCopyIsFile
<1>9. EdgeIdsFresh'
  <2>1. \A q \in Proc : DOMAIN journal'[q].newEdges =
          IF q = p THEN {} ELSE DOMAIN journal[q].newEdges
    BY <1>1 DEF IInv, TypeOK, EmptyJournal, NoEntries
  <2>2. \A q \in Proc \ {p} :
          /\ DOMAIN journal[q].newEdges \subseteq usedEdges
          /\ DOMAIN journal[q].newEdges \cap DOMAIN disk.edges = {}
          /\ \A r \in Proc \ {q} : DOMAIN journal[q].newEdges \cap DOMAIN journal[r].newEdges = {}
    BY DEF IInv, EdgeIdsFresh
  <2>3. \A q \in Proc \ {p} : DOMAIN journal[q].newEdges \cap DOMAIN disk'.edges = {}
    BY <1>1, <1>4, <2>2
  <2>4. QED BY <1>1, <2>1, <2>2, <2>3 DEF EdgeIdsFresh
<1>10. (DOMAIN disk.edges \subseteq usedEdges)'
  BY <1>1, <1>4 DEF IInv, EdgeIdsFresh
<1>11. (\A q \in Proc : cstamp[q] <= stamp /\ seen[q] <= stamp)'
  BY <1>1 DEF IInv, TypeOK
<1>12. QED BY <1>5, <1>6, <1>7, <1>8, <1>9, <1>10, <1>11 DEF IInv

\* A process that dies at any point leaves the invariant intact.
LEMMA CrashStep == ASSUME IInv, NEW p \in Proc, Crash(p) PROVE IInv'
<1>1. /\ lock' = IF lock = p THEN NoProc ELSE lock
      /\ tmp' = IF pc[p] \in {"locked", "written"} THEN NoGraph ELSE tmp
      /\ pc' = [pc EXCEPT ![p] = "down"]
      /\ seen' = [seen EXCEPT ![p] = 0] /\ cstamp' = [cstamp EXCEPT ![p] = 0]
      /\ gen' = [gen EXCEPT ![p] = 0] /\ journal' = [journal EXCEPT ![p] = EmptyJournal]
      /\ cached' = [cached EXCEPT ![p] = NoGraph] /\ lru' = [lru EXCEPT ![p] = NoEntries]
      /\ UNCHANGED <<disk, stamp, usedNodes, usedEdges>>
  BY DEF Crash, idVars
<1>2. TypeOK'
  BY <1>1, EmptyTypes DEF IInv, TypeOK, PCs
<1>3. SavesAreSerialized'
  <2>1. ASSUME NEW q \in Proc, pc'[q] \in {"locked", "written"}
        PROVE  lock' = q /\ (pc'[q] = "written" => tmp' \in Merges(disk', journal'[q]))
    <3>1. q # p /\ pc[q] = pc'[q] /\ journal'[q] = journal[q]
      BY <1>1, <2>1 DEF IInv, TypeOK
    <3>2. lock = q /\ (pc[q] = "written" => tmp \in Merges(disk, journal[q]))
      BY <2>1, <3>1 DEF IInv, SavesAreSerialized
    <3>3. pc[p] \notin {"locked", "written"}
      BY <3>1, <3>2 DEF IInv, SavesAreSerialized
    <3>4. QED BY <1>1, <3>1, <3>2, <3>3
  <2>2. QED BY <2>1 DEF SavesAreSerialized
<1>4. NoDanglingEdges' /\ CleanCopyIsFile'
  BY <1>1 DEF IInv, TypeOK, NoDanglingEdges, CleanCopyIsFile, JournalEmpty
<1>5. EdgeIdsFresh'
  <2>1. \A q \in Proc : DOMAIN journal'[q].newEdges =
          IF q = p THEN {} ELSE DOMAIN journal[q].newEdges
    BY <1>1 DEF IInv, TypeOK, EmptyJournal, NoEntries
  <2>2. QED BY <1>1, <2>1 DEF IInv, EdgeIdsFresh
<1>6. (\A q \in Proc : cstamp[q] <= stamp /\ seen[q] <= stamp)'
  BY <1>1 DEF IInv, TypeOK
<1>7. QED BY <1>1, <1>2, <1>3, <1>4, <1>5, <1>6 DEF IInv

-----------------------------------------------------------------------------
\* The invariant holds at the start, before any process has opened the file.
LEMMA InitIInv == Init => IInv
<1> SUFFICES ASSUME Init PROVE IInv
  OBVIOUS
<1>1. disk \in Graph /\ Closed(disk)
  BY DEF Init
<1>2. DOMAIN disk.nodes \in SUBSET NodeId /\ DOMAIN disk.edges \in SUBSET EdgeId
  <2>1. disk.nodes \in Maps(NodeId, Node) /\ disk.edges \in Maps(EdgeId, Edge)
    BY <1>1 DEF Graph
  <2>2. QED BY <2>1, MapsElim
<1>3. TypeOK
  BY <1>1, <1>2, EmptyTypes DEF Init, TypeOK, PCs
<1>4. NoDanglingEdges /\ CleanCopyIsFile /\ SavesAreSerialized
  BY <1>1 DEF Init, NoDanglingEdges, CleanCopyIsFile, SavesAreSerialized
<1>5. EdgeIdsFresh
  BY DEF Init, EdgeIdsFresh, EmptyJournal, NoEntries
<1>6. QED BY <1>3, <1>4, <1>5 DEF Init, IInv

\* Every step keeps the invariant.
LEMMA NextIInv == IInv /\ [Next]_vars => IInv'
<1> SUFFICES ASSUME IInv, [Next]_vars PROVE IInv'
  OBVIOUS
<1>1. CASE UNCHANGED vars
  BY <1>1 DEF vars, IInv, TypeOK, NoDanglingEdges, CleanCopyIsFile, SavesAreSerialized,
              EdgeIdsFresh, JournalEmpty
<1>2. ASSUME NEW p \in Proc, Step(p)
      PROVE  IInv'
  <2>1. usedNodes \subseteq NodeId /\ usedEdges \subseteq EdgeId
    BY DEF IInv, TypeOK
  <2>2. CASE Open(p)
    BY <2>2, OpenStep
  <2>3. CASE StatFile(p)
    BY <2>3, StatFileStep
  <2>4. CASE Look(p)
    BY <2>4, LookStep
  <2>5. CASE Refresh(p)
    BY <2>5, RefreshStep
  <2>6. CASE Crash(p)
    BY <2>6, CrashStep
  <2>7. CASE \E k \in Key, v \in Val : UpsertNode(p, k, v)
    BY <2>7, UpsertNodeStep
  <2>8. CASE \E from, to \in usedNodes : Link(p, from, to)
    BY <2>1, <2>8, LinkStep
  <2>9. CASE \E ids \in (SUBSET usedNodes) \ {{}} : RemoveNodes(p, ids)
    <3>1. PICK ids \in SUBSET NodeId : ids # {} /\ RemoveNodes(p, ids)
      BY <2>1, <2>9
    <3>2. QED BY <3>1, RemoveNodesStep
  <2>10. CASE \E ids \in (SUBSET usedEdges) \ {{}} : RemoveEdges(p, ids)
    <3>1. PICK ids \in SUBSET EdgeId : ids # {} /\ RemoveEdges(p, ids)
      BY <2>1, <2>10
    <3>2. QED BY <3>1, RemoveEdgesStep
  <2>11. CASE \E n \in usedNodes : GetNode(p, n) \/ Neighbors(p, n)
    BY <2>1, <2>11, GetNodeStep, NeighborsStep
  <2>12. CASE \E ks \in {{k} : k \in Key} \cup {Key} : FindNodes(p, ks)
    BY <2>12, FindNodesStep
  <2>13. CASE SaveLock(p)
    BY <2>13, SaveLockStep
  <2>14. CASE SaveWrite(p)
    BY <2>14, SaveWriteStep
  <2>15. CASE SaveRename(p)
    BY <2>15, SaveRenameStep
  <2>16. CASE SaveFail(p)
    BY <2>16, SaveFailStep
  <2>17. QED BY <1>2, <2>2, <2>3, <2>4, <2>5, <2>6, <2>7, <2>8, <2>9, <2>10, <2>11,
                <2>12, <2>13, <2>14, <2>15, <2>16 DEF Step
<1>3. QED BY <1>1, <1>2 DEF Next

\* IInv holds throughout: the merge, the stamps and the file lock keep every
\* process's copy and the file consistent, for any number of processes.
THEOREM Invariance == Spec => []IInv
BY InitIInv, NextIInv, PTL DEF Spec

\* Every variable keeps its type (PersistentGraphRepository's fields).
THEOREM TypeCorrect == Spec => []TypeOK
<1>1. IInv => TypeOK
  BY DEF IInv
<1>2. QED BY <1>1, Invariance, PTL

\* Neither the file nor any copy of it ever holds an edge without its nodes
\* (mergeJournalSnapshotLocked).
THEOREM EdgesNeverDangle == Spec => []NoDanglingEdges
<1>1. IInv => NoDanglingEdges
  BY DEF IInv
<1>2. QED BY <1>1, Invariance, PTL

\* A repository with nothing unsaved and the file's stamp reads the file
\* (readEffectiveStateLocked, Save, Refresh).
THEOREM CleanCopies == Spec => []CleanCopyIsFile
<1>1. IInv => CleanCopyIsFile
  BY DEF IInv
<1>2. QED BY <1>1, Invariance, PTL

\* The read-merge-rename of two saves never overlap (lockFile in Save).
THEOREM SerializedSaves == Spec => []SavesAreSerialized
<1>1. IInv => SavesAreSerialized
  BY DEF IInv
<1>2. QED BY <1>1, Invariance, PTL

\* Only SaveRename changes the stamp, and only one process can have written.
LEMMA SavedIsRename ==
  ASSUME IInv, [Next]_vars, NEW p \in Proc, Saved(p)
  PROVE  SaveRename(p)
<1>1. PICK q \in Proc : Step(q)
  BY DEF Next, Saved, vars
<1>2. stamp' # stamp /\ pc[p] = "written"
  BY DEF Saved
<1>3. SaveRename(q)
  BY <1>1, <1>2 DEF Step, Open, StatFile, Look, Refresh, Crash, UpsertNode, Link, RemoveNodes,
       RemoveEdges, GetNode, Neighbors, FindNodes, SaveLock, SaveWrite, SaveFail, fileVars
<1>4. q = p
  BY <1>2, <1>3 DEF SaveRename, IInv, SavesAreSerialized
<1>5. QED BY <1>3, <1>4

\* Whatever other processes saved since the saving process last read the file is
\* still in it after the save (Save re-reads the file under the lock).
THEOREM NothingLost == Spec => SaveLosesNothing
<1>1. ASSUME IInv, [Next]_vars, NEW p \in Proc, Saved(p)
      PROVE  LosesNothing(p)
  <2>1. SaveRename(p)
    BY <1>1, SavedIsRename
  <2>2. disk' \in Merges(disk, journal[p])
    BY <1>1, <2>1 DEF SaveRename, IInv, SavesAreSerialized
  <2>3. /\ disk \in Graph /\ journal[p] \in Journal
        /\ DOMAIN journal[p].newEdges \cap DOMAIN disk.edges = {}
    BY <1>1 DEF IInv, TypeOK, EdgeIdsFresh
  <2>4. QED BY <2>2, <2>3, MergeLosesNothing DEF LosesNothing
<1>2. IInv /\ [Next]_vars => [\A p \in Proc : LosesNothing(p)]_vars
  BY <1>1 DEF LosesNothing
<1>3. QED BY <1>2, Invariance, PTL DEF Spec, SaveLosesNothing

-----------------------------------------------------------------------------
(* The shared file implements GraphStore, with the file as the store and   *)
(* the journals as the pending changes.                                    *)

\* Init starts the store: the file may hold only graphs of InitGraphs.
LEMMA InitStore == ASSUME EmptyGraph \in Graph, Init PROVE Store!StoreInit
<1>1. disk \in Graph /\ Closed(disk)
  BY DEF Init
<1>2. QED BY <1>1 DEF Init, Store!StoreInit, Store!Closed, Store!Graph, Store!EmptyJournal,
             Store!Maps, Store!Node, Store!Edge, Store!NoEntries, Graph, Closed,
             EmptyJournal, Maps, Node, Edge, NoEntries

\* Every step is one journal entry, one atomic commit, one lost journal, or
\* invisible to the store.
LEMMA NextStore == ASSUME IInv, [Next]_vars PROVE [Store!StoreNext]_<<disk, journal>>
<1> DEFINE Journaled(p) == /\ journal'[p] \in Journal /\ UNCHANGED disk
                          /\ journal' = [journal EXCEPT ![p] = journal'[p]]
<1>1. ASSUME NEW p \in Proc, Journaled(p)  PROVE Store!StoreNext
  BY <1>1 DEF Store!StoreNext, Store!Record, Store!Journal, Journal, Store!Maps, Maps,
              Store!Node, Node, Store!Edge, Edge
<1>2. CASE UNCHANGED vars
  BY <1>2 DEF vars
<1>3. ASSUME NEW p \in Proc, Step(p)
      PROVE  [Store!StoreNext]_<<disk, journal>>
  <2>1. usedNodes \subseteq NodeId /\ usedEdges \subseteq EdgeId
    BY DEF IInv, TypeOK
  <2>2. CASE Open(p) \/ StatFile(p) \/ Look(p) \/ Refresh(p)
    BY <2>2 DEF Open, StatFile, Look, Refresh, fileVars
  <2>3. CASE Crash(p)
    BY <2>3 DEF Crash, Store!StoreNext, Store!Lose, Store!EmptyJournal, EmptyJournal,
                Store!NoEntries, NoEntries
  <2>4. CASE \E k \in Key, v \in Val : UpsertNode(p, k, v)
    BY <2>4, <1>1, UpsertNodeStep
  <2>5. CASE \E from, to \in usedNodes : Link(p, from, to)
    BY <2>1, <2>5, <1>1, LinkStep
  <2>6. CASE \E ids \in (SUBSET usedNodes) \ {{}} : RemoveNodes(p, ids)
    <3>1. PICK ids \in SUBSET NodeId : ids # {} /\ RemoveNodes(p, ids)
      BY <2>1, <2>6
    <3>2. QED BY <3>1, <1>1, RemoveNodesStep
  <2>7. CASE \E ids \in (SUBSET usedEdges) \ {{}} : RemoveEdges(p, ids)
    <3>1. PICK ids \in SUBSET EdgeId : ids # {} /\ RemoveEdges(p, ids)
      BY <2>1, <2>7
    <3>2. QED BY <3>1, <1>1, RemoveEdgesStep
  <2>8. CASE \E n \in usedNodes : GetNode(p, n) \/ Neighbors(p, n)
    BY <2>8 DEF GetNode, Neighbors, fileVars
  <2>9. CASE \E ks \in {{k} : k \in Key} \cup {Key} : FindNodes(p, ks)
    BY <2>9 DEF FindNodes, fileVars
  <2>10. CASE SaveLock(p) \/ SaveWrite(p) \/ SaveFail(p)
    BY <2>10 DEF SaveLock, SaveWrite, SaveFail
  <2>11. CASE SaveRename(p)
    <3>1. tmp \in Merges(disk, journal[p])
      BY <2>11 DEF SaveRename, IInv, SavesAreSerialized
    <3>2. disk' \in Merges(disk, journal[p])
          /\ journal' = [journal EXCEPT ![p] = EmptyJournal]
      BY <2>11, <3>1 DEF SaveRename
    <3>3. Store!Commit(p)
      <4>1. Store!Merges(disk, journal[p]) = Merges(disk, journal[p])
        BY DEF Merges, Store!Merges, Targets, Store!Targets, MergedNodes, Store!MergedNodes,
               MergedEdges, Store!MergedEdges, KeptNodes, Store!KeptNodes, KeptEdges,
               Store!KeptEdges, Holders, Store!Holders, AddedEdges, Store!AddedEdges,
               Linkable, Store!Linkable, Ends, Store!Ends, Moved, Store!Moved
      <4>2. QED BY <3>2, <4>1 DEF Store!Commit, Store!EmptyJournal, EmptyJournal,
                                  Store!NoEntries, NoEntries
    <3>4. QED BY <3>3 DEF Store!StoreNext
  <2>12. QED BY <1>3, <2>2, <2>3, <2>4, <2>5, <2>6, <2>7, <2>8, <2>9, <2>10, <2>11 DEF Step
<1>4. QED BY <1>2, <1>3 DEF Next

\* The file, written by any number of processes that read it without the
\* lock, crash and fail to save, behaves as one graph that journals are
\* committed to atomically.
THEOREM Refinement == Spec => ImplementsStore
<1>1. Init => Store!StoreInit
  BY InitStore, EmptyTypes
<1>2. IInv /\ [Next]_vars => [Store!StoreNext]_<<disk, journal>>
  BY NextStore
<1>3. QED BY <1>1, <1>2, Invariance, PTL
        DEF Spec, ImplementsStore, Store!StoreSpec, Store!storeVars

-----------------------------------------------------------------------------
(* Part 3: what a save keeps, and what the query index shows.              *)

\* The journal p would have after this step names only ids that are given out
\* then, and nothing twice.
GivenJournal(p) ==
  LET j == journal'[p]
  IN  /\ j.deletedNodes \subseteq usedNodes' /\ j.deletedEdges \subseteq usedEdges'
      /\ DOMAIN j.dirty \cap j.deletedNodes = {}
      /\ DOMAIN j.newEdges \cap j.deletedEdges = {}

\* A step that brings no node under an id it was not known by.
LEMMA NothingNew ==
  ASSUME JInv, usedNodes \subseteq usedNodes', usedEdges \subseteq usedEdges',
         \A n \in NodeId, k \in Key : Known(n, k)' => Known(n, k),
         \A q \in Proc : journal'[q] = journal[q] \/ GivenJournal(q)
  PROVE  KeysFixed' /\ IdsGiven'
<1>1. KeysFixed'
  BY DEF JInv, KeysFixed
<1>2. \A n \in NodeId, k \in Key : Known(n, k)' => n \in usedNodes'
  BY DEF JInv, IdsGiven
<1>3. \A q \in Proc : GivenJournal(q)
  BY DEF JInv, IdsGiven, GivenJournal
<1>4. QED BY <1>1, <1>2, <1>3 DEF IdsGiven, GivenJournal

\* The nodes of a merge of a journal into a graph were known before.
LEMMA MergeKnown ==
  ASSUME NEW g \in Graph, NEW j \in Journal, NEW h \in Merges(g, j),
         NEW n \in NodeId, NEW k \in Key, Has(h.nodes, n, k)
  PROVE  Has(g.nodes, n, k) \/ Has(j.dirty, n, k)
<1>1. PICK f \in Targets(g, j) :
        h = [nodes |-> MergedNodes(g, j, f), edges |-> MergedEdges(g, j, f)]
  BY DEF Merges
<1>2. n \in DOMAIN MergedNodes(g, j, f) /\ MergedNodes(g, j, f)[n].key = k
  BY <1>1 DEF Has
<1>3. QED BY <1>2, MergedKeys DEF Has, KeptNodes

\* What an operation reads (readEffectiveStateLocked) is a graph of known nodes.
LEMMA ReadKnown ==
  ASSUME IInv, NEW p \in Proc, NEW g \in Merges(Base(p), journal[p])
  PROVE  /\ g \in Graph
         /\ \A n \in NodeId, k \in Key : Has(g.nodes, n, k) => Known(n, k)
<1>1. /\ Base(p) \in Graph /\ journal[p] \in Journal
      /\ Base(p) = disk \/ (Base(p) = cached[p] /\ cached[p] # NoGraph)
  BY DEF Base, CopyIsCurrent, IInv, TypeOK
<1>2. \A n \in NodeId, k \in Key :
        Has(g.nodes, n, k) => Has(Base(p).nodes, n, k) \/ Has(journal[p].dirty, n, k)
  BY <1>1, MergeKnown
<1>3. \A n \in NodeId, k \in Key :
        Has(g.nodes, n, k) => Has(disk.nodes, n, k) \/ Has(journal[p].dirty, n, k)
                              \/ (cached[p] # NoGraph /\ Has(cached[p].nodes, n, k))
  BY <1>1, <1>2
<1>4. QED BY <1>1, <1>3, MergeType DEF Known

\* After a read, what is known to all but p, or from a journal as it was, was
\* known before.
LEMMA ViewKnown ==
  ASSUME IInv, NEW p \in Proc, NEW g, View(p, g), UNCHANGED disk,
         NEW n \in NodeId, NEW k \in Key, Known(n, k)'
  PROVE  Known(n, k) \/ \E q \in Proc : Has(journal'[q].dirty, n, k)
<1>1. g \in Merges(Base(p), journal[p])
  BY DEF View
<1>2. ASSUME NEW q \in Proc, cached'[q] # NoGraph, Has(cached'[q].nodes, n, k)
      PROVE  Known(n, k)
  <2>1. cached' = cached \/ cached' = [cached EXCEPT ![p] = g]
    BY DEF View
  <2>2. cached'[q] = cached[q] \/ cached'[q] = g
    BY <2>1 DEF IInv, TypeOK
  <2>3. QED BY <1>1, <1>2, <2>2, ReadKnown DEF Known
<1>3. Has(disk'.nodes, n, k) => Known(n, k)
  BY DEF Known
<1>4. \/ Has(disk'.nodes, n, k)
      \/ \E q \in Proc : \/ Has(journal'[q].dirty, n, k)
                         \/ cached'[q] # NoGraph /\ Has(cached'[q].nodes, n, k)
  BY DEF Known, Has
<1>5. QED BY <1>2, <1>3, <1>4

-----------------------------------------------------------------------------
(* The steps.                                                              *)

\* Reads that change no journal: Look, FindNodes, Neighbors, GetNode.
LEMMA ReadJournal ==
  ASSUME JInv, NEW p \in Proc, NEW g, View(p, g), UNCHANGED <<disk, journal, usedNodes, usedEdges>>
  PROVE  KeysFixed' /\ IdsGiven'
<1>1. \A n \in NodeId, k \in Key, q \in Proc : Has(journal'[q].dirty, n, k) => Known(n, k)
  BY DEF Known
<1>2. \A n \in NodeId, k \in Key : Known(n, k)' => Known(n, k)
  BY <1>1, ViewKnown DEF JInv
<1>3. QED BY <1>2, NothingNew

\* UpsertNode writes a node that has the identity, or a fresh one, and never one
\* that the journal deletes.
LEMMA UpsertJournal ==
  ASSUME JInv, NEW p \in Proc, NEW k \in Key, NEW v \in Val, UpsertNode(p, k, v)
  PROVE  KeysFixed' /\ IdsGiven'
<1> DEFINE node == [key |-> k, val |-> v]
<1>1. PICK g \in Merges(Base(p), journal[p]) : \E n \in UpsertTargets(g, k) :
        /\ View(p, g)
        /\ journal' = [journal EXCEPT ![p].dirty = Set(@, n, node)]
        /\ usedNodes' = usedNodes \cup {n}
  BY DEF UpsertNode
<1>2. PICK m \in UpsertTargets(g, k) :
        /\ View(p, g)
        /\ journal' = [journal EXCEPT ![p].dirty = Set(@, m, node)]
        /\ usedNodes' = usedNodes \cup {m}
  BY <1>1
<1>3. /\ UNCHANGED <<disk, usedEdges>>
      /\ journal \in [Proc -> Journal] /\ IInv
  BY DEF UpsertNode, fileVars, JInv, IInv, TypeOK
<1>4. /\ g \in Graph
      /\ \A n \in NodeId, l \in Key : Has(g.nodes, n, l) => Known(n, l)
  BY <1>3, ReadKnown
<1>5. m \in NodeId /\ (Known(m, k) \/ m \notin usedNodes) /\ m \notin journal[p].deletedNodes
  <2>1. CASE m \in DOMAIN g.nodes /\ g.nodes[m].key = k
    <3>1. m \in NodeId
      BY <1>4, <2>1, MapsElim DEF Graph
    <3>2. Known(m, k)
      BY <1>4, <2>1, <3>1 DEF Has
    <3>3. m \notin journal[p].deletedNodes
      <4>1. PICK f \in Targets(Base(p), journal[p]) :
              g = [nodes |-> MergedNodes(Base(p), journal[p], f),
                   edges |-> MergedEdges(Base(p), journal[p], f)]
        BY DEF Merges
      <4>2. Base(p) \in Graph /\ journal[p] \in Journal
        BY DEF Base, CopyIsCurrent, JInv, IInv, TypeOK
      <4>3. DOMAIN journal[p].dirty \cap journal[p].deletedNodes = {}
        BY DEF JInv, IdsGiven
      <4>4. QED BY <2>1, <4>1, <4>2, <4>3, MergedNotDeleted
    <3>4. QED BY <3>1, <3>2, <3>3
  <2>2. CASE m \in NodeId \ usedNodes
    BY <2>2 DEF JInv, IdsGiven
  <2>3. QED BY <1>2, <2>1, <2>2 DEF UpsertTargets
<1>6. /\ journal'[p].dirty = Set(journal[p].dirty, m, node)
      /\ journal'[p].deletedNodes = journal[p].deletedNodes
      /\ journal'[p].newEdges = journal[p].newEdges
      /\ journal'[p].deletedEdges = journal[p].deletedEdges
      /\ \A q \in Proc \ {p} : journal'[q] = journal[q]
  <2>1. journal'[p] = [journal[p] EXCEPT !.dirty = Set(journal[p].dirty, m, node)]
    BY <1>2, <1>3
  <2>2. journal[p] \in Journal
    BY <1>3
  <2>3. QED BY <1>2, <1>3, <2>1, <2>2 DEF Journal
<1>7. \A n \in NodeId, l \in Key : Known(n, l)' => Known(n, l) \/ (n = m /\ l = k)
  <2>1. \A n \in NodeId, l \in Key, q \in Proc :
          Has(journal'[q].dirty, n, l) => Known(n, l) \/ (n = m /\ l = k)
    <3>1. ASSUME NEW n \in NodeId, NEW l \in Key, Has(journal'[p].dirty, n, l)
          PROVE  Known(n, l) \/ (n = m /\ l = k)
      BY <1>6, <3>1 DEF Has, Set, Known
    <3>2. \A n \in NodeId, l \in Key : \A q \in Proc \ {p} :
            Has(journal'[q].dirty, n, l) => Known(n, l)
      BY <1>6 DEF Known
    <3>3. QED BY <3>1, <3>2
  <2>2. QED BY <1>2, <1>3, <2>1, ViewKnown
<1>8. KeysFixed'
  BY <1>5, <1>7 DEF JInv, KeysFixed, IdsGiven
<1>9. \A n \in NodeId, l \in Key : Known(n, l)' => n \in usedNodes'
  BY <1>2, <1>7 DEF JInv, IdsGiven
<1>10. \A q \in Proc : GivenJournal(q)
  <2>1. DOMAIN journal'[p].dirty = DOMAIN journal[p].dirty \cup {m}
    BY <1>6 DEF Set
  <2>2. QED BY <1>2, <1>3, <1>5, <1>6, <2>1 DEF JInv, IdsGiven, GivenJournal
<1>11. QED BY <1>8, <1>9, <1>10 DEF IdsGiven, GivenJournal

\* Link journals an edge under a fresh id.
LEMMA LinkJournal ==
  ASSUME JInv, NEW p \in Proc, NEW from \in NodeId, NEW to \in NodeId, Link(p, from, to)
  PROVE  KeysFixed' /\ IdsGiven'
<1>1. PICK g \in Merges(Base(p), journal[p]) :
        /\ View(p, g)
        /\ \/ UNCHANGED <<journal, usedEdges>>
           \/ \E e \in EdgeId \ usedEdges :
                /\ journal' = [journal EXCEPT ![p].newEdges =
                                 Set(@, e, [from |-> from, to |-> to])]
                /\ usedEdges' = usedEdges \cup {e}
  BY DEF Link
<1>2. UNCHANGED <<disk, usedNodes>> /\ journal \in [Proc -> Journal] /\ IInv
  BY DEF Link, fileVars, JInv, IInv, TypeOK
<1>3. CASE UNCHANGED <<journal, usedEdges>>
  BY <1>1, <1>2, <1>3, ReadJournal
<1>4. ASSUME NEW e \in EdgeId \ usedEdges,
             journal' = [journal EXCEPT ![p].newEdges = Set(@, e, [from |-> from, to |-> to])],
             usedEdges' = usedEdges \cup {e}
      PROVE  KeysFixed' /\ IdsGiven'
  <2>1. /\ journal'[p].dirty = journal[p].dirty
        /\ journal'[p].deletedNodes = journal[p].deletedNodes
        /\ DOMAIN journal'[p].newEdges = DOMAIN journal[p].newEdges \cup {e}
        /\ journal'[p].deletedEdges = journal[p].deletedEdges
        /\ \A q \in Proc \ {p} : journal'[q] = journal[q]
    <3>1. journal'[p] =
            [journal[p] EXCEPT !.newEdges = Set(journal[p].newEdges, e, [from |-> from, to |-> to])]
      BY <1>2, <1>4
    <3>2. journal[p] \in Journal
      BY <1>2
    <3>3. QED BY <1>2, <1>4, <3>1, <3>2 DEF Journal, Set
  <2>2. \A q \in Proc : journal'[q] = journal[q] \/ GivenJournal(q)
    BY <1>2, <1>4, <2>1 DEF JInv, IdsGiven, GivenJournal
  <2>3. \A n \in NodeId, k \in Key, q \in Proc : Has(journal'[q].dirty, n, k) => Known(n, k)
    BY <2>1 DEF Known
  <2>4. \A n \in NodeId, k \in Key : Known(n, k)' => Known(n, k)
    BY <1>1, <1>2, <2>3, ViewKnown
  <2>5. QED BY <1>2, <1>4, <2>2, <2>4, NothingNew
<1>5. QED BY <1>1, <1>3, <1>4

\* A step that leaves the file and the copies alone and writes no node.
LEMMA ForgetJournal ==
  ASSUME JInv, UNCHANGED <<disk, cached, usedNodes, usedEdges>>,
         \A q \in Proc : \A n \in NodeId, k \in Key :
           Has(journal'[q].dirty, n, k) => Has(journal[q].dirty, n, k),
         \A q \in Proc : journal'[q] = journal[q] \/ GivenJournal(q)
  PROVE  KeysFixed' /\ IdsGiven'
<1>1. \A n \in NodeId, k \in Key : Known(n, k)' => Known(n, k)
  BY DEF Known, Has
<1>2. QED BY <1>1, NothingNew

\* RemoveNodes takes the nodes and their edges out of the journal.
LEMMA RemoveNodesJournal ==
  ASSUME JInv, NEW p \in Proc, NEW ids \in SUBSET usedNodes, RemoveNodes(p, ids)
  PROVE  KeysFixed' /\ IdsGiven'
<1>1. PICK S : journal' = [journal EXCEPT ![p] =
        [journal[p] EXCEPT !.dirty = Without(journal[p].dirty, ids),
                           !.newEdges = Without(journal[p].newEdges, S),
                           !.deletedNodes = journal[p].deletedNodes \cup ids]]
  BY DEF RemoveNodes
<1>2. /\ UNCHANGED <<disk, cached, usedNodes, usedEdges>>
      /\ journal \in [Proc -> Journal] /\ journal[p] \in Journal
  BY DEF RemoveNodes, fileVars, idVars, JInv, IInv, TypeOK
<1>3. /\ journal'[p].dirty = Without(journal[p].dirty, ids)
      /\ journal'[p].newEdges = Without(journal[p].newEdges, S)
      /\ journal'[p].deletedNodes = journal[p].deletedNodes \cup ids
      /\ journal'[p].deletedEdges = journal[p].deletedEdges
      /\ \A q \in Proc \ {p} : journal'[q] = journal[q]
  BY <1>1, <1>2 DEF Journal
<1>4. GivenJournal(p)
  BY <1>2, <1>3 DEF GivenJournal, JInv, IdsGiven, Without
<1>5. \A n \in NodeId, k \in Key : Has(journal'[p].dirty, n, k) => Has(journal[p].dirty, n, k)
  BY <1>3 DEF Has, Without
<1>6. QED BY <1>2, <1>3, <1>4, <1>5, ForgetJournal

\* RemoveEdges takes the edges out of the journal.
LEMMA RemoveEdgesJournal ==
  ASSUME JInv, NEW p \in Proc, NEW ids \in SUBSET usedEdges, RemoveEdges(p, ids)
  PROVE  KeysFixed' /\ IdsGiven'
<1>1. journal' = [journal EXCEPT ![p] =
        [journal[p] EXCEPT !.newEdges = Without(journal[p].newEdges, ids),
                           !.deletedEdges = journal[p].deletedEdges \cup ids]]
  BY DEF RemoveEdges
<1>2. /\ UNCHANGED <<disk, cached, usedNodes, usedEdges>>
      /\ journal \in [Proc -> Journal] /\ journal[p] \in Journal
  BY DEF RemoveEdges, fileVars, idVars, JInv, IInv, TypeOK
<1>3. /\ journal'[p].dirty = journal[p].dirty
      /\ journal'[p].newEdges = Without(journal[p].newEdges, ids)
      /\ journal'[p].deletedNodes = journal[p].deletedNodes
      /\ journal'[p].deletedEdges = journal[p].deletedEdges \cup ids
      /\ \A q \in Proc \ {p} : journal'[q] = journal[q]
  BY <1>1, <1>2 DEF Journal
<1>4. GivenJournal(p)
  BY <1>2, <1>3 DEF GivenJournal, JInv, IdsGiven, Without
<1>5. QED BY <1>2, <1>3, <1>4, ForgetJournal

\* Opening and refreshing adopt the file (load, Refresh).
LEMMA AdoptJournal ==
  ASSUME JInv, NEW p \in Proc, Open(p) \/ Refresh(p)
  PROVE  KeysFixed' /\ IdsGiven'
<1>1. /\ UNCHANGED <<disk, journal, usedNodes, usedEdges>>
      /\ \A q \in Proc : cached'[q] \in {cached[q], disk, NoGraph}
  BY DEF Open, Refresh, fileVars, idVars, JInv, IInv, TypeOK
<1>2. \A n \in NodeId, k \in Key : Known(n, k)' => Known(n, k)
  BY <1>1 DEF Known, Has
<1>3. QED BY <1>1, <1>2, NothingNew

\* A process that dies forgets its journal and its copy.
LEMMA CrashJournal ==
  ASSUME JInv, NEW p \in Proc, Crash(p)
  PROVE  KeysFixed' /\ IdsGiven'
<1>1. /\ UNCHANGED <<disk, usedNodes, usedEdges>>
      /\ journal' = [journal EXCEPT ![p] = EmptyJournal]
      /\ cached' = [cached EXCEPT ![p] = NoGraph]
      /\ journal \in [Proc -> Journal] /\ cached \in [Proc -> Graph \cup {NoGraph}]
  BY DEF Crash, idVars, JInv, IInv, TypeOK
<1>2. \A q \in Proc : /\ cached'[q] \in {cached[q], NoGraph}
                      /\ journal'[q] \in {journal[q], EmptyJournal}
  BY <1>1
<1>3. \A q \in Proc : journal'[q] = journal[q] \/ GivenJournal(q)
  BY <1>2 DEF GivenJournal, EmptyJournal, NoEntries
<1>4. \A n, k : ~Has(EmptyJournal.dirty, n, k)
  BY DEF Has, EmptyJournal, NoEntries
<1>5. \A n \in NodeId, k \in Key : Known(n, k)' => Known(n, k)
  BY <1>1, <1>2, <1>4 DEF Known, Has
<1>6. QED BY <1>1, <1>3, <1>5, NothingNew

\* The rename brings the nodes of the file and of p's journal into the file.
LEMMA RenameJournal ==
  ASSUME JInv, NEW p \in Proc, SaveRename(p)
  PROVE  KeysFixed' /\ IdsGiven'
<1>1. /\ disk' = tmp /\ tmp \in Merges(disk, journal[p])
      /\ UNCHANGED <<usedNodes, usedEdges>>
      /\ journal' = [journal EXCEPT ![p] = EmptyJournal]
      /\ cached' = [cached EXCEPT ![p] = tmp]
      /\ disk \in Graph /\ journal \in [Proc -> Journal]
      /\ cached \in [Proc -> Graph \cup {NoGraph}]
  BY DEF SaveRename, idVars, JInv, IInv, TypeOK, SavesAreSerialized
<1>2. \A q \in Proc : /\ cached'[q] \in {cached[q], tmp}
                      /\ journal'[q] \in {journal[q], EmptyJournal}
  BY <1>1
<1>3. \A q \in Proc : journal'[q] = journal[q] \/ GivenJournal(q)
  BY <1>2 DEF GivenJournal, EmptyJournal, NoEntries
<1>4. \A n, k : ~Has(EmptyJournal.dirty, n, k)
  BY DEF Has, EmptyJournal, NoEntries
<1>5. \A n \in NodeId, k \in Key : Has(tmp.nodes, n, k) => Known(n, k)
  BY <1>1, MergeKnown DEF Known
<1>6. \A n \in NodeId, k \in Key : Known(n, k)' => Known(n, k)
  <2>1. ASSUME NEW n \in NodeId, NEW k \in Key, Known(n, k)'
        PROVE  \/ Has(disk'.nodes, n, k)
               \/ \E q \in Proc : \/ Has(journal'[q].dirty, n, k)
                                  \/ cached'[q] # NoGraph /\ Has(cached'[q].nodes, n, k)
    BY <2>1 DEF Known, Has
  <2>2. \A n \in NodeId, k \in Key, q \in Proc :
          Has(journal'[q].dirty, n, k) => Has(journal[q].dirty, n, k)
    BY <1>2, <1>4
  <2>3. \A n \in NodeId, k \in Key, q \in Proc :
          cached'[q] # NoGraph /\ Has(cached'[q].nodes, n, k) =>
            Has(tmp.nodes, n, k) \/ (cached[q] # NoGraph /\ Has(cached[q].nodes, n, k))
    BY <1>2
  <2>4. QED BY <1>1, <1>5, <2>1, <2>2, <2>3 DEF Known
<1>7. QED BY <1>1, <1>3, <1>6, NothingNew

\* At the start only the file has nodes.
LEMMA InitJournal == Init => KeysFixed /\ IdsGiven
<1>. SUFFICES ASSUME Init PROVE KeysFixed /\ IdsGiven
  OBVIOUS
<1>2. /\ \A p \in Proc : journal[p] = EmptyJournal /\ cached[p] = NoGraph
      /\ usedNodes = DOMAIN disk.nodes
  BY DEF Init
<1>3. \A n, k : Known(n, k) <=> Has(disk.nodes, n, k)
  BY <1>2 DEF Known, Has, EmptyJournal, NoEntries
<1>4. QED BY <1>2, <1>3 DEF KeysFixed, IdsGiven, Has, EmptyJournal, NoEntries

\* Every step keeps JInv.
LEMMA NextJournal == JInv /\ [Next]_vars => JInv'
<1>. SUFFICES ASSUME JInv, [Next]_vars PROVE JInv'
  OBVIOUS
<1>2. IInv'
  BY NextIInv DEF JInv
<1>3. /\ \A q \in Proc : journal[q] \in Journal
      /\ usedNodes \subseteq NodeId
  BY DEF JInv, IInv, TypeOK
<1>4. CASE UNCHANGED vars
  BY <1>4, ForgetJournal, <1>2 DEF vars, JInv
<1>5. ASSUME NEW p \in Proc, Step(p)
      PROVE  KeysFixed' /\ IdsGiven'
  <2>1. CASE Open(p) \/ Refresh(p)
    BY <2>1, AdoptJournal
  <2>2. CASE StatFile(p) \/ SaveLock(p) \/ SaveWrite(p) \/ SaveFail(p)
    <3>1. UNCHANGED <<disk, journal, cached, usedNodes, usedEdges>>
      BY <2>2 DEF StatFile, SaveLock, SaveWrite, SaveFail, fileVars, idVars
    <3>2. QED BY <3>1, ForgetJournal
  <2>3. CASE Look(p) \/ \E ks \in {{k} : k \in Key} \cup {Key} : FindNodes(p, ks)
    <3>1. PICK g : View(p, g)
      BY <2>3 DEF Look, FindNodes
    <3>2. UNCHANGED <<disk, journal, usedNodes, usedEdges>>
      BY <2>3 DEF Look, FindNodes, fileVars, idVars
    <3>3. QED BY <3>1, <3>2, ReadJournal
  <2>4. CASE \E n \in usedNodes : GetNode(p, n) \/ Neighbors(p, n)
    <3>1. PICK g : View(p, g)
      BY <2>4 DEF GetNode, Neighbors
    <3>2. UNCHANGED <<disk, journal, usedNodes, usedEdges>>
      BY <2>4 DEF GetNode, Neighbors, fileVars, idVars
    <3>3. QED BY <3>1, <3>2, ReadJournal
  <2>5. CASE \E k \in Key, v \in Val : UpsertNode(p, k, v)
    BY <2>5, UpsertJournal
  <2>6. CASE \E from, to \in usedNodes : Link(p, from, to)
    BY <1>3, <2>6, LinkJournal
  <2>7. CASE \E ids \in (SUBSET usedNodes) \ {{}} : RemoveNodes(p, ids)
    BY <2>7, RemoveNodesJournal
  <2>8. CASE \E ids \in (SUBSET usedEdges) \ {{}} : RemoveEdges(p, ids)
    BY <2>8, RemoveEdgesJournal
  <2>9. CASE SaveRename(p)
    BY <2>9, RenameJournal
  <2>10. CASE Crash(p)
    BY <2>10, CrashJournal
  <2>11. QED BY <1>5, <2>1, <2>2, <2>3, <2>4, <2>5, <2>6, <2>7, <2>8, <2>9, <2>10 DEF Step
<1>6. QED BY <1>2, <1>4, <1>5 DEF Next, JInv

-----------------------------------------------------------------------------
\* A node id means one identity everywhere and for good, and no journal both
\* writes and deletes a thing (UpsertNode, RemoveNodes and the merge together).
THEOREM JournalInvariance == Spec => []JInv
<1>1. Init => JInv
  BY InitIInv, InitJournal DEF JInv
<1>2. QED BY <1>1, NextJournal, PTL DEF Spec

\* The journal of a saving process is consistent with the file it merges into.
LEMMA SavedMerge ==
  ASSUME JInv, [Next]_vars, NEW p \in Proc, Saved(p)
  PROVE  /\ disk \in Graph /\ journal[p] \in Journal
         /\ disk' \in Merges(disk, journal[p]) /\ Consistent(disk, journal[p])
<1>1. SaveRename(p)
  BY SavedIsRename DEF JInv
<1>2. disk \in Graph /\ journal[p] \in Journal /\ disk' \in Merges(disk, journal[p])
  BY <1>1 DEF SaveRename, JInv, IInv, TypeOK, SavesAreSerialized
<1>3. Agree(disk, journal[p])
  <2>1. ASSUME NEW n \in DOMAIN disk.nodes \cap DOMAIN journal[p].dirty
        PROVE  disk.nodes[n].key = journal[p].dirty[n].key
    <3>1. /\ n \in NodeId /\ disk.nodes[n] \in Node
          /\ journal[p].dirty[n] \in Node
      BY <1>2, MapsElim DEF Graph, Journal
    <3>2. disk.nodes[n].key \in Key /\ journal[p].dirty[n].key \in Key
      BY <3>1 DEF Node
    <3>3. Known(n, disk.nodes[n].key) /\ Known(n, journal[p].dirty[n].key)
      BY <2>1 DEF Known, Has
    <3>4. QED BY <3>1, <3>2, <3>3 DEF JInv, KeysFixed
  <2>2. QED BY <2>1 DEF Agree
<1>4. QED BY <1>2, <1>3 DEF Consistent, JInv, IInv, IdsGiven, EdgeIdsFresh

\* When Save clears the journal every change of it is in the file, whatever the
\* other processes saved, removed or created before (Save).
THEOREM JournalKept == Spec => SaveKeepsJournal
<1>1. ASSUME JInv, [Next]_vars, NEW p \in Proc, Saved(p)
      PROVE  KeepsJournal(disk', journal[p])
  BY <1>1, SavedMerge, MergeKeepsJournal
<1>2. JInv /\ [Next]_vars =>
        [\A p \in Proc : Saved(p) => KeepsJournal(disk', journal[p])]_vars
  BY <1>1
<1>3. QED BY <1>2, JournalInvariance, PTL DEF Spec, SaveKeepsJournal

\* A save brings no identity into the file twice that the file and the journal
\* each hold once (Save, mergeJournalSnapshotLocked).
THEOREM IdentitiesMerged == Spec => SaveMergesIdentities
<1>1. ASSUME JInv, [Next]_vars, NEW p \in Proc
      PROVE  MergesIdentities(p)
  BY <1>1, SavedMerge, MergeKeepsKeysUnique DEF MergesIdentities, Consistent
<1>2. JInv /\ [Next]_vars => [\A p \in Proc : MergesIdentities(p)]_vars
  BY <1>1
<1>3. QED BY <1>2, JournalInvariance, PTL DEF Spec, SaveMergesIdentities

-----------------------------------------------------------------------------
(***************************************************************************)
(* The query index.  With one process the copy is the file, every          *)
(* journaled node has its place, so a merge has one result; and a change   *)
(* of the journal moves the generation.                                    *)
(***************************************************************************)
OneProcess == \E p : Proc = {p}

\* The copy is the file, and before there is one nothing has been written.
CopyInv ==
  /\ stamp = 0 => disk = EmptyGraph
  /\ \A p \in Proc :
       /\ cached[p] # NoGraph => cached[p] = disk /\ cstamp[p] = stamp
       /\ cached[p] = NoGraph => DOMAIN journal[p].dirty = {} /\ DOMAIN journal[p].newEdges = {}
       /\ cached[p] = NoGraph /\ pc[p] # "down" => stamp = 0
       /\ pc[p] = "down" => cached[p] = NoGraph /\ JournalEmpty(p)
       /\ pc[p] = "stated" => seen[p] = stamp

\* A node that is journaled under an id the file lacks has an identity that the
\* file lacks: it goes nowhere else.
Settled(g, j) ==
  \A d \in DOMAIN j.dirty : d \in KeptNodes(g, j) \/ Holders(g, j, j.dirty[d].key) = {}

SnapshotInv ==
  \A p \in Proc : istate[p] = "ready" =>
    /\ igen[p] \in Nat /\ igen[p] <= gen[p]
    /\ igen[p] = gen[p] => snapshot[p] \in Merges(disk, journal[p])

QueryInv ==
  /\ JInv /\ CopyInv /\ \A p \in Proc : Settled(disk, journal[p])
  /\ SnapshotInv
  /\ DOMAIN istate = Proc /\ DOMAIN snapshot = Proc /\ DOMAIN igen = Proc /\ DOMAIN behind = Proc

-----------------------------------------------------------------------------
\* A merge of nothing is the graph, and there is one.
LEMMA SelfMerge ==
  ASSUME NEW g \in Graph
  PROVE  g \in Merges(g, EmptyJournal)
<1>1. NoEntries \in Targets(g, EmptyJournal)
  BY DEF Targets, EmptyJournal, NoEntries
<1>2. Merges(g, EmptyJournal) # {}
  BY <1>1 DEF Merges
<1>3. QED BY <1>2, MergeNothing

\* Where every journaled node has its place the merge has one result.
LEMMA OneMerge ==
  ASSUME NEW g, NEW j, Settled(g, j), NEW h \in Merges(g, j), NEW i \in Merges(g, j)
  PROVE  h = i
<1>1. \A f \in Targets(g, j) : f = [d \in DOMAIN j.dirty |-> d]
  BY DEF Targets, Settled
<1>2. QED BY <1>1 DEF Merges

\* Removals change nothing in a graph without nodes and edges.
LEMMA MergeRemovals ==
  ASSUME NEW j \in Journal, DOMAIN j.dirty = {}, DOMAIN j.newEdges = {},
         NEW h \in Merges(EmptyGraph, j)
  PROVE  h = EmptyGraph
<1>1. PICK f \in Targets(EmptyGraph, j) :
        h = [nodes |-> MergedNodes(EmptyGraph, j, f), edges |-> MergedEdges(EmptyGraph, j, f)]
  BY DEF Merges
<1>2. DOMAIN EmptyGraph.nodes = {} /\ DOMAIN EmptyGraph.edges = {}
  BY DEF EmptyGraph, NoEntries
<1>3. MergedNodes(EmptyGraph, j, f) = NoEntries
  BY <1>2 DEF MergedNodes, KeptNodes, NoEntries
<1>4. KeptEdges(EmptyGraph, j) = {} /\ AddedEdges(EmptyGraph, j, f) = {}
  BY <1>2 DEF KeptEdges, AddedEdges, Linkable
<1>5. MergedEdges(EmptyGraph, j, f) = NoEntries
  BY <1>4 DEF MergedEdges, NoEntries
<1>6. QED BY <1>1, <1>3, <1>5 DEF EmptyGraph

\* With one process a read sees the file and its own journal.
LEMMA ReadsFile ==
  ASSUME JInv, CopyInv, NEW p, Proc = {p}, NEW g, View(p, g)
  PROVE  /\ g \in Merges(disk, journal[p]) /\ Bump(p) = 0
         /\ pc[p] = "stated" /\ pc'[p] = "idle" /\ cached'[p] = disk /\ cstamp'[p] = stamp
<1>1. p \in Proc OBVIOUS
<1>2. /\ pc[p] = "stated" /\ g \in Merges(Base(p), journal[p])
      /\ pc' = [pc EXCEPT ![p] = "idle"]
      /\ cached' = IF CopyIsCurrent(p) THEN cached ELSE [cached EXCEPT ![p] = g]
      /\ cstamp' = IF CopyIsCurrent(p) THEN cstamp ELSE [cstamp EXCEPT ![p] = seen[p]]
  BY DEF View
<1>3. /\ pc \in [Proc -> PCs] /\ cached \in [Proc -> Graph \cup {NoGraph}]
      /\ cstamp \in [Proc -> Nat] /\ journal[p] \in Journal /\ disk # NoGraph
  BY <1>1, GraphAssumption DEF JInv, IInv, TypeOK
<1>4. seen[p] = stamp
  BY <1>1, <1>2 DEF CopyInv
<1>5. CASE cached[p] # NoGraph
  <2>1. cached[p] = disk /\ cstamp[p] = stamp
    BY <1>1, <1>5 DEF CopyInv
  <2>2. CopyIsCurrent(p)
    BY <1>4, <1>5, <2>1 DEF CopyIsCurrent
  <2>3. QED BY <1>1, <1>2, <1>3, <1>4, <2>1, <2>2 DEF Base, Bump
<1>6. CASE cached[p] = NoGraph
  <2>1. ~ CopyIsCurrent(p) /\ Base(p) = disk /\ Bump(p) = 0
    BY <1>6 DEF CopyIsCurrent, Base, Bump
  <2>2. disk = EmptyGraph /\ DOMAIN journal[p].dirty = {} /\ DOMAIN journal[p].newEdges = {}
    BY <1>1, <1>2, <1>6 DEF CopyInv
  <2>3. g = disk
    BY <1>2, <1>3, <2>1, <2>2, MergeRemovals
  <2>4. QED BY <1>1, <1>2, <1>3, <1>4, <2>1, <2>3
<1>7. QED BY <1>5, <1>6

\* After a read the copy is the file.
LEMMA ReadKeepsCopy ==
  ASSUME JInv, CopyInv, NEW p, Proc = {p}, NEW g, View(p, g), UNCHANGED <<disk, stamp>>
  PROVE  CopyInv'
<1>1. disk # NoGraph
  BY GraphAssumption DEF JInv, IInv, TypeOK
<1>2. QED BY <1>1, ReadsFile DEF CopyInv

-----------------------------------------------------------------------------
(* Steps of the repository.                                                *)

\* A journal that only gets shorter, or loses file nodes, stays settled.
LEMMA UpsertSettles ==
  ASSUME JInv, CopyInv, NEW p, Proc = {p}, Settled(disk, journal[p]),
         NEW k \in Key, NEW v \in Val, UpsertNode(p, k, v)
  PROVE  /\ Settled(disk', journal'[p]) /\ CopyInv' /\ gen'[p] = gen[p] + 1
<1>. DEFINE node == [key |-> k, val |-> v]
            j == journal[p]
<1>1. PICK g \in Merges(Base(p), journal[p]) : \E n \in UpsertTargets(g, k) :
        /\ View(p, g) /\ journal' = [journal EXCEPT ![p].dirty = Set(@, n, node)]
  BY DEF UpsertNode
<1>2. PICK n \in UpsertTargets(g, k) :
        /\ View(p, g) /\ journal' = [journal EXCEPT ![p].dirty = Set(@, n, node)]
  BY <1>1
<1>3. g \in Merges(disk, j) /\ Bump(p) = 0 /\ CopyInv' /\ disk' = disk
  BY <1>2, ReadsFile, ReadKeepsCopy DEF UpsertNode, fileVars
<1>4. /\ journal \in [Proc -> Journal] /\ j \in Journal /\ disk \in Graph
      /\ gen \in [Proc -> Nat]
  BY DEF JInv, IInv, TypeOK
<1>5. gen'[p] = gen[p] + 1
  BY <1>3, <1>4 DEF UpsertNode
<1>6. /\ journal'[p].dirty = Set(j.dirty, n, node)
      /\ journal'[p].deletedNodes = j.deletedNodes
  BY <1>2, <1>4 DEF Journal
<1>7. /\ KeptNodes(disk', journal'[p]) = KeptNodes(disk, j)
      /\ \A l : Holders(disk', journal'[p], l) = Holders(disk, j, l)
  BY <1>3, <1>6 DEF KeptNodes, Holders
<1>8. PICK f \in Targets(disk, j) :
        g = [nodes |-> MergedNodes(disk, j, f), edges |-> MergedEdges(disk, j, f)]
  BY <1>3 DEF Merges
<1>9. \A d \in DOMAIN j.dirty : f[d] = d
  BY DEF Targets, Settled
<1>10. \A m \in DOMAIN g.nodes :
         \/ m \in DOMAIN j.dirty /\ g.nodes[m].key = j.dirty[m].key
         \/ m \in KeptNodes(disk, j) /\ g.nodes[m].key = disk.nodes[m].key
  BY <1>4, <1>8, MergedKeys
<1>11. n \in KeptNodes(disk, j) \/ Holders(disk, j, k) = {}
  <2>1. CASE n \in DOMAIN g.nodes /\ g.nodes[n].key = k
    BY <1>10, <2>1 DEF Settled
  <2>2. CASE \A m \in DOMAIN g.nodes : g.nodes[m].key # k
    <3>1. ASSUME NEW m \in Holders(disk, j, k) PROVE FALSE
      <4>1. m \in KeptNodes(disk, j) /\ disk.nodes[m].key = k
        BY <3>1 DEF Holders
      <4>2. m \in DOMAIN g.nodes
        BY <1>4, <1>8, <4>1, MergedNodesType
      <4>3. m \in DOMAIN j.dirty /\ j.dirty[m].key = g.nodes[m].key
        BY <1>10, <2>2, <4>1, <4>2
      <4>4. m \in NodeId /\ j.dirty[m].key \in Key
        <5>1. j.dirty \in Maps(NodeId, Node)
          BY <1>4 DEF Journal
        <5>2. DOMAIN j.dirty \in SUBSET NodeId /\ j.dirty \in [DOMAIN j.dirty -> Node]
          BY <5>1, MapsElim
        <5>3. QED BY <4>3, <5>2 DEF Node
      <4>5. Known(m, k) /\ Known(m, j.dirty[m].key)
        BY <4>1, <4>3 DEF Known, Has, KeptNodes
      <4>6. QED BY <2>2, <4>2, <4>3, <4>4, <4>5 DEF JInv, KeysFixed
    <3>2. QED BY <3>1
  <2>3. QED BY <2>1, <2>2 DEF UpsertTargets
<1>12. Settled(disk', journal'[p])
  <2>1. \A d \in DOMAIN journal'[p].dirty :
          \/ d = n /\ journal'[p].dirty[d].key = k
          \/ d \in DOMAIN j.dirty /\ journal'[p].dirty[d].key = j.dirty[d].key
    BY <1>6 DEF Set
  <2>2. QED BY <1>7, <1>11, <2>1 DEF Settled
<1>13. QED BY <1>3, <1>5, <1>12

\* What is removed from a journal, and what it removes, unsettles nothing.
LEMMA RemovalSettles ==
  ASSUME NEW g, NEW j, NEW i, Settled(g, j), NEW D,
         i.dirty = Without(j.dirty, D), i.deletedNodes = j.deletedNodes \cup D
  PROVE  Settled(g, i)
<1>1. \A d \in DOMAIN i.dirty : d \in DOMAIN j.dirty \ D /\ i.dirty[d] = j.dirty[d]
  BY DEF Without
<1>2. KeptNodes(g, i) = KeptNodes(g, j) \ D
  BY DEF KeptNodes
<1>3. \A k : Holders(g, i, k) \subseteq Holders(g, j, k)
  BY <1>2 DEF Holders
<1>4. QED BY <1>1, <1>2, <1>3 DEF Settled

\* A change of the journal moves the generation.
LEMMA ChangeMoves ==
  ASSUME JInv, CopyInv, NEW p, Proc = {p}, Settled(disk, journal[p]),
         \/ \E k \in Key, v \in Val : UpsertNode(p, k, v)
         \/ \E from, to : Link(p, from, to)
         \/ \E ids : RemoveNodes(p, ids) \/ RemoveEdges(p, ids)
  PROVE  Settled(disk', journal'[p]) /\ CopyInv' /\ gen'[p] = gen[p] + 1
<1>1. /\ journal \in [Proc -> Journal] /\ journal[p] \in Journal /\ gen \in [Proc -> Nat]
  BY DEF JInv, IInv, TypeOK
<1>2. ASSUME NEW from, NEW to, Link(p, from, to)
      PROVE  Settled(disk', journal'[p]) /\ CopyInv' /\ gen'[p] = gen[p] + 1
  <2>1. PICK g : View(p, g)
    BY <1>2 DEF Link
  <2>2. Bump(p) = 0 /\ CopyInv' /\ disk' = disk
    BY <1>2, <2>1, ReadsFile, ReadKeepsCopy DEF Link, fileVars
  <2>3. gen'[p] = gen[p] + 1
    BY <1>1, <1>2, <2>2 DEF Link
  <2>4. journal'[p].dirty = journal[p].dirty /\ journal'[p].deletedNodes = journal[p].deletedNodes
    BY <1>1, <1>2 DEF Link, Journal
  <2>5. QED BY <2>2, <2>3, <2>4 DEF Settled, KeptNodes, Holders
<1>3. ASSUME NEW ids, RemoveNodes(p, ids)
      PROVE  Settled(disk', journal'[p]) /\ CopyInv' /\ gen'[p] = gen[p] + 1
  <2>1. /\ journal'[p].dirty = Without(journal[p].dirty, ids)
        /\ journal'[p].deletedNodes = journal[p].deletedNodes \cup ids
        /\ DOMAIN journal'[p].newEdges \subseteq DOMAIN journal[p].newEdges
    BY <1>1, <1>3 DEF RemoveNodes, Journal, Without
  <2>2. UNCHANGED <<disk, stamp, pc, seen, cached, cstamp>> /\ pc[p] = "idle"
    BY <1>3 DEF RemoveNodes, fileVars
  <2>3. CopyInv'
    BY <2>1, <2>2 DEF CopyInv, Without
  <2>4. gen'[p] = gen[p] + 1
    BY <1>1, <1>3 DEF RemoveNodes
  <2>5. QED BY <2>1, <2>2, <2>3, <2>4, RemovalSettles
<1>4. ASSUME NEW ids, RemoveEdges(p, ids)
      PROVE  Settled(disk', journal'[p]) /\ CopyInv' /\ gen'[p] = gen[p] + 1
  <2>1. /\ journal'[p].dirty = journal[p].dirty
        /\ journal'[p].deletedNodes = journal[p].deletedNodes
        /\ DOMAIN journal'[p].newEdges \subseteq DOMAIN journal[p].newEdges
    BY <1>1, <1>4 DEF RemoveEdges, Journal, Without
  <2>2. UNCHANGED <<disk, stamp, pc, seen, cached, cstamp>> /\ pc[p] = "idle"
    BY <1>4 DEF RemoveEdges, fileVars
  <2>3. CopyInv'
    BY <2>1, <2>2 DEF CopyInv
  <2>4. gen'[p] = gen[p] + 1
    BY <1>1, <1>4 DEF RemoveEdges
  <2>5. QED BY <2>1, <2>2, <2>3, <2>4 DEF Settled, KeptNodes, Holders
<1>5. QED BY <1>2, <1>3, <1>4, UpsertSettles

\* A step that leaves file and journal alone.
LEMMA QuietKeeps ==
  ASSUME JInv, CopyInv, NEW p, Proc = {p}, Settled(disk, journal[p]),
         \/ Open(p) \/ StatFile(p) \/ Refresh(p) \/ SaveLock(p) \/ SaveWrite(p) \/ SaveFail(p)
         \/ Look(p) \/ \E n : GetNode(p, n) \/ Neighbors(p, n)
         \/ \E ks : FindNodes(p, ks)
  PROVE  /\ Settled(disk', journal'[p]) /\ CopyInv' /\ gen'[p] = gen[p]
         /\ UNCHANGED <<disk, journal>>
<1>1. /\ pc \in [Proc -> PCs] /\ cached \in [Proc -> Graph \cup {NoGraph}] /\ disk # NoGraph
      /\ cstamp \in [Proc -> Nat] /\ seen \in [Proc -> Nat] /\ gen \in [Proc -> Nat] /\ p \in Proc
  BY GraphAssumption DEF JInv, IInv, TypeOK
<1>2. UNCHANGED <<disk, stamp, journal>>
  BY DEF Open, StatFile, Refresh, SaveLock, SaveWrite, SaveFail, Look, GetNode, Neighbors,
         FindNodes, fileVars, idVars
<1>3. CASE Look(p) \/ (\E n : GetNode(p, n) \/ Neighbors(p, n)) \/ \E ks : FindNodes(p, ks)
  <2>1. PICK g : View(p, g)
    BY <1>3 DEF Look, GetNode, Neighbors, FindNodes
  <2>2. gen' = [gen EXCEPT ![p] = @ + Bump(p)]
    BY <1>3 DEF Look, GetNode, Neighbors, FindNodes
  <2>3. CopyInv' /\ Bump(p) = 0
    BY <1>2, <2>1, ReadsFile, ReadKeepsCopy
  <2>4. gen'[p] = gen[p]
    BY <1>1, <2>2, <2>3
  <2>5. QED BY <1>2, <2>3, <2>4
<1>4. CASE Open(p)
  <2>1. CopyInv'
    BY <1>1, <1>4 DEF Open, CopyInv, JournalEmpty, fileVars
  <2>2. QED BY <1>2, <1>4, <2>1 DEF Open
<1>5. CASE StatFile(p)
  <2>1. CopyInv'
    BY <1>1, <1>5 DEF StatFile, CopyInv, JournalEmpty, fileVars
  <2>2. QED BY <1>2, <1>5, <2>1 DEF StatFile
<1>6. CASE Refresh(p)
  <2>1. CopyInv'
    BY <1>1, <1>6 DEF Refresh, CopyInv, JournalEmpty, fileVars
  <2>2. QED BY <1>2, <1>6, <2>1 DEF Refresh
<1>7. CASE SaveLock(p) \/ SaveWrite(p) \/ SaveFail(p)
  <2>1. /\ pc[p] # "down" /\ pc'[p] \notin {"down", "stated"}
        /\ UNCHANGED <<disk, stamp, journal, cached, cstamp, seen, gen>>
    BY <1>1, <1>7 DEF SaveLock, SaveWrite, SaveFail
  <2>2. CopyInv'
    BY <2>1 DEF CopyInv
  <2>3. QED BY <1>2, <2>1, <2>2
<1>8. QED BY <1>3, <1>4, <1>5, <1>6, <1>7

\* The rename makes of the file what the index holds.
LEMMA RenameKeeps ==
  ASSUME JInv, CopyInv, NEW p, Proc = {p}, Settled(disk, journal[p]), SaveRename(p)
  PROVE  /\ Settled(disk', journal'[p]) /\ CopyInv' /\ gen' = gen
         /\ \A h \in Merges(disk, journal[p]) : h \in Merges(disk', journal'[p])
<1>1. /\ tmp \in Merges(disk, journal[p]) /\ disk \in Graph /\ journal[p] \in Journal
      /\ cached \in [Proc -> Graph \cup {NoGraph}] /\ cstamp \in [Proc -> Nat]
      /\ journal \in [Proc -> Journal] /\ pc \in [Proc -> PCs] /\ stamp \in Nat
  BY DEF JInv, IInv, TypeOK, SavesAreSerialized, SaveRename
<1>2. /\ disk' = tmp /\ stamp' = stamp + 1 /\ cached'[p] = tmp /\ cstamp'[p] = stamp'
      /\ journal'[p] = EmptyJournal /\ pc'[p] = "idle" /\ gen' = gen
  BY <1>1 DEF SaveRename
<1>3. tmp \in Graph
  BY <1>1, MergeType
<1>4. tmp # NoGraph BY <1>3, GraphAssumption
<1>5. CopyInv'
  BY <1>1, <1>2, <1>4 DEF CopyInv
<1>6. Settled(disk', journal'[p])
  BY <1>2 DEF Settled, EmptyJournal, NoEntries
<1>7. \A h \in Merges(disk, journal[p]) : h = tmp
  BY <1>1, OneMerge
<1>8. QED BY <1>2, <1>3, <1>5, <1>6, <1>7, SelfMerge

\* The process dies.
LEMMA CrashKeeps ==
  ASSUME JInv, CopyInv, NEW p, Proc = {p}, Crash(p)
  PROVE  Settled(disk', journal'[p]) /\ CopyInv'
<1>1. /\ cached \in [Proc -> Graph \cup {NoGraph}] /\ journal \in [Proc -> Journal] /\ pc \in [Proc -> PCs]
  BY DEF JInv, IInv, TypeOK
<1>2. /\ UNCHANGED <<disk, stamp>> /\ pc'[p] = "down" /\ cached'[p] = NoGraph
      /\ journal'[p] = EmptyJournal
  BY <1>1 DEF Crash
<1>3. DOMAIN EmptyJournal.dirty = {} /\ DOMAIN EmptyJournal.newEdges = {}
  BY DEF EmptyJournal, NoEntries
<1>4. QED BY <1>2, <1>3 DEF CopyInv, JournalEmpty, Settled

-----------------------------------------------------------------------------
(* Steps of the index.                                                     *)

LEMMA QueryStarts == ASSUME OneProcess PROVE QueryInit => QueryInv
<1>. SUFFICES ASSUME QueryInit PROVE QueryInv
  OBVIOUS
<1>1. Init BY DEF QueryInit
<1>2. JInv BY <1>1, InitIInv, InitJournal DEF JInv
<1>3. DOMAIN EmptyJournal.dirty = {} /\ DOMAIN EmptyJournal.newEdges = {}
  BY DEF EmptyJournal, NoEntries
<1>4. CopyInv
  BY <1>1, <1>3 DEF Init, CopyInv, JournalEmpty
<1>5. \A p \in Proc : Settled(disk, journal[p])
  BY <1>1, <1>3 DEF Init, Settled
<1>6. QED BY <1>2, <1>4, <1>5 DEF QueryInit, QueryInv, SnapshotInv

LEMMA QueryStep == ASSUME OneProcess PROVE QueryInv /\ [QueryNext]_queryIndexVars => QueryInv'
<1>. SUFFICES ASSUME QueryInv, [QueryNext]_queryIndexVars PROVE QueryInv'
  OBVIOUS
<1>1. PICK p : Proc = {p} BY DEF OneProcess
<1>2. /\ JInv /\ CopyInv /\ Settled(disk, journal[p]) /\ gen[p] \in Nat /\ gen \in [Proc -> Nat]
      /\ istate[p] = "ready" => /\ igen[p] \in Nat /\ igen[p] <= gen[p]
                                /\ igen[p] = gen[p] => snapshot[p] \in Merges(disk, journal[p])
      /\ DOMAIN istate = Proc /\ DOMAIN snapshot = Proc /\ DOMAIN igen = Proc /\ DOMAIN behind = Proc
  BY <1>1 DEF QueryInv, SnapshotInv, JInv, IInv, TypeOK
<1>3. SUFFICES
        /\ [Next]_vars /\ CopyInv' /\ Settled(disk', journal'[p])
        /\ istate'[p] = "ready" => /\ igen'[p] \in Nat /\ igen'[p] <= gen'[p]
                                   /\ igen'[p] = gen'[p] => snapshot'[p] \in Merges(disk', journal'[p])
        /\ DOMAIN istate' = Proc /\ DOMAIN snapshot' = Proc /\ DOMAIN igen' = Proc /\ DOMAIN behind' = Proc
  BY <1>1, <1>2, NextJournal DEF QueryInv, SnapshotInv
<1>4. CASE Step(p) /\ pc'[p] # "down" /\ UNCHANGED queryVars
  <2>1. [Next]_vars /\ UNCHANGED <<istate, snapshot, igen, behind>>
    BY <1>1, <1>4 DEF Next, queryVars
  <2>2. CASE \/ \E k \in Key, v \in Val : UpsertNode(p, k, v)
             \/ \E from, to : Link(p, from, to)
             \/ \E ids : RemoveNodes(p, ids) \/ RemoveEdges(p, ids)
    <3>1. Settled(disk', journal'[p]) /\ CopyInv' /\ gen'[p] = gen[p] + 1
      BY <1>1, <1>2, <2>2, ChangeMoves
    <3>2. QED BY <1>2, <2>1, <3>1
  <2>3. CASE \/ Open(p) \/ StatFile(p) \/ Refresh(p) \/ SaveLock(p) \/ SaveWrite(p) \/ SaveFail(p)
             \/ Look(p) \/ \E n : GetNode(p, n) \/ Neighbors(p, n)
             \/ \E ks : FindNodes(p, ks)
    <3>1. Settled(disk', journal'[p]) /\ CopyInv' /\ gen'[p] = gen[p] /\ UNCHANGED <<disk, journal>>
      BY <1>1, <1>2, <2>3, QuietKeeps
    <3>2. QED BY <1>2, <2>1, <3>1
  <2>4. CASE SaveRename(p)
    <3>1. /\ Settled(disk', journal'[p]) /\ CopyInv' /\ gen' = gen
          /\ \A h \in Merges(disk, journal[p]) : h \in Merges(disk', journal'[p])
      BY <1>1, <1>2, <2>4, RenameKeeps
    <3>2. QED BY <1>2, <2>1, <3>1
  <2>5. ~ Crash(p)
    BY <1>1, <1>4 DEF Crash, QueryInv, JInv, IInv, TypeOK
  <2>6. QED BY <1>4, <2>2, <2>3, <2>4, <2>5 DEF Step
<1>5. CASE Crash(p) /\ ForgetIndex(p)
  <2>1. [Next]_vars /\ CopyInv' /\ Settled(disk', journal'[p])
    BY <1>1, <1>2, <1>5, CrashKeeps DEF Next, Step
  <2>2. QED BY <1>1, <1>2, <1>5, <2>1 DEF ForgetIndex
<1>6. CASE Rebuild(p)
  <2>1. PICK g \in Merges(Base(p), journal[p]) :
          View(p, g) /\ snapshot' = [snapshot EXCEPT ![p] = g]
    BY <1>6 DEF Rebuild
  <2>2. Look(p)
    BY <1>6, <2>1 DEF Rebuild, Look
  <2>3. CopyInv' /\ Settled(disk', journal'[p]) /\ gen'[p] = gen[p] /\ UNCHANGED <<disk, journal>>
    BY <1>1, <1>2, <2>2, QuietKeeps
  <2>4. g \in Merges(disk, journal[p])
    BY <1>1, <1>2, <2>1, ReadsFile
  <2>5. [Next]_vars
    BY <1>1, <2>2 DEF Next, Step
  <2>6. QED BY <1>1, <1>2, <1>6, <2>1, <2>3, <2>4, <2>5 DEF Rebuild
<1>7. CASE CheckGeneration(p)
  <2>1. Look(p)
    BY <1>7 DEF CheckGeneration, Look
  <2>2. CopyInv' /\ Settled(disk', journal'[p]) /\ gen'[p] = gen[p] /\ UNCHANGED <<disk, journal>>
    BY <1>1, <1>2, <2>1, QuietKeeps
  <2>3. [Next]_vars
    BY <1>1, <2>1 DEF Next, Step
  <2>4. QED BY <1>1, <1>2, <1>7, <2>2, <2>3 DEF CheckGeneration
<1>8. CASE Invalidate(p)
  <2>1. UNCHANGED vars /\ UNCHANGED <<snapshot, igen, behind>> /\ istate' = [istate EXCEPT ![p] = "stale"]
    BY <1>8 DEF Invalidate
  <2>2. CopyInv' /\ Settled(disk', journal'[p])
    BY <1>2, <2>1 DEF vars, CopyInv, Settled, JournalEmpty, KeptNodes, Holders
  <2>3. QED BY <1>1, <1>2, <2>1, <2>2
<1>9. CASE UNCHANGED queryIndexVars
  <2>1. UNCHANGED vars /\ UNCHANGED <<istate, snapshot, igen, behind>>
    BY <1>9 DEF queryIndexVars, queryVars
  <2>2. UNCHANGED <<disk, stamp, pc, seen, journal, cached, cstamp, gen>>
    BY <2>1 DEF vars
  <2>3. CopyInv'
    BY <1>2, <2>2 DEF CopyInv, JournalEmpty
  <2>4. QED BY <1>2, <2>1, <2>2, <2>3
<1>10. QED BY <1>1, <1>4, <1>5, <1>6, <1>7, <1>8, <1>9 DEF QueryNext

\* With one process its copy is the file, and an index that has the repository's
\* generation holds the merge of the file and the journal (persistent.go, query_index.go).
THEOREM QueryInvariance == ASSUME OneProcess PROVE QuerySpec => []QueryInv
BY QueryStarts, QueryStep, PTL DEF QuerySpec

\* With one process, an index that Refresh would find current answers as the
\* repository does: no change, save, failure or restart leaves the generation behind.
THEOREM IndexStaysCurrent == ASSUME OneProcess PROVE QuerySpec => []IndexIsCurrent
<1>1. QueryInv => IndexIsCurrent
  BY DEF QueryInv, SnapshotInv, CopyInv, IndexIsCurrent
<1>2. QED BY <1>1, QueryInvariance, PTL
HIDE GraphAssumption
HIDE IdAssumption

-----------------------------------------------------------------------------
(***************************************************************************)
(* Evidence.  What an upsert changes of the records, what is kept of every  *)
(* claim while ids are steady, and where superseded records lead.          *)
(***************************************************************************)
USE EvidenceAssumption, NoValueAssumption

\* The records and the history.
Findings == {r.finding : r \in RivalInput}
Texts == {r.text : r \in EvidenceInput} \cup Findings \cup NewBody \cup {NoValue}
Record ==
  [kind : {"Hypothesis", "Evidence"}, subject : Subject \cup {NoValue}, claim : Claim \cup {NoValue},
   ext : RivalId \cup Findings \cup {NoValue}, text : Texts,
   source : {r.source : r \in EvidenceInput} \cup {NoValue},
   conf : Nat, method : {"manual", "supersede", NoValue}, stamp : Nat \cup {NoValue}, old : BOOLEAN]
Entry ==
  [by : {"task", "evidence", "supersede"} \cup RivalId, subject : Subject \cup {NoValue},
   claim : Claim \cup {NoValue}, conf : Nat, text : Texts, time : Nat]
Claiming(i) == records[i].kind = "Hypothesis" /\ records[i].claim # NoValue

EvidenceType ==
  /\ records \in Seq(Record) /\ history \in Seq(Entry) /\ now \in Nat
  /\ \A i \in DOMAIN history : /\ history[i].time <= now
                               /\ history[i].by \in {"task"} \cup RivalId => history[i].subject \in Subject /\ history[i].claim \in Claim
                               /\ history[i].by \in {"evidence", "supersede"} => history[i].claim = NoValue
  /\ IsFiniteSet(recordLinks)

\* Links lead to records, and there is one of each kind for what was recorded of a subject.
LinksInv ==
  /\ \A l \in recordLinks : l[1] = "SUSPECTED_AS" => l[2] \in Subject /\ l[3] \in DOMAIN records /\ Claiming(l[3])
  /\ \A s \in Subject : (\E l \in recordLinks : l[1] = "SUSPECTED_AS" /\ l[2] = s)
                          <=> \E i \in DOMAIN history : history[i].subject = s /\ history[i].claim # NoValue
  /\ \A s \in Subject : (\E l \in recordLinks : l[1] = "REFERENCES" /\ l[2] = s)
                          <=> \E i \in DOMAIN history : history[i].subject = s /\ history[i].by = "evidence"
  \* Only claims have an id; what a superseded claim was replaced by has none.
  /\ \A i \in DOMAIN records : records[i].kind = "Hypothesis" =>
       /\ records[i].claim # NoValue => records[i].text = NoValue
       /\ records[i].claim = NoValue => records[i].ext = NoValue

\* While no id is used for two subjects or claims, a record says what it was first recorded as.
SaidBy(i) ==
  records[i].ext # NoValue =>
    \E e \in Entries : e.by = records[i].ext /\ e.subject = records[i].subject /\ e.claim = records[i].claim
TaskKept(e) ==
  \E l \in recordLinks : /\ l[1] = "SUSPECTED_AS" /\ l[2] = e.subject /\ l[4] = <<e.conf, "HYPOTHESIS">>
                         /\ records[l[3]].claim = e.claim /\ records[l[3]].stamp \in Nat
                         /\ records[l[3]].stamp >= e.time - (e.time % 2)
LastKept(s, c) ==
  \E l \in recordLinks : /\ l[1] = "SUSPECTED_AS" /\ l[2] = s
                         /\ records[l[3]].claim = c /\ records[l[3]].conf = LastConfidence(s, c)
Alike(s, c) == {l \in getHypotheses(s) : NormalForm[ClaimOf(l).claim] = NormalForm[c]}
SteadyInv ==
  Steady =>
    /\ \A l \in recordLinks : l[1] = "SUSPECTED_AS" => records[l[3]].subject = l[2]
    /\ \A i \in DOMAIN records : Claiming(i) => SaidBy(i)
    /\ \A e \in Entries : e.by = "task" => TaskKept(e)
    /\ \A s \in Subject, c \in Claim : Saying(s, c) # {} => LastKept(s, c)
    /\ \A s \in Subject, c \in Claim : Cardinality(Alike(s, c)) <= Recordings(s, c)

\* While no text is recorded twice, a superseded record has one replacement, a later one.
TextsOnce == \A d, e \in DOMAIN history : d # e /\ history[d].text # NoValue => history[d].text # history[e].text
Replaces(l, i) == l[1] = "SUPERSEDED_BY" /\ l[2] = i
ChainsInv ==
  /\ \A i \in DOMAIN records : records[i].text # NoValue => \E e \in Entries : e.text = records[i].text
  /\ \A i \in DOMAIN records : ~records[i].old => \A l \in recordLinks : ~Replaces(l, i)
  /\ \A l \in recordLinks : l[1] = "SUPERSEDED_BY" => l[2] \in DOMAIN records
  /\ TextsOnce =>
       \A i \in DOMAIN records : records[i].old =>
         \E j \in DOMAIN records : /\ i < j /\ \A l \in recordLinks : Replaces(l, i) => l[3] = j
                                   /\ \E l \in recordLinks : Replaces(l, i)

\* A report is of the present.
ReportInv ==
  report # NoValue =>
    \E s \in Subject :
      report = [subject |-> s, looping |-> detectLoopingClaims(s), contradictions |-> detectContradictions(s),
                unverified |-> detectHighConfidenceUnverified(s),
                unsupported |-> detectMissingEvidence(s), hurried |-> detectStaleClaims(s)]
EvidenceInv == EvidenceType /\ LinksInv /\ SteadyInv /\ ChainsInv /\ ReportInv

\* A record with some of its fields set.
Fields == {"kind", "subject", "claim", "ext", "text", "source", "conf", "method", "stamp", "old"}
LEMMA HavingIs ==
  ASSUME NEW r, DOMAIN r = Fields, NEW fields
  PROVE  /\ DOMAIN Having(r, fields) = Fields
         /\ \A k \in Fields : Having(r, fields)[k] = IF k \in DOMAIN fields THEN fields[k] ELSE r[k]
BY DEF Having

LEMMA IsRecord ==
  ASSUME NEW r, DOMAIN r = Fields, r = [k \in DOMAIN r |-> r[k]],
         r.kind \in {"Hypothesis", "Evidence"}, r.subject \in Subject \cup {NoValue},
         r.claim \in Claim \cup {NoValue}, r.ext \in RivalId \cup Findings \cup {NoValue}, r.text \in Texts,
         r.source \in {e.source : e \in EvidenceInput} \cup {NoValue},
         r.conf \in Nat, r.method \in {"manual", "supersede", NoValue}, r.stamp \in Nat \cup {NoValue},
         r.old \in BOOLEAN
  PROVE  r \in Record
<1> DEFINE q == [kind |-> r.kind, subject |-> r.subject, claim |-> r.claim, ext |-> r.ext, text |-> r.text,
                 source |-> r.source, conf |-> r.conf, method |-> r.method, stamp |-> r.stamp, old |-> r.old]
<1>1. q \in Record
  BY DEF Record
<1>2. r = q
  BY DEF Fields
<1> QED BY <1>1, <1>2

LEMMA RecordIs ==
  ASSUME NEW r \in Record
  PROVE  /\ DOMAIN r = Fields
         /\ r.kind \in {"Hypothesis", "Evidence"} /\ r.subject \in Subject \cup {NoValue}
         /\ r.claim \in Claim \cup {NoValue} /\ r.ext \in RivalId \cup Findings \cup {NoValue} /\ r.text \in Texts
         /\ r.source \in {e.source : e \in EvidenceInput} \cup {NoValue}
         /\ r.conf \in Nat /\ r.method \in {"manual", "supersede", NoValue} /\ r.stamp \in Nat \cup {NoValue}
         /\ r.old \in BOOLEAN
BY DEF Record, Fields

\* An upsert changes one record, or appends one.
Upserted(ns, ms, id) ==
  /\ ms \in Seq(Record) /\ id \in DOMAIN ms /\ DOMAIN ns \subseteq DOMAIN ms
  /\ \A i \in DOMAIN ms : i # id => i \in DOMAIN ns /\ ms[i] = ns[i]
  /\ id \notin DOMAIN ns => id = Len(ns) + 1
Fresh(kind, identity) == Having(Having(Blank, [kind |-> kind]), identity)

LEMMA UpsertIs ==
  ASSUME NEW ns \in Seq(Record), NEW kind, NEW identity, NEW props,
         NEW u \in Upserts(ns, kind, identity, props),
         \A r \in Record : r.kind = kind /\ (\A k \in DOMAIN identity : r[k] = identity[k]) => Having(r, props) \in Record,
         Having(Fresh(kind, identity), props) \in Record
  PROVE  /\ Upserted(ns, u.records, u.id)
         /\ u.id \in DOMAIN ns => /\ ns[u.id].kind = kind /\ \A k \in DOMAIN identity : ns[u.id][k] = identity[k]
                                  /\ u.records[u.id] = Having(ns[u.id], props)
         /\ u.id \notin DOMAIN ns => /\ u.records[u.id] = Having(Fresh(kind, identity), props)
                                     /\ \A i \in DOMAIN ns : ~(ns[i].kind = kind /\ \A k \in DOMAIN identity : ns[i][k] = identity[k])
<1> DEFINE matching == {i \in DOMAIN ns : ns[i].kind = kind /\ \A k \in DOMAIN identity : ns[i][k] = identity[k]}
           new == Having(Fresh(kind, identity), props)
<1>1. CASE matching = {}
  <2>1. u = [records |-> Append(ns, new), id |-> Len(ns) + 1]
    BY <1>1 DEF Upserts, Fresh
  <2>2. u.records = Append(ns, new) /\ u.id = Len(ns) + 1
    BY <2>1
  <2> HIDE DEF new
  <2>3. /\ Append(ns, new) \in Seq(Record) /\ DOMAIN ns = 1..Len(ns) /\ Len(ns) \in Nat
        /\ DOMAIN Append(ns, new) = 1..(Len(ns) + 1) /\ Append(ns, new)[Len(ns) + 1] = new
        /\ \A i \in 1..Len(ns) : Append(ns, new)[i] = ns[i]
    BY DEF new
  <2>4. \A i \in 1..(Len(ns) + 1) : i # Len(ns) + 1 => i \in 1..Len(ns)
    BY <2>3
  <2>5. Len(ns) + 1 \notin DOMAIN ns /\ Len(ns) + 1 \in 1..(Len(ns) + 1) /\ DOMAIN ns \subseteq 1..(Len(ns) + 1)
    BY <2>3
  <2>6. Upserted(ns, u.records, u.id)
    BY <2>2, <2>3, <2>4, <2>5 DEF Upserted
  <2> QED BY <1>1, <2>2, <2>3, <2>5, <2>6 DEF new
<1>2. CASE matching # {}
  <2>1. PICK i \in matching : u = [records |-> [ns EXCEPT ![i] = Having(ns[i], props)], id |-> i]
    BY <1>2 DEF Upserts
  <2> DEFINE ms == [ns EXCEPT ![i] = Having(ns[i], props)]
  <2>2. u.records = ms /\ u.id = i
    BY <2>1
  <2>3. i \in DOMAIN ns /\ ns[i].kind = kind /\ (\A k \in DOMAIN identity : ns[i][k] = identity[k]) /\ ns[i] \in Record
    BY <2>1
  <2>4. Having(ns[i], props) \in Record
    BY <2>3
  <2>5. ms \in Seq(Record) /\ DOMAIN ms = DOMAIN ns /\ ms[i] = Having(ns[i], props)
        /\ \A j \in DOMAIN ns : j # i => ms[j] = ns[j]
    BY <2>3, <2>4
  <2> HIDE DEF ms
  <2> QED BY <2>2, <2>3, <2>5 DEF Upserted
<1> QED BY <1>1, <1>2

\* The same for the four kinds of upserts there are.
LEMMA ClaimUpsert ==
  ASSUME NEW ns \in Seq(Record), NEW s \in Subject, NEW c \in Claim, NEW conf \in Nat, NEW time \in Nat,
         NEW u \in Upserts(ns, "Hypothesis", [subject |-> s, claim |-> c],
                           [conf |-> conf, method |-> "manual", stamp |-> time])
  PROVE  LET q == u.records[u.id]  r == ns[u.id]
         IN  /\ Upserted(ns, u.records, u.id)
             /\ q.kind = "Hypothesis" /\ q.subject = s /\ q.claim = c /\ q.conf = conf /\ q.stamp = time
             /\ u.id \in DOMAIN ns => /\ r.kind = "Hypothesis" /\ r.subject = s /\ r.claim = c
                                      /\ q.ext = r.ext /\ q.text = r.text /\ q.old = r.old
             /\ u.id \notin DOMAIN ns => q.ext = NoValue /\ q.text = NoValue /\ ~q.old
<1> DEFINE identity == [subject |-> s, claim |-> c]
           props == [conf |-> conf, method |-> "manual", stamp |-> time]
           new == Having(Fresh("Hypothesis", identity), props)
<1>1. DOMAIN identity = {"subject", "claim"} /\ DOMAIN props = {"conf", "method", "stamp"}
      /\ identity.subject = s /\ identity.claim = c /\ props.conf = conf /\ props.method = "manual" /\ props.stamp = time
  OBVIOUS
<1> HIDE DEF identity, props
<1>2. /\ DOMAIN new = Fields /\ new = [k \in DOMAIN new |-> new[k]]
      /\ new.kind = "Hypothesis" /\ new.subject = s /\ new.claim = c /\ new.ext = NoValue /\ new.text = NoValue
      /\ new.source = NoValue /\ new.conf = conf /\ new.method = "manual" /\ new.stamp = time /\ new.old = FALSE
  BY <1>1 DEF Fresh, Having, Blank, Fields
<1>3. ASSUME NEW r \in Record
      PROVE  LET q == Having(r, props)
             IN  /\ DOMAIN q = Fields /\ q = [k \in DOMAIN q |-> q[k]]
                 /\ q.kind = r.kind /\ q.subject = r.subject /\ q.claim = r.claim /\ q.ext = r.ext /\ q.text = r.text
                 /\ q.source = r.source /\ q.conf = conf /\ q.method = "manual" /\ q.stamp = time /\ q.old = r.old
  BY <1>1, <1>3, RecordIs DEF Having, Fields
<1> HIDE DEF new
<1>4. new \in Record
  BY <1>2, IsRecord DEF Texts
<1>5. ASSUME NEW r \in Record PROVE Having(r, props) \in Record
  BY <1>3, <1>5, IsRecord, RecordIs
<1>6. /\ Upserted(ns, u.records, u.id)
      /\ u.id \in DOMAIN ns => /\ ns[u.id].kind = "Hypothesis" /\ \A k \in DOMAIN identity : ns[u.id][k] = identity[k]
                               /\ u.records[u.id] = Having(ns[u.id], props)
      /\ u.id \notin DOMAIN ns => u.records[u.id] = new
  BY <1>4, <1>5, UpsertIs DEF new, identity, props
<1>7. CASE u.id \in DOMAIN ns
  <2>1. ns[u.id] \in Record /\ ns[u.id].subject = s /\ ns[u.id].claim = c
    BY <1>1, <1>6, <1>7
  <2> QED BY <1>3, <1>6, <1>7, <2>1
<1>8. CASE u.id \notin DOMAIN ns
  BY <1>2, <1>6, <1>8
<1> QED BY <1>7, <1>8

LEMMA RivalUpsert ==
  ASSUME NEW ns \in Seq(Record), NEW h \in RivalId, NEW s \in Subject, NEW c \in Claim, NEW conf \in Nat,
         NEW u \in Upserts(ns, "Hypothesis", [ext |-> h], [subject |-> s, claim |-> c, conf |-> conf])
  PROVE  LET q == u.records[u.id]  r == ns[u.id]
         IN  /\ Upserted(ns, u.records, u.id)
             /\ q.kind = "Hypothesis" /\ q.subject = s /\ q.claim = c /\ q.conf = conf /\ q.ext = h
             /\ u.id \in DOMAIN ns => /\ r.kind = "Hypothesis" /\ r.ext = h
                                      /\ q.stamp = r.stamp /\ q.text = r.text /\ q.old = r.old
             /\ u.id \notin DOMAIN ns => q.text = NoValue /\ ~q.old
<1> DEFINE identity == [ext |-> h]
           props == [subject |-> s, claim |-> c, conf |-> conf]
           new == Having(Fresh("Hypothesis", identity), props)
<1>1. DOMAIN identity = {"ext"} /\ DOMAIN props = {"subject", "claim", "conf"}
      /\ identity.ext = h /\ props.conf = conf /\ props.subject = s /\ props.claim = c
  OBVIOUS
<1> HIDE DEF identity, props
<1>2. /\ DOMAIN new = Fields /\ new = [k \in DOMAIN new |-> new[k]]
      /\ new.kind = "Hypothesis" /\ new.subject = s /\ new.claim = c /\ new.ext = h /\ new.text = NoValue
      /\ new.source = NoValue /\ new.conf = conf /\ new.method = NoValue /\ new.stamp = NoValue /\ new.old = FALSE
  BY <1>1 DEF Fresh, Having, Blank, Fields
<1>3. ASSUME NEW r \in Record
      PROVE  LET q == Having(r, props)
             IN  /\ DOMAIN q = Fields /\ q = [k \in DOMAIN q |-> q[k]]
                 /\ q.kind = r.kind /\ q.subject = s /\ q.claim = c /\ q.ext = r.ext /\ q.text = r.text
                 /\ q.source = r.source /\ q.conf = conf /\ q.method = r.method /\ q.stamp = r.stamp /\ q.old = r.old
  BY <1>1, <1>3, RecordIs DEF Having, Fields
<1> HIDE DEF new
<1>4. new \in Record
  BY <1>2, IsRecord DEF Texts
<1>5. ASSUME NEW r \in Record PROVE Having(r, props) \in Record
  BY <1>3, <1>5, IsRecord, RecordIs
<1>6. /\ Upserted(ns, u.records, u.id)
      /\ u.id \in DOMAIN ns => /\ ns[u.id].kind = "Hypothesis" /\ \A k \in DOMAIN identity : ns[u.id][k] = identity[k]
                               /\ u.records[u.id] = Having(ns[u.id], props)
      /\ u.id \notin DOMAIN ns => u.records[u.id] = new
  BY <1>4, <1>5, UpsertIs DEF new, identity, props
<1>7. CASE u.id \in DOMAIN ns
  <2>1. ns[u.id] \in Record /\ ns[u.id].ext = h
    BY <1>1, <1>6, <1>7
  <2> QED BY <1>3, <1>6, <1>7, <2>1
<1>8. CASE u.id \notin DOMAIN ns
  BY <1>2, <1>6, <1>8
<1> QED BY <1>7, <1>8

LEMMA FindingUpsert ==
  ASSUME NEW ns \in Seq(Record), NEW finding \in Findings, NEW conf \in Nat,
         NEW u \in Upserts(ns, "Evidence", [ext |-> finding], [text |-> finding, conf |-> conf])
  PROVE  LET q == u.records[u.id]  r == ns[u.id]
         IN  /\ Upserted(ns, u.records, u.id)
             /\ q.kind = "Evidence" /\ q.text = finding
             /\ u.id \in DOMAIN ns => r.kind = "Evidence" /\ q.old = r.old
             /\ u.id \notin DOMAIN ns => ~q.old
<1> DEFINE identity == [ext |-> finding]
           props == [text |-> finding, conf |-> conf]
           new == Having(Fresh("Evidence", identity), props)
<1>1. DOMAIN identity = {"ext"} /\ DOMAIN props = {"text", "conf"}
      /\ identity.ext = finding /\ props.conf = conf /\ props.text = finding
  OBVIOUS
<1> HIDE DEF identity, props
<1>2. /\ DOMAIN new = Fields /\ new = [k \in DOMAIN new |-> new[k]]
      /\ new.kind = "Evidence" /\ new.subject = NoValue /\ new.claim = NoValue /\ new.ext = finding /\ new.text = finding
      /\ new.source = NoValue /\ new.conf = conf /\ new.method = NoValue /\ new.stamp = NoValue /\ new.old = FALSE
  BY <1>1 DEF Fresh, Having, Blank, Fields
<1>3. ASSUME NEW r \in Record
      PROVE  LET q == Having(r, props)
             IN  /\ DOMAIN q = Fields /\ q = [k \in DOMAIN q |-> q[k]]
                 /\ q.kind = r.kind /\ q.subject = r.subject /\ q.claim = r.claim /\ q.ext = r.ext /\ q.text = finding
                 /\ q.source = r.source /\ q.conf = conf /\ q.method = r.method /\ q.stamp = r.stamp /\ q.old = r.old
  BY <1>1, <1>3, RecordIs DEF Having, Fields
<1> HIDE DEF new
<1>4. new \in Record
  BY <1>2, IsRecord DEF Texts
<1>5. ASSUME NEW r \in Record PROVE Having(r, props) \in Record
  <2>1. finding \in Texts
    BY DEF Texts
  <2> QED BY <1>3, <1>5, <2>1, IsRecord, RecordIs
<1>6. /\ Upserted(ns, u.records, u.id)
      /\ u.id \in DOMAIN ns => /\ ns[u.id].kind = "Evidence" /\ u.records[u.id] = Having(ns[u.id], props)
      /\ u.id \notin DOMAIN ns => u.records[u.id] = new
  BY <1>4, <1>5, UpsertIs DEF new, identity, props
<1>7. CASE u.id \in DOMAIN ns
  <2>1. ns[u.id] \in Record
    BY <1>7
  <2> QED BY <1>3, <1>6, <1>7, <2>1
<1>8. CASE u.id \notin DOMAIN ns
  BY <1>2, <1>6, <1>8
<1> QED BY <1>7, <1>8

LEMMA EvidenceUpsert ==
  ASSUME NEW ns \in Seq(Record), NEW s \in Subject, NEW e \in EvidenceInput, NEW time \in Nat,
         NEW u \in Upserts(ns, "Evidence", [subject |-> s, text |-> e.text, source |-> e.source],
                           [conf |-> e.conf, method |-> "manual", stamp |-> time])
  PROVE  LET q == u.records[u.id]  r == ns[u.id]
         IN  /\ Upserted(ns, u.records, u.id)
             /\ q.kind = "Evidence" /\ q.text = e.text
             /\ u.id \in DOMAIN ns => r.kind = "Evidence" /\ q.old = r.old
             /\ u.id \notin DOMAIN ns => ~q.old
<1> DEFINE identity == [subject |-> s, text |-> e.text, source |-> e.source]
           props == [conf |-> e.conf, method |-> "manual", stamp |-> time]
           new == Having(Fresh("Evidence", identity), props)
<1>1. DOMAIN identity = {"subject", "text", "source"} /\ DOMAIN props = {"conf", "method", "stamp"}
      /\ identity.subject = s /\ identity.text = e.text /\ identity.source = e.source
      /\ props.conf = e.conf /\ props.method = "manual" /\ props.stamp = time
  OBVIOUS
<1> HIDE DEF identity, props
<1>2. /\ DOMAIN new = Fields /\ new = [k \in DOMAIN new |-> new[k]]
      /\ new.kind = "Evidence" /\ new.subject = s /\ new.claim = NoValue /\ new.ext = NoValue /\ new.text = e.text
      /\ new.source = e.source /\ new.conf = e.conf /\ new.method = "manual" /\ new.stamp = time /\ new.old = FALSE
  BY <1>1 DEF Fresh, Having, Blank, Fields
<1>3. ASSUME NEW r \in Record
      PROVE  LET q == Having(r, props)
             IN  /\ DOMAIN q = Fields /\ q = [k \in DOMAIN q |-> q[k]]
                 /\ q.kind = r.kind /\ q.subject = r.subject /\ q.claim = r.claim /\ q.ext = r.ext /\ q.text = r.text
                 /\ q.source = r.source /\ q.conf = e.conf /\ q.method = "manual" /\ q.stamp = time /\ q.old = r.old
  BY <1>1, <1>3, RecordIs DEF Having, Fields
<1> HIDE DEF new
<1>4. new \in Record
  <2>1. e.text \in Texts /\ e.conf \in Nat /\ e.source \in {d.source : d \in EvidenceInput}
    BY DEF Texts
  <2> QED BY <1>2, <2>1, IsRecord
<1>5. ASSUME NEW r \in Record PROVE Having(r, props) \in Record
  BY <1>3, <1>5, IsRecord, RecordIs
<1>6. /\ Upserted(ns, u.records, u.id)
      /\ u.id \in DOMAIN ns => /\ ns[u.id].kind = "Evidence" /\ \A k \in DOMAIN identity : ns[u.id][k] = identity[k]
                               /\ u.records[u.id] = Having(ns[u.id], props)
      /\ u.id \notin DOMAIN ns => u.records[u.id] = new
  BY <1>4, <1>5, UpsertIs DEF new, identity, props
<1>7. CASE u.id \in DOMAIN ns
  <2>1. ns[u.id] \in Record /\ ns[u.id].text = e.text
    BY <1>1, <1>6, <1>7
  <2> QED BY <1>3, <1>6, <1>7, <2>1
<1>8. CASE u.id \notin DOMAIN ns
  BY <1>2, <1>6, <1>8
<1> QED BY <1>7, <1>8

LEMMA SupersedeUpsert ==
  ASSUME NEW ns \in Seq(Record), NEW old \in Record, NEW text \in NewBody, NEW time \in Nat,
         NEW u \in Upserts(ns, old.kind, [subject |-> old.subject, text |-> text],
                           [conf |-> old.conf, method |-> "supersede", stamp |-> time])
  PROVE  LET q == u.records[u.id]  r == ns[u.id]
         IN  /\ Upserted(ns, u.records, u.id)
             /\ q.kind = old.kind /\ q.text = text
             /\ u.id \in DOMAIN ns => /\ r.kind = old.kind /\ r.text = text /\ q.old = r.old
                                      /\ q.subject = r.subject /\ q.claim = r.claim /\ q.ext = r.ext
             /\ u.id \notin DOMAIN ns => ~q.old /\ q.claim = NoValue /\ q.ext = NoValue
<1> DEFINE identity == [subject |-> old.subject, text |-> text]
           props == [conf |-> old.conf, method |-> "supersede", stamp |-> time]
           new == Having(Fresh(old.kind, identity), props)
<1>1. DOMAIN identity = {"subject", "text"} /\ DOMAIN props = {"conf", "method", "stamp"}
      /\ identity.subject = old.subject /\ identity.text = text
      /\ props.conf = old.conf /\ props.method = "supersede" /\ props.stamp = time
  OBVIOUS
<1> HIDE DEF identity, props
<1>2. /\ DOMAIN new = Fields /\ new = [k \in DOMAIN new |-> new[k]]
      /\ new.kind = old.kind /\ new.subject = old.subject /\ new.claim = NoValue /\ new.ext = NoValue /\ new.text = text
      /\ new.source = NoValue /\ new.conf = old.conf /\ new.method = "supersede" /\ new.stamp = time /\ new.old = FALSE
  BY <1>1 DEF Fresh, Having, Blank, Fields
<1>3. ASSUME NEW r \in Record
      PROVE  LET q == Having(r, props)
             IN  /\ DOMAIN q = Fields /\ q = [k \in DOMAIN q |-> q[k]]
                 /\ q.kind = r.kind /\ q.subject = r.subject /\ q.claim = r.claim /\ q.ext = r.ext /\ q.text = r.text
                 /\ q.source = r.source /\ q.conf = old.conf /\ q.method = "supersede" /\ q.stamp = time /\ q.old = r.old
  BY <1>1, <1>3, RecordIs DEF Having, Fields
<1> HIDE DEF new
<1>4. new \in Record
  <2>1. text \in Texts
    BY DEF Texts
  <2>2. old.kind \in {"Hypothesis", "Evidence"} /\ old.subject \in Subject \cup {NoValue} /\ old.conf \in Nat
    BY RecordIs
  <2> QED BY <1>2, <2>1, <2>2, IsRecord
<1>5. ASSUME NEW r \in Record PROVE Having(r, props) \in Record
  <2>1. old.conf \in Nat
    BY RecordIs
  <2> QED BY <1>3, <1>5, <2>1, IsRecord, RecordIs
<1>6. /\ Upserted(ns, u.records, u.id)
      /\ u.id \in DOMAIN ns => /\ ns[u.id].kind = old.kind /\ \A k \in DOMAIN identity : ns[u.id][k] = identity[k]
                               /\ u.records[u.id] = Having(ns[u.id], props)
      /\ u.id \notin DOMAIN ns => u.records[u.id] = new
  BY <1>4, <1>5, UpsertIs DEF new, identity, props
<1>7. CASE u.id \in DOMAIN ns
  <2>1. ns[u.id] \in Record /\ ns[u.id].text = text
    BY <1>1, <1>6, <1>7
  <2> QED BY <1>3, <1>6, <1>7, <2>1
<1>8. CASE u.id \notin DOMAIN ns
  BY <1>2, <1>6, <1>8
<1> QED BY <1>7, <1>8

\* What one more entry makes of the history.
Grown(e) ==
  /\ e \in Entry /\ history' = Append(history, e)
LEMMA HistoryGrows ==
  ASSUME EvidenceType, NEW e, Grown(e)
  PROVE  LET n == Len(history)
         IN  /\ history' \in Seq(Entry) /\ n \in Nat /\ n + 1 \notin DOMAIN history
             /\ DOMAIN history' = DOMAIN history \cup {n + 1} /\ history'[n + 1] = e
             /\ \A i \in DOMAIN history : history'[i] = history[i] /\ i < n + 1 /\ i \in Nat
             /\ Entries' = Entries \cup {e}
<1> DEFINE n == Len(history)
<1>1. history \in Seq(Entry) /\ n \in Nat /\ DOMAIN history = 1..n
  BY DEF EvidenceType
<1>2. history' \in Seq(Entry) /\ DOMAIN history' = 1..(n + 1) /\ history'[n + 1] = e
      /\ \A i \in 1..n : history'[i] = history[i]
  BY <1>1 DEF Grown
<1>3. 1..(n + 1) = 1..n \cup {n + 1} /\ n + 1 \notin 1..n /\ \A i \in 1..n : i < n + 1 /\ i \in Nat
  BY <1>1
<1>4. Entries' = {history'[i] : i \in 1..(n + 1)} /\ Entries = {history[i] : i \in 1..n}
  BY <1>1, <1>2 DEF Entries, Range
<1> HIDE DEF n
<1>5. Entries' = Entries \cup {e}
  <2>1. ASSUME NEW d \in Entries' PROVE d \in Entries \cup {e}
    <3>1. PICK i \in 1..(n + 1) : d = history'[i]
      BY <1>4
    <3> QED BY <1>2, <1>3, <1>4, <3>1
  <2>2. ASSUME NEW d \in Entries PROVE d \in Entries'
    <3>1. PICK i \in 1..n : d = history[i]
      BY <1>4
    <3>2. i \in 1..(n + 1) /\ history'[i] = d
      BY <1>2, <1>3, <3>1
    <3> QED BY <1>4, <3>2
  <2>3. e \in Entries'
    BY <1>2, <1>3, <1>4
  <2> QED BY <2>1, <2>2, <2>3
<1> QED BY <1>1, <1>2, <1>3, <1>5 DEF n

LEMMA SteadyBefore ==
  ASSUME NEW e, Entries' = Entries \cup {e}, Steady'
  PROVE  /\ Steady
         /\ \A d \in Entries : d.by = e.by /\ e.by \in RivalId => d.subject = e.subject /\ d.claim = e.claim
BY DEF Steady

LEMMA SayingIs ==
  ASSUME NEW s, NEW c, c # NoValue
  PROVE  Saying(s, c) = {i \in DOMAIN history : history[i].subject = s /\ history[i].claim = c}
<1>1. \A i \in DOMAIN history : history[i] \in Entries
  BY DEF Entries, Range
<1> QED BY <1>1 DEF Saying, About

\* The confidence a claim was last recorded with is kept until it is recorded again.
LEMMA SameLast ==
  ASSUME EvidenceType, NEW s, NEW c, Saying(s, c)' = Saying(s, c), Saying(s, c) # {},
         \A i \in DOMAIN history : history'[i] = history[i]
  PROVE  LastConfidence(s, c)' = LastConfidence(s, c)
<1> DEFINE n == Len(history)
           S == Saying(s, c)
           L == CHOOSE k \in Saying(s, c) : \A j \in Saying(s, c) : j <= k
           L2 == CHOOSE k \in Saying(s, c)' : \A j \in Saying(s, c)' : j <= k
<1>1. L = L2
  OBVIOUS
<1>2. S \subseteq DOMAIN history /\ S # {} /\ DOMAIN history = 1..n /\ n \in Nat
  BY DEF Saying, EvidenceType
<1>3. LastConfidence(s, c) = history[L].conf /\ LastConfidence(s, c)' = history'[L2].conf
  BY DEF LastConfidence
<1>4. \E k \in S : \A j \in S : j <= k
  <2> DEFINE T == {n - j : j \in S}
  <2> HIDE DEF S, n
  <2>1. S \subseteq Nat /\ \A j \in S : n - j \in Nat
    BY <1>2
  <2>2. T \subseteq Nat /\ T # {}
    BY <1>2, <2>1
  <2>3. \A j \in S : n - j \in T
    OBVIOUS
  <2>4. \A t \in T : \E j \in S : t = n - j
    OBVIOUS
  <2> HIDE DEF T
  <2>5. PICK m \in T : \A t \in T : m <= t
    BY ONLY <2>2, LeastNumber
  <2>6. PICK k \in S : m = n - k
    BY <2>4
  <2>7. ASSUME NEW j \in S PROVE j <= k
    BY <1>2, <2>1, <2>3, <2>5, <2>6
  <2> QED BY <2>7
<1>5. L \in S
  BY <1>4
<1> HIDE DEF L, L2, S
<1> QED BY <1>1, <1>2, <1>3, <1>5

\* A hypothesis recorded: what recording a claim and recording a rival have in common.
HypothesisStep(id, e, label) ==
  LET q == records'[id]  r == records[id]
      new == <<"SUSPECTED_AS", e.subject, id, <<e.conf, label>>>>
  IN  /\ Grown(e) /\ e.by \in {"task"} \cup RivalId /\ e.subject \in Subject /\ e.claim \in Claim
      /\ e.time = now /\ now' = now
      /\ records' \in Seq(Record) /\ id \in DOMAIN records'
      /\ \A i \in DOMAIN records : i \in DOMAIN records' /\ (records[i].kind = "Hypothesis" /\ i # id => records'[i] = records[i])
      /\ \A i \in DOMAIN records' : records'[i].kind = "Hypothesis" /\ i # id => i \in DOMAIN records /\ records[i] = records'[i]
      /\ q.kind = "Hypothesis" /\ q.subject = e.subject /\ q.claim = e.claim /\ q.conf = e.conf
      /\ e.by = "task" => label = "HYPOTHESIS" /\ q.stamp = Second
      /\ id \in DOMAIN records => /\ r.kind = "Hypothesis" /\ q.ext = r.ext /\ q.text = r.text
                                  /\ e.by = "task" => r.subject = e.subject /\ r.claim = e.claim
                                  /\ e.by # "task" => r.ext = e.by /\ q.stamp = r.stamp
      /\ id \notin DOMAIN records => q.text = NoValue /\ q.ext = IF e.by = "task" THEN NoValue ELSE e.by
      /\ recordLinks \cup {new} \subseteq recordLinks'
      /\ \A l \in recordLinks' : l \in recordLinks \cup {new} \/ l[1] = "SUPPORTS"
      /\ IsFiniteSet(recordLinks')

LEMMA HypothesisLinks ==
  ASSUME EvidenceType, LinksInv, NEW id, NEW e, NEW label, HypothesisStep(id, e, label)
  PROVE  LinksInv' /\ (id \in DOMAIN records => Claiming(id))
<1> DEFINE new == <<"SUSPECTED_AS", e.subject, id, <<e.conf, label>>>>
           n == Len(history)
<1>1. /\ DOMAIN history' = DOMAIN history \cup {n + 1} /\ history'[n + 1] = e /\ n + 1 \notin DOMAIN history
      /\ \A i \in DOMAIN history : history'[i] = history[i]
  BY HistoryGrows DEF HypothesisStep
<1>2. /\ recordLinks \subseteq recordLinks' /\ new \in recordLinks'
      /\ \A l \in recordLinks' : l[1] = "SUSPECTED_AS" \/ l[1] = "REFERENCES" => l \in recordLinks \/ l = new
  BY DEF HypothesisStep
<1>3. new[1] = "SUSPECTED_AS" /\ new[2] = e.subject /\ new[3] = id
  OBVIOUS
<1>4. e.subject \in Subject /\ e.claim \in Claim /\ e.claim # NoValue /\ e.by # "evidence"
  BY DEF HypothesisStep
<1> HIDE DEF new, n
<1>5. id \in DOMAIN records => Claiming(id)
  <2>1. ASSUME id \in DOMAIN records PROVE records[id].kind = "Hypothesis" /\ records[id].claim # NoValue
    <3>1. CASE e.by = "task"
      BY <1>4, <2>1, <3>1 DEF HypothesisStep
    <3>2. CASE e.by # "task"
      <4>1. records[id].kind = "Hypothesis" /\ records[id].ext = e.by /\ e.by \in RivalId
        BY <2>1, <3>2 DEF HypothesisStep
      <4>2. e.by # NoValue
        BY <4>1
      <4> QED BY <2>1, <4>1, <4>2 DEF LinksInv
    <3> QED BY <3>1, <3>2
  <2> QED BY <2>1 DEF Claiming
<1>6. Claiming(id)' /\ id \in DOMAIN records'
  BY <1>4 DEF HypothesisStep, Claiming
<1>7. ASSUME NEW l \in recordLinks', l[1] = "SUSPECTED_AS"
      PROVE  l[2] \in Subject /\ l[3] \in DOMAIN records' /\ Claiming(l[3])'
  <2>1. CASE l \in recordLinks
    <3>1. l[2] \in Subject /\ l[3] \in DOMAIN records /\ Claiming(l[3])
      BY <1>7, <2>1 DEF LinksInv
    <3>2. l[3] # id => l[3] \in DOMAIN records' /\ records'[l[3]] = records[l[3]]
      BY <3>1 DEF HypothesisStep, Claiming
    <3> QED BY <1>6, <3>1, <3>2 DEF Claiming
  <2>2. CASE l = new
    BY <1>3, <1>4, <1>6, <2>2
  <2> QED BY <1>2, <1>7, <2>1, <2>2
<1>8. ASSUME NEW s \in Subject
      PROVE  (\E l \in recordLinks' : l[1] = "SUSPECTED_AS" /\ l[2] = s)
               <=> \E i \in DOMAIN history' : history'[i].subject = s /\ history'[i].claim # NoValue
  <2>1. (\E l \in recordLinks : l[1] = "SUSPECTED_AS" /\ l[2] = s)
          <=> \E i \in DOMAIN history : history[i].subject = s /\ history[i].claim # NoValue
    BY DEF LinksInv
  <2>2. (\E l \in recordLinks' : l[1] = "SUSPECTED_AS" /\ l[2] = s)
          <=> (\E l \in recordLinks : l[1] = "SUSPECTED_AS" /\ l[2] = s) \/ s = e.subject
    BY <1>2, <1>3
  <2>3. (\E i \in DOMAIN history' : history'[i].subject = s /\ history'[i].claim # NoValue)
          <=> (\E i \in DOMAIN history : history[i].subject = s /\ history[i].claim # NoValue) \/ s = e.subject
    BY <1>1, <1>4
  <2> QED BY <2>1, <2>2, <2>3
<1>9. ASSUME NEW s \in Subject
      PROVE  (\E l \in recordLinks' : l[1] = "REFERENCES" /\ l[2] = s)
               <=> \E i \in DOMAIN history' : history'[i].subject = s /\ history'[i].by = "evidence"
  <2>1. (\E l \in recordLinks : l[1] = "REFERENCES" /\ l[2] = s)
          <=> \E i \in DOMAIN history : history[i].subject = s /\ history[i].by = "evidence"
    BY DEF LinksInv
  <2>2. (\E l \in recordLinks' : l[1] = "REFERENCES" /\ l[2] = s)
          <=> (\E l \in recordLinks : l[1] = "REFERENCES" /\ l[2] = s)
    BY <1>2, <1>3
  <2>3. (\E i \in DOMAIN history' : history'[i].subject = s /\ history'[i].by = "evidence")
          <=> (\E i \in DOMAIN history : history[i].subject = s /\ history[i].by = "evidence")
    BY <1>1, <1>4
  <2> QED BY <2>1, <2>2, <2>3
<1>10. ASSUME NEW i \in DOMAIN records', records'[i].kind = "Hypothesis"
       PROVE  /\ records'[i].claim # NoValue => records'[i].text = NoValue
              /\ records'[i].claim = NoValue => records'[i].ext = NoValue
  <2>1. CASE i = id
    <3>1. id \in DOMAIN records => records'[id].text = records[id].text /\ records[id].text = NoValue
      BY <1>5 DEF HypothesisStep, LinksInv, Claiming
    <3> QED BY <1>4, <2>1, <3>1 DEF HypothesisStep
  <2>2. CASE i # id
    BY <1>10, <2>2 DEF HypothesisStep, LinksInv
  <2> QED BY <2>1, <2>2
<1> QED BY <1>5, <1>7, <1>8, <1>9, <1>10 DEF LinksInv

LEMMA OneMore ==
  ASSUME NEW S, IsFiniteSet(S), NEW x
  PROVE  Cardinality(S \cup {x}) \in Nat /\ Cardinality(S \cup {x}) <= Cardinality(S) + 1
<1>1. IsFiniteSet(S \cup {x}) /\ Cardinality(S) \in Nat
      /\ Cardinality(S \cup {x}) = IF x \in S THEN Cardinality(S) ELSE Cardinality(S) + 1
  BY FS_AddElement, FS_CardinalityType
<1> QED BY <1>1

LEMMA SecondIs ==
  ASSUME now \in Nat
  PROVE  /\ Second \in Nat /\ Second = now - (now % 2)
         /\ \A t \in Nat : t <= now => t - (t % 2) \in Nat /\ t - (t % 2) <= Second
BY DEF Second

LEMMA HypothesisSteady ==
  ASSUME EvidenceType, LinksInv, SteadyInv, NEW id, NEW e, NEW label, HypothesisStep(id, e, label)
  PROVE  SteadyInv'
<1> SUFFICES ASSUME Steady'
             PROVE  /\ \A l \in recordLinks' : l[1] = "SUSPECTED_AS" => records'[l[3]].subject = l[2]
                    /\ \A i \in DOMAIN records' : Claiming(i)' => SaidBy(i)'
                    /\ \A d \in Entries' : d.by = "task" => TaskKept(d)'
                    /\ \A s \in Subject, c \in Claim : Saying(s, c)' # {} => LastKept(s, c)'
                    /\ \A s \in Subject, c \in Claim : Cardinality(Alike(s, c)') <= Recordings(s, c)'
  BY DEF SteadyInv
<1> DEFINE new == <<"SUSPECTED_AS", e.subject, id, <<e.conf, label>>>>
           n == Len(history)
<1>1. /\ DOMAIN history' = DOMAIN history \cup {n + 1} /\ history'[n + 1] = e /\ n + 1 \notin DOMAIN history
      /\ \A i \in DOMAIN history : history'[i] = history[i] /\ i < n + 1 /\ i \in Nat
      /\ n \in Nat /\ Entries' = Entries \cup {e}
  BY HistoryGrows DEF HypothesisStep
<1>2. /\ recordLinks \subseteq recordLinks' /\ new \in recordLinks'
      /\ \A l \in recordLinks' : l[1] = "SUSPECTED_AS" => l \in recordLinks \/ l = new
  BY DEF HypothesisStep
<1>3. new[1] = "SUSPECTED_AS" /\ new[2] = e.subject /\ new[3] = id /\ new[4] = <<e.conf, label>>
  OBVIOUS
<1>4. e.subject \in Subject /\ e.claim \in Claim /\ e.claim # NoValue /\ e.by \in {"task"} \cup RivalId
  BY DEF HypothesisStep
<1> HIDE DEF new, n
<1>5. /\ Steady
      /\ \A d \in Entries : d.by = e.by /\ e.by \in RivalId => d.subject = e.subject /\ d.claim = e.claim
  BY <1>1, SteadyBefore
<1>6. /\ \A l \in recordLinks : l[1] = "SUSPECTED_AS" => records[l[3]].subject = l[2]
      /\ \A i \in DOMAIN records : Claiming(i) => SaidBy(i)
      /\ \A d \in Entries : d.by = "task" => TaskKept(d)
      /\ \A s \in Subject, c \in Claim : Saying(s, c) # {} => LastKept(s, c)
      /\ \A s \in Subject, c \in Claim : Cardinality(Alike(s, c)) <= Recordings(s, c)
  BY <1>5 DEF SteadyInv
<1>7. id \in DOMAIN records => Claiming(id)
  BY HypothesisLinks
<1>8. id \in DOMAIN records => records[id].subject = e.subject /\ records[id].claim = e.claim
  <2>1. CASE e.by = "task"
    BY <2>1 DEF HypothesisStep
  <2>2. ASSUME e.by # "task", id \in DOMAIN records PROVE records[id].subject = e.subject /\ records[id].claim = e.claim
    <3>1. records[id].ext = e.by /\ e.by \in RivalId /\ e.by # NoValue
      BY <1>4, <2>2 DEF HypothesisStep
    <3>2. PICK d \in Entries : d.by = records[id].ext /\ d.subject = records[id].subject /\ d.claim = records[id].claim
      BY <1>6, <1>7, <2>2, <3>1 DEF SaidBy
    <3> QED BY <1>5, <3>1, <3>2
  <2> QED BY <2>1, <2>2
\* What a link said of a subject and a claim it says still.
<1>9. ASSUME NEW l \in recordLinks, l[1] = "SUSPECTED_AS"
      PROVE  /\ l[2] \in Subject /\ l[3] \in DOMAIN records /\ Claiming(l[3])
             /\ records'[l[3]].subject = records[l[3]].subject /\ records'[l[3]].claim = records[l[3]].claim
             /\ l[3] # id => records'[l[3]] = records[l[3]]
  <2>1. l[2] \in Subject /\ l[3] \in DOMAIN records /\ Claiming(l[3])
    BY <1>9 DEF LinksInv
  <2>2. l[3] # id => records'[l[3]] = records[l[3]]
    BY <2>1 DEF HypothesisStep, Claiming
  <2>3. CASE l[3] = id
    <3>1. records'[id].subject = e.subject /\ records'[id].claim = e.claim
      BY DEF HypothesisStep
    <3> QED BY <1>8, <2>1, <2>3, <3>1
  <2> QED BY <2>1, <2>2, <2>3
<1>10. \A l \in recordLinks' : l[1] = "SUSPECTED_AS" => records'[l[3]].subject = l[2]
  <2>1. records'[id].subject = e.subject
    BY DEF HypothesisStep
  <2> QED BY <1>2, <1>3, <1>6, <1>9, <2>1
<1>11. ASSUME NEW i \in DOMAIN records', Claiming(i)' PROVE SaidBy(i)'
  <2>1. CASE i # id
    <3>1. i \in DOMAIN records /\ records[i] = records'[i]
      BY <1>11, <2>1 DEF HypothesisStep, Claiming
    <3> QED BY <1>1, <1>6, <1>11, <3>1 DEF SaidBy, Claiming
  <2>2. CASE i = id /\ id \in DOMAIN records
    <3>1. records'[id].ext = records[id].ext /\ records'[id].subject = records[id].subject /\ records'[id].claim = records[id].claim
      BY <1>8, <2>2 DEF HypothesisStep
    <3>2. SaidBy(id)
      BY <1>6, <1>7, <2>2
    <3> QED BY <1>1, <2>2, <3>1, <3>2 DEF SaidBy
  <2>3. CASE i = id /\ id \notin DOMAIN records
    <3>1. /\ records'[id].ext = (IF e.by = "task" THEN NoValue ELSE e.by)
          /\ records'[id].subject = e.subject /\ records'[id].claim = e.claim
      BY <2>3 DEF HypothesisStep
    <3> QED BY <1>1, <2>3, <3>1 DEF SaidBy
  <2> QED BY <2>1, <2>2, <2>3
<1>12. ASSUME NEW d \in Entries', d.by = "task" PROVE TaskKept(d)'
  <2>1. Second \in Nat /\ now \in Nat /\ now' = now
    <3>1. now \in Nat /\ now' = now
      BY DEF EvidenceType, HypothesisStep
    <3> QED BY ONLY <3>1, SecondIs
  <2>2. CASE d \in Entries
    <3>1. PICK l \in recordLinks :
            /\ l[1] = "SUSPECTED_AS" /\ l[2] = d.subject /\ l[4] = <<d.conf, "HYPOTHESIS">>
            /\ records[l[3]].claim = d.claim /\ records[l[3]].stamp \in Nat
            /\ records[l[3]].stamp >= d.time - (d.time % 2)
      BY <1>6, <1>12, <2>2 DEF TaskKept
    <3>2. records'[l[3]].claim = d.claim /\ (l[3] # id => records'[l[3]] = records[l[3]]) /\ l[3] \in DOMAIN records
      BY <1>9, <3>1
    <3>3. d.time \in Nat /\ d.time <= now
      <4>1. PICK i \in DOMAIN history : d = history[i]
        BY <2>2 DEF Entries, Range
      <4>2. history[i] \in Entry /\ history[i].time <= now
        BY DEF EvidenceType
      <4> QED BY <4>1, <4>2 DEF Entry
    <3>4. d.time - (d.time % 2) <= Second
      BY ONLY <2>1, <3>3, SecondIs
    <3>5. records'[l[3]].stamp \in Nat /\ records'[l[3]].stamp >= d.time - (d.time % 2)
      <4>1. CASE l[3] # id
        BY <3>1, <3>2, <4>1
      <4>2. CASE l[3] = id /\ e.by = "task"
        <5>1. records'[l[3]].stamp = Second
          BY <4>2 DEF HypothesisStep
        <5> QED BY <2>1, <3>4, <5>1
      <4>3. CASE l[3] = id /\ e.by # "task"
        <5>1. records'[l[3]].stamp = records[l[3]].stamp
          BY <3>2, <4>3 DEF HypothesisStep
        <5> QED BY <3>1, <5>1
      <4> QED BY <4>1, <4>2, <4>3
    <3> QED BY <1>2, <3>1, <3>2, <3>5 DEF TaskKept
  <2>3. CASE d = e
    <3>1. new[4] = <<e.conf, "HYPOTHESIS">> /\ records'[id].stamp = Second /\ e.time = now /\ records'[id].claim = e.claim
      BY <1>3, <1>12, <2>3 DEF HypothesisStep
    <3>2. Second = e.time - (e.time % 2)
      BY <3>1 DEF Second
    <3> QED BY <1>2, <1>3, <2>1, <2>3, <3>1, <3>2 DEF TaskKept
  <2> QED BY <1>1, <2>2, <2>3
<1>13. ASSUME NEW s \in Subject, NEW c \in Claim, Saying(s, c)' # {} PROVE LastKept(s, c)'
  <2>0. c # NoValue
    OBVIOUS
  <2>1. /\ Saying(s, c) = {i \in DOMAIN history : history[i].subject = s /\ history[i].claim = c}
        /\ Saying(s, c)' = {i \in DOMAIN history' : history'[i].subject = s /\ history'[i].claim = c}
    <3>1. Saying(s, c) = {i \in DOMAIN history : history[i].subject = s /\ history[i].claim = c}
      BY <2>0, SayingIs
    <3>2. \A i \in DOMAIN history' : history'[i] \in Entries'
      BY DEF Entries, Range
    <3> QED BY <2>0, <3>1, <3>2 DEF Saying, About
  <2>2. CASE s = e.subject /\ c = e.claim
    <3>1. n + 1 \in Saying(s, c)' /\ Saying(s, c)' \subseteq Nat /\ \A j \in Saying(s, c)' : j <= n + 1
      BY <1>1, <2>1, <2>2
    <3>2. LastConfidence(s, c)' = history'[n + 1].conf
      <4> DEFINE L == CHOOSE k \in Saying(s, c)' : \A j \in Saying(s, c)' : j <= k
      <4>1. L \in Saying(s, c)' /\ \A j \in Saying(s, c)' : j <= L
        BY <3>1
      <4>2. LastConfidence(s, c)' = history'[L].conf
        BY DEF LastConfidence
      <4> HIDE DEF L
      <4>3. L = n + 1
        BY <3>1, <4>1
      <4> QED BY <4>2, <4>3
    <3>3. records'[id].claim = c /\ records'[id].conf = e.conf
      BY <2>2 DEF HypothesisStep
    <3> QED BY <1>1, <1>2, <1>3, <2>2, <3>2, <3>3 DEF LastKept
  <2>3. CASE ~(s = e.subject /\ c = e.claim)
    <3>1. Saying(s, c)' = Saying(s, c)
      BY <1>1, <2>1, <2>3
    <3>2. LastConfidence(s, c)' = LastConfidence(s, c)
      BY <1>1, <1>13, <2>1, <3>1, SameLast
    <3>3. PICK l \in recordLinks : /\ l[1] = "SUSPECTED_AS" /\ l[2] = s
                                   /\ records[l[3]].claim = c /\ records[l[3]].conf = LastConfidence(s, c)
      BY <1>6, <1>13, <3>1 DEF LastKept
    <3>4. records[l[3]].subject = s /\ l[3] \in DOMAIN records
      BY <1>6, <1>9, <3>3
    <3>5. l[3] # id
      BY <1>8, <2>3, <3>3, <3>4
    <3>6. records'[l[3]] = records[l[3]]
      BY <1>9, <3>3, <3>5
    <3> QED BY <1>2, <3>2, <3>3, <3>6 DEF LastKept
  <2> QED BY <2>2, <2>3
<1>14. ASSUME NEW s \in Subject, NEW c \in Claim PROVE Cardinality(Alike(s, c)') <= Recordings(s, c)'
  <2> DEFINE A == Alike(s, c)
             B == {i \in DOMAIN history : history[i] \in About(s) /\ NormalForm[history[i].claim] = NormalForm[c]}
             B2 == {i \in DOMAIN history' : history'[i] \in About(s)' /\ NormalForm[history'[i].claim] = NormalForm[c]}
             match == s = e.subject /\ NormalForm[e.claim] = NormalForm[c]
  <2>1. IsFiniteSet(A) /\ A \subseteq recordLinks
    <3>1. A \subseteq recordLinks /\ IsFiniteSet(recordLinks)
      BY DEF Alike, getHypotheses, EvidenceType
    <3> QED BY <3>1, FS_Subset
  <2>2. IsFiniteSet(B)
    <3>1. DOMAIN history = 1..n /\ IsFiniteSet(1..n)
      BY <1>1, FS_Interval DEF EvidenceType, n
    <3> QED BY <3>1, FS_Subset
  <2>3. Recordings(s, c) = Cardinality(B) /\ Recordings(s, c)' = Cardinality(B2)
    BY DEF Recordings
  <2>4. Cardinality(A) <= Cardinality(B)
    BY <1>6, <2>3
  <2>5. /\ B = {i \in DOMAIN history : history[i].subject = s /\ history[i].claim # NoValue /\ NormalForm[history[i].claim] = NormalForm[c]}
        /\ B2 = {i \in DOMAIN history' : history'[i].subject = s /\ history'[i].claim # NoValue /\ NormalForm[history'[i].claim] = NormalForm[c]}
    BY DEF About, Entries, Range
  <2>6. Alike(s, c)' = {l \in recordLinks' : l[1] = "SUSPECTED_AS" /\ l[2] = s /\ NormalForm[records'[l[3]].claim] = NormalForm[c]}
        /\ A = {l \in recordLinks : l[1] = "SUSPECTED_AS" /\ l[2] = s /\ NormalForm[records[l[3]].claim] = NormalForm[c]}
    BY DEF Alike, getHypotheses, ClaimOf
  <2> HIDE DEF A, B, B2
  <2>7. Cardinality(A) \in Nat /\ Cardinality(B) \in Nat
    BY <2>1, <2>2, FS_CardinalityType
  <2>8. records'[id].claim = e.claim
    BY DEF HypothesisStep
  <2>9. CASE match
    <3>1. Alike(s, c)' = A \cup {new}
      <4>1. ASSUME NEW l \in Alike(s, c)' PROVE l \in A \cup {new}
        BY <1>2, <1>9, <2>6, <4>1
      <4>2. ASSUME NEW l \in A PROVE l \in Alike(s, c)'
        BY <1>2, <1>9, <2>6, <4>2
      <4>3. new \in Alike(s, c)'
        BY <1>2, <1>3, <2>6, <2>8, <2>9
      <4> QED BY <4>1, <4>2, <4>3
    <3>2. B2 = B \cup {n + 1} /\ n + 1 \notin B
      BY <1>1, <1>4, <2>5, <2>9
    <3>3. Cardinality(B2) = Cardinality(B) + 1
      BY <2>2, <3>2, FS_AddElement
    <3>4. Cardinality(A \cup {new}) \in Nat /\ Cardinality(A \cup {new}) <= Cardinality(A) + 1
      BY ONLY <2>1, OneMore
    <3> QED BY <2>3, <2>4, <2>7, <3>1, <3>3, <3>4
  <2>10. CASE ~match
    <3>1. Alike(s, c)' = A
      <4>1. ASSUME NEW l \in Alike(s, c)' PROVE l \in A
        BY <1>2, <1>3, <1>9, <2>6, <2>8, <2>10, <4>1
      <4>2. ASSUME NEW l \in A PROVE l \in Alike(s, c)'
        BY <1>2, <1>9, <2>6, <4>2
      <4> QED BY <4>1, <4>2
    <3>2. B2 = B
      BY <1>1, <2>5, <2>10
    <3> QED BY <2>3, <2>4, <3>1, <3>2
  <2> QED BY <2>9, <2>10
<1> QED BY <1>10, <1>11, <1>12, <1>13, <1>14

\* What recording evidence and superseding a record have in common: no claim is touched.
OtherStep(e, new) ==
  /\ Grown(e) /\ e.by \in {"evidence", "supersede"} /\ e.claim = NoValue /\ e.time = now /\ now' = now
  /\ records' \in Seq(Record)
  /\ \A i \in DOMAIN records :
       records[i].kind = "Hypothesis" =>
         /\ i \in DOMAIN records' /\ records'[i].kind = "Hypothesis" /\ records'[i].subject = records[i].subject
         /\ records'[i].claim = records[i].claim /\ records'[i].ext = records[i].ext
         /\ Claiming(i) => /\ records'[i].text = records[i].text /\ records'[i].conf = records[i].conf
                           /\ records'[i].stamp = records[i].stamp
  /\ \A i \in DOMAIN records' :
       records'[i].kind = "Hypothesis" =>
         \/ i \in DOMAIN records /\ records[i].kind = "Hypothesis"
         \/ records'[i].claim = NoValue /\ records'[i].ext = NoValue
  /\ recordLinks' = recordLinks \cup {new}
  /\ IF e.by = "evidence" THEN new[1] = "REFERENCES" /\ new[2] = e.subject /\ e.subject \in Subject
                          ELSE new[1] = "SUPERSEDED_BY"
LEMMA OtherLinks ==
  ASSUME EvidenceType, LinksInv, NEW e, NEW new, OtherStep(e, new)
  PROVE  LinksInv'
<1> DEFINE n == Len(history)
<1>1. /\ DOMAIN history' = DOMAIN history \cup {n + 1} /\ history'[n + 1] = e /\ n + 1 \notin DOMAIN history
      /\ \A i \in DOMAIN history : history'[i] = history[i]
  BY HistoryGrows DEF OtherStep
<1> HIDE DEF n
<1>2. recordLinks' = recordLinks \cup {new} /\ new[1] # "SUSPECTED_AS" /\ e.claim = NoValue
  BY DEF OtherStep
<1>3. new[1] = "REFERENCES" <=> e.by = "evidence"
  BY DEF OtherStep
<1>4. new[1] = "REFERENCES" => new[2] = e.subject
  BY DEF OtherStep
<1>5. ASSUME NEW l \in recordLinks', l[1] = "SUSPECTED_AS"
      PROVE  l[2] \in Subject /\ l[3] \in DOMAIN records' /\ Claiming(l[3])'
  <2>1. l[2] \in Subject /\ l[3] \in DOMAIN records /\ Claiming(l[3])
    BY <1>2, <1>5 DEF LinksInv
  <2> QED BY <2>1 DEF OtherStep, Claiming
<1>6. ASSUME NEW s \in Subject
      PROVE  (\E l \in recordLinks' : l[1] = "SUSPECTED_AS" /\ l[2] = s)
               <=> \E i \in DOMAIN history' : history'[i].subject = s /\ history'[i].claim # NoValue
  <2>1. (\E l \in recordLinks : l[1] = "SUSPECTED_AS" /\ l[2] = s)
          <=> \E i \in DOMAIN history : history[i].subject = s /\ history[i].claim # NoValue
    BY DEF LinksInv
  <2>2. (\E i \in DOMAIN history' : history'[i].subject = s /\ history'[i].claim # NoValue)
          <=> (\E i \in DOMAIN history : history[i].subject = s /\ history[i].claim # NoValue)
    BY <1>1, <1>2
  <2> QED BY <1>2, <2>1, <2>2
<1>7. ASSUME NEW s \in Subject
      PROVE  (\E l \in recordLinks' : l[1] = "REFERENCES" /\ l[2] = s)
               <=> \E i \in DOMAIN history' : history'[i].subject = s /\ history'[i].by = "evidence"
  <2>1. (\E l \in recordLinks : l[1] = "REFERENCES" /\ l[2] = s)
          <=> \E i \in DOMAIN history : history[i].subject = s /\ history[i].by = "evidence"
    BY DEF LinksInv
  <2>2. (\E l \in recordLinks' : l[1] = "REFERENCES" /\ l[2] = s)
          <=> (\E l \in recordLinks : l[1] = "REFERENCES" /\ l[2] = s) \/ (e.by = "evidence" /\ s = e.subject)
    BY <1>2, <1>3, <1>4
  <2>3. (\E i \in DOMAIN history' : history'[i].subject = s /\ history'[i].by = "evidence")
          <=> (\E i \in DOMAIN history : history[i].subject = s /\ history[i].by = "evidence")
                \/ (e.by = "evidence" /\ s = e.subject)
    BY <1>1
  <2> QED BY <2>1, <2>2, <2>3
<1>8. ASSUME NEW i \in DOMAIN records', records'[i].kind = "Hypothesis"
      PROVE  /\ records'[i].claim # NoValue => records'[i].text = NoValue
             /\ records'[i].claim = NoValue => records'[i].ext = NoValue
  <2>1. CASE i \in DOMAIN records /\ records[i].kind = "Hypothesis"
    <3>1. /\ records'[i].claim = records[i].claim /\ records'[i].ext = records[i].ext
          /\ Claiming(i) => records'[i].text = records[i].text
      BY <2>1 DEF OtherStep
    <3>2. /\ records[i].claim # NoValue => records[i].text = NoValue
          /\ records[i].claim = NoValue => records[i].ext = NoValue
      BY <2>1 DEF LinksInv
    <3> QED BY <2>1, <3>1, <3>2 DEF Claiming
  <2>2. CASE records'[i].claim = NoValue /\ records'[i].ext = NoValue
    BY <2>2
  <2> QED BY <1>8, <2>1, <2>2 DEF OtherStep
<1> QED BY <1>5, <1>6, <1>7, <1>8 DEF LinksInv

LEMMA OtherSteady ==
  ASSUME EvidenceType, LinksInv, SteadyInv, NEW e, NEW new, OtherStep(e, new)
  PROVE  SteadyInv'
<1> SUFFICES ASSUME Steady'
             PROVE  /\ \A l \in recordLinks' : l[1] = "SUSPECTED_AS" => records'[l[3]].subject = l[2]
                    /\ \A i \in DOMAIN records' : Claiming(i)' => SaidBy(i)'
                    /\ \A d \in Entries' : d.by = "task" => TaskKept(d)'
                    /\ \A s \in Subject, c \in Claim : Saying(s, c)' # {} => LastKept(s, c)'
                    /\ \A s \in Subject, c \in Claim : Cardinality(Alike(s, c)') <= Recordings(s, c)'
  BY DEF SteadyInv
<1> DEFINE n == Len(history)
<1>1. /\ DOMAIN history' = DOMAIN history \cup {n + 1} /\ history'[n + 1] = e /\ n + 1 \notin DOMAIN history
      /\ \A i \in DOMAIN history : history'[i] = history[i]
      /\ Entries' = Entries \cup {e}
  BY HistoryGrows DEF OtherStep
<1> HIDE DEF n
<1>2. /\ recordLinks' = recordLinks \cup {new} /\ new[1] # "SUSPECTED_AS"
      /\ e.claim = NoValue /\ e.by # "task"
  BY DEF OtherStep
<1>3. Steady
  BY <1>1, SteadyBefore
<1>4. /\ \A l \in recordLinks : l[1] = "SUSPECTED_AS" => records[l[3]].subject = l[2]
      /\ \A i \in DOMAIN records : Claiming(i) => SaidBy(i)
      /\ \A d \in Entries : d.by = "task" => TaskKept(d)
      /\ \A s \in Subject, c \in Claim : Saying(s, c) # {} => LastKept(s, c)
      /\ \A s \in Subject, c \in Claim : Cardinality(Alike(s, c)) <= Recordings(s, c)
  BY <1>3 DEF SteadyInv
<1>5. ASSUME NEW l \in recordLinks', l[1] = "SUSPECTED_AS"
      PROVE  /\ l \in recordLinks
             /\ records'[l[3]].subject = records[l[3]].subject /\ records'[l[3]].claim = records[l[3]].claim
             /\ records'[l[3]].conf = records[l[3]].conf /\ records'[l[3]].stamp = records[l[3]].stamp
  <2>1. l \in recordLinks /\ l[3] \in DOMAIN records /\ Claiming(l[3])
    BY <1>2, <1>5 DEF LinksInv
  <2> QED BY <2>1 DEF OtherStep, Claiming
<1>6. \A l \in recordLinks' : l[1] = "SUSPECTED_AS" => records'[l[3]].subject = l[2]
  BY <1>4, <1>5
<1>7. ASSUME NEW i \in DOMAIN records', Claiming(i)' PROVE SaidBy(i)'
  <2>1. i \in DOMAIN records /\ records[i].kind = "Hypothesis"
    BY <1>7 DEF OtherStep, Claiming
  <2>2. /\ records'[i].subject = records[i].subject
        /\ records'[i].claim = records[i].claim /\ records'[i].ext = records[i].ext
    BY <2>1 DEF OtherStep
  <2>3. SaidBy(i)
    BY <1>4, <1>7, <2>1, <2>2 DEF Claiming
  <2> QED BY <1>1, <2>2, <2>3 DEF SaidBy
<1>8. ASSUME NEW d \in Entries', d.by = "task" PROVE TaskKept(d)'
  <2>1. TaskKept(d)
    BY <1>1, <1>2, <1>4, <1>8
  <2>2. PICK l \in recordLinks :
          /\ l[1] = "SUSPECTED_AS" /\ l[2] = d.subject /\ l[4] = <<d.conf, "HYPOTHESIS">>
          /\ records[l[3]].claim = d.claim /\ records[l[3]].stamp \in Nat
          /\ records[l[3]].stamp >= d.time - (d.time % 2)
    BY <2>1 DEF TaskKept
  <2>3. l \in recordLinks'
    BY <1>2
  <2>4. records'[l[3]].claim = records[l[3]].claim /\ records'[l[3]].stamp = records[l[3]].stamp
    BY <1>5, <2>2, <2>3
  <2> QED BY <2>2, <2>3, <2>4 DEF TaskKept
<1>9. ASSUME NEW s \in Subject, NEW c \in Claim
      PROVE  /\ Saying(s, c)' = Saying(s, c)
             /\ Alike(s, c)' = Alike(s, c) /\ Recordings(s, c)' = Recordings(s, c)
  <2>1. /\ \A i \in DOMAIN history' : history'[i] \in Entries'
        /\ \A i \in DOMAIN history : history[i] \in Entries
    BY DEF Entries, Range
  <2>2. \A i \in DOMAIN history' : history'[i] \in About(s)' <=> i \in DOMAIN history /\ history[i] \in About(s)
    BY <1>1, <1>2, <2>1 DEF About
  <2>3. Saying(s, c)' = Saying(s, c)
    BY <1>1, <2>2 DEF Saying
  <2>4. Recordings(s, c)' = Recordings(s, c)
    <3>1. {i \in DOMAIN history' : history'[i] \in About(s)' /\ NormalForm[history'[i].claim] = NormalForm[c]}
            = {i \in DOMAIN history : history[i] \in About(s) /\ NormalForm[history[i].claim] = NormalForm[c]}
      BY <1>1, <2>2
    <3> QED BY <3>1 DEF Recordings
  <2>5. Alike(s, c)' = Alike(s, c)
    <3>1. getHypotheses(s)' = getHypotheses(s)
      BY <1>2 DEF getHypotheses
    <3>2. \A l \in getHypotheses(s)' : records'[l[3]].claim = records[l[3]].claim
      BY <1>5 DEF getHypotheses
    <3> QED BY <3>1, <3>2 DEF Alike, ClaimOf
  <2> QED BY <2>3, <2>4, <2>5
<1>10. ASSUME NEW s \in Subject, NEW c \in Claim, Saying(s, c)' # {} PROVE LastKept(s, c)'
  <2>1. LastConfidence(s, c)' = LastConfidence(s, c) /\ Saying(s, c) # {}
    BY <1>1, <1>9, <1>10, SameLast
  <2>2. PICK l \in recordLinks : /\ l[1] = "SUSPECTED_AS" /\ l[2] = s
                                 /\ records[l[3]].claim = c /\ records[l[3]].conf = LastConfidence(s, c)
    BY <1>4, <2>1 DEF LastKept
  <2>3. l \in recordLinks'
    BY <1>2
  <2>4. records'[l[3]].claim = records[l[3]].claim /\ records'[l[3]].conf = records[l[3]].conf
    BY <1>5, <2>2, <2>3
  <2> QED BY <2>1, <2>2, <2>3, <2>4 DEF LastKept
<1>11. \A s \in Subject, c \in Claim : Cardinality(Alike(s, c)') <= Recordings(s, c)'
  BY <1>4, <1>9
<1> QED BY <1>6, <1>7, <1>8, <1>10, <1>11

LEMMA TypeKept ==
  ASSUME EvidenceType, NEW e, Grown(e), e.time = now, now' = now,
         e.by \in {"task"} \cup RivalId => e.subject \in Subject /\ e.claim \in Claim,
         e.by \in {"evidence", "supersede"} => e.claim = NoValue,
         records' \in Seq(Record), IsFiniteSet(recordLinks')
  PROVE  EvidenceType'
<1> DEFINE n == Len(history)
<1>1. /\ history' \in Seq(Entry)
      /\ DOMAIN history' = DOMAIN history \cup {n + 1} /\ history'[n + 1] = e
      /\ \A i \in DOMAIN history : history'[i] = history[i]
  BY HistoryGrows
<1> HIDE DEF n
<1>2. now \in Nat /\ now <= now
  BY DEF EvidenceType
<1>3. \A i \in DOMAIN history :
        /\ history[i].time <= now
        /\ history[i].by \in {"task"} \cup RivalId => history[i].subject \in Subject /\ history[i].claim \in Claim
        /\ history[i].by \in {"evidence", "supersede"} => history[i].claim = NoValue
  BY DEF EvidenceType
<1>4. \A i \in DOMAIN history' :
        /\ history'[i].time <= now
        /\ history'[i].by \in {"task"} \cup RivalId => history'[i].subject \in Subject /\ history'[i].claim \in Claim
        /\ history'[i].by \in {"evidence", "supersede"} => history'[i].claim = NoValue
  BY <1>1, <1>2, <1>3
<1> QED BY <1>1, <1>2, <1>4 DEF EvidenceType

\* What every recording but a replacement does to the records that are superseded: nothing.
ChainsStep(e) ==
  /\ Grown(e)
  /\ \A i \in DOMAIN records : i \in DOMAIN records' /\ records'[i].old = records[i].old
  /\ \A i \in DOMAIN records' :
       /\ i \in DOMAIN records \/ ~records'[i].old
       /\ records'[i].text # NoValue =>
            (i \in DOMAIN records /\ records'[i].text = records[i].text) \/ records'[i].text = e.text
  /\ recordLinks \subseteq recordLinks'
  /\ \A l \in recordLinks' : l[1] = "SUPERSEDED_BY" => l \in recordLinks
LEMMA ChainsKept ==
  ASSUME EvidenceType, ChainsInv, NEW e, ChainsStep(e)
  PROVE  ChainsInv'
<1> DEFINE n == Len(history)
<1>1. /\ DOMAIN history' = DOMAIN history \cup {n + 1} /\ n + 1 \notin DOMAIN history
      /\ \A i \in DOMAIN history : history'[i] = history[i]
      /\ Entries' = Entries \cup {e}
  BY HistoryGrows DEF ChainsStep
<1> HIDE DEF n
<1>2. ASSUME NEW i \in DOMAIN records', records'[i].text # NoValue PROVE \E d \in Entries' : d.text = records'[i].text
  <2>1. (i \in DOMAIN records /\ records'[i].text = records[i].text) \/ records'[i].text = e.text
    BY <1>2 DEF ChainsStep
  <2>2. i \in DOMAIN records /\ records[i].text # NoValue => \E d \in Entries : d.text = records[i].text
    BY DEF ChainsInv
  <2> QED BY <1>1, <1>2, <2>1, <2>2
<1>3. ASSUME NEW i \in DOMAIN records', ~records'[i].old, NEW l \in recordLinks', Replaces(l, i) PROVE FALSE
  <2>1. l \in recordLinks /\ l[1] = "SUPERSEDED_BY" /\ l[2] = i
    BY <1>3 DEF ChainsStep, Replaces
  <2>2. i \in DOMAIN records
    BY <2>1 DEF ChainsInv
  <2>3. ~records[i].old
    BY <1>3, <2>2 DEF ChainsStep
  <2> QED BY <1>3, <2>1, <2>2, <2>3 DEF ChainsInv
<1>4. \A l \in recordLinks' : l[1] = "SUPERSEDED_BY" => l[2] \in DOMAIN records'
  BY DEF ChainsStep, ChainsInv
<1>5. ASSUME TextsOnce', NEW i \in DOMAIN records', records'[i].old
      PROVE  \E j \in DOMAIN records' : /\ i < j /\ \A l \in recordLinks' : Replaces(l, i) => l[3] = j
                                        /\ \E l \in recordLinks' : Replaces(l, i)
  <2>1. TextsOnce
    BY <1>1, <1>5 DEF TextsOnce
  <2>2. i \in DOMAIN records /\ records[i].old
    BY <1>5 DEF ChainsStep
  <2>3. PICK j \in DOMAIN records : /\ i < j /\ \A l \in recordLinks : Replaces(l, i) => l[3] = j
                                    /\ \E l \in recordLinks : Replaces(l, i)
    BY <2>1, <2>2 DEF ChainsInv
  <2>4. j \in DOMAIN records'
    BY DEF ChainsStep
  <2>5. \A l \in recordLinks' : Replaces(l, i) => l \in recordLinks
    BY DEF ChainsStep, Replaces
  <2>6. recordLinks \subseteq recordLinks'
    BY DEF ChainsStep
  <2> QED BY <2>3, <2>4, <2>5, <2>6
<1> QED BY <1>2, <1>3, <1>4, <1>5 DEF ChainsInv

\* A replacement: the record is marked, and where its text is new what replaces it is appended.
ReplaceStep(i, id, e) ==
  /\ Grown(e) /\ e.text # NoValue /\ i \in DOMAIN records /\ id \in DOMAIN records'
  /\ \A k \in DOMAIN records : k \in DOMAIN records' /\ records'[k].old = (records[k].old \/ k = i)
  /\ \A k \in DOMAIN records' :
       /\ k \in DOMAIN records \/ ~records'[k].old
       /\ records'[k].text # NoValue =>
            (k \in DOMAIN records /\ records'[k].text = records[k].text) \/ records'[k].text = e.text
  /\ ~records[i].old
  /\ id \in DOMAIN records => records[id].text = e.text
  /\ id \notin DOMAIN records => i < id
  /\ recordLinks' = recordLinks \cup {<<"SUPERSEDED_BY", i, id, <<>>>>}
LEMMA ChainsGrow ==
  ASSUME EvidenceType, ChainsInv, NEW i, NEW id, NEW e, ReplaceStep(i, id, e)
  PROVE  ChainsInv'
<1> DEFINE n == Len(history)
           new == <<"SUPERSEDED_BY", i, id, <<>>>>
<1>1. /\ DOMAIN history' = DOMAIN history \cup {n + 1} /\ n + 1 \notin DOMAIN history
      /\ \A k \in DOMAIN history : history'[k] = history[k]
      /\ history'[n + 1] = e /\ Entries' = Entries \cup {e}
  BY HistoryGrows DEF ReplaceStep
<1>2. recordLinks' = recordLinks \cup {new} /\ new[1] = "SUPERSEDED_BY" /\ new[2] = i /\ new[3] = id
  BY DEF ReplaceStep
<1> HIDE DEF n, new
<1>3. ASSUME NEW k \in DOMAIN records', records'[k].text # NoValue PROVE \E d \in Entries' : d.text = records'[k].text
  <2>1. (k \in DOMAIN records /\ records'[k].text = records[k].text) \/ records'[k].text = e.text
    BY <1>3 DEF ReplaceStep
  <2>2. k \in DOMAIN records /\ records[k].text # NoValue => \E d \in Entries : d.text = records[k].text
    BY DEF ChainsInv
  <2> QED BY <1>1, <1>3, <2>1, <2>2
<1>4. ASSUME NEW k \in DOMAIN records', ~records'[k].old, NEW l \in recordLinks', Replaces(l, k) PROVE FALSE
  <2>1. i \in DOMAIN records /\ records'[i].old
    BY DEF ReplaceStep
  <2>2. l \in recordLinks /\ l[1] = "SUPERSEDED_BY" /\ l[2] = k
    BY <1>2, <1>4, <2>1 DEF Replaces
  <2>3. k \in DOMAIN records
    BY <2>2 DEF ChainsInv
  <2>4. ~records[k].old
    BY <1>4, <2>3 DEF ReplaceStep
  <2> QED BY <1>4, <2>2, <2>3, <2>4 DEF ChainsInv
<1>5. ASSUME NEW l \in recordLinks', l[1] = "SUPERSEDED_BY" PROVE l[2] \in DOMAIN records'
  <2>1. l[2] \in DOMAIN records
    BY <1>2, <1>5 DEF ReplaceStep, ChainsInv
  <2> QED BY <2>1 DEF ReplaceStep
<1>6. ASSUME TextsOnce', NEW k \in DOMAIN records', records'[k].old
      PROVE  \E j \in DOMAIN records' : /\ k < j /\ \A l \in recordLinks' : Replaces(l, k) => l[3] = j
                                        /\ \E l \in recordLinks' : Replaces(l, k)
  <2>1. TextsOnce
    BY <1>1, <1>6 DEF TextsOnce
  <2>2. k \in DOMAIN records /\ (records[k].old \/ k = i)
    BY <1>6 DEF ReplaceStep
  <2>3. CASE k = i
    <3>1. \A l \in recordLinks : ~Replaces(l, i)
      BY DEF ReplaceStep, ChainsInv
    <3>2. id \notin DOMAIN records
      <4>1. SUFFICES ASSUME id \in DOMAIN records PROVE FALSE
        OBVIOUS
      <4>2. records[id].text = e.text /\ e.text # NoValue
        BY <4>1 DEF ReplaceStep
      <4>3. PICK d \in Entries : d.text = e.text
        BY <4>1, <4>2 DEF ChainsInv
      <4>4. PICK m \in DOMAIN history : d = history[m]
        BY DEF Entries, Range
      <4>5. m \in DOMAIN history' /\ n + 1 \in DOMAIN history' /\ m # n + 1
            /\ history'[m].text = history'[n + 1].text /\ history'[m].text # NoValue
        BY <1>1, <4>2, <4>3, <4>4
      <4> QED BY <1>6, <4>5 DEF TextsOnce
    <3>3. i < id /\ id \in DOMAIN records'
      BY <3>2 DEF ReplaceStep
    <3>4. \A l \in recordLinks' : Replaces(l, i) => l = new
      BY <1>2, <3>1
    <3>5. new \in recordLinks' /\ Replaces(new, i)
      BY <1>2 DEF Replaces
    <3> QED BY <1>2, <2>3, <3>3, <3>4, <3>5
  <2>4. CASE k # i
    <3>1. PICK j \in DOMAIN records : /\ k < j /\ \A l \in recordLinks : Replaces(l, k) => l[3] = j
                                      /\ \E l \in recordLinks : Replaces(l, k)
      BY <2>1, <2>2, <2>4 DEF ChainsInv
    <3>2. j \in DOMAIN records'
      BY DEF ReplaceStep
    <3>3. \A l \in recordLinks' : Replaces(l, k) => l \in recordLinks
      BY <1>2, <2>4 DEF Replaces
    <3> QED BY <1>2, <3>1, <3>2, <3>3
  <2> QED BY <2>2, <2>3, <2>4
<1> QED BY <1>3, <1>4, <1>5, <1>6 DEF ChainsInv

\* The four ways to record something.
Kept == EvidenceType' /\ LinksInv' /\ SteadyInv' /\ ChainsInv' /\ report' = NoValue
RecordsInv == EvidenceType /\ LinksInv /\ SteadyInv /\ ChainsInv

LEMMA HypothesisKept ==
  ASSUME RecordsInv, NEW id, NEW e, NEW label, HypothesisStep(id, e, label), ChainsStep(e)
  PROVE  EvidenceType' /\ LinksInv' /\ SteadyInv' /\ ChainsInv'
<1> USE DEF RecordsInv
<1>1. e.by # "evidence" /\ e.by # "supersede"
  BY DEF HypothesisStep
<1>2. EvidenceType'
  BY <1>1, TypeKept DEF HypothesisStep
<1> QED BY <1>2, HypothesisLinks, HypothesisSteady, ChainsKept

LEMMA OtherKept ==
  ASSUME RecordsInv, NEW e, NEW new, OtherStep(e, new)
  PROVE  EvidenceType' /\ LinksInv' /\ SteadyInv'
<1> USE DEF RecordsInv
<1>1. e.by # "task" /\ e.by \notin RivalId
  BY DEF OtherStep
<1>2. IsFiniteSet(recordLinks')
  <2>1. IsFiniteSet(recordLinks) /\ recordLinks' = recordLinks \cup {new}
    BY DEF OtherStep, EvidenceType
  <2> QED BY ONLY <2>1, FS_AddElement
<1>3. EvidenceType'
  BY <1>1, <1>2, TypeKept DEF OtherStep
<1> QED BY <1>3, OtherLinks, OtherSteady

LEMMA ClaimKept ==
  ASSUME RecordsInv, NEW s \in Subject, NEW c \in Claim, NEW conf \in Nat, RecordClaim(s, c, conf)
  PROVE  Kept
<1> DEFINE e == [by |-> "task", subject |-> s, claim |-> c, conf |-> conf, text |-> NoValue, time |-> now]
<1>1. PICK u \in Upserts(records, "Hypothesis", [subject |-> s, claim |-> c],
                         [conf |-> conf, method |-> "manual", stamp |-> Second]) :
        /\ records' = u.records
        /\ recordLinks' = recordLinks \cup {<<"SUSPECTED_AS", s, u.id, <<conf, "HYPOTHESIS">>>>}
        /\ Recorded("task", s, c, conf, NoValue)
  BY DEF RecordClaim
<1>2. records \in Seq(Record) /\ now \in Nat /\ IsFiniteSet(recordLinks)
  BY DEF RecordsInv, EvidenceType
<1>3. Second \in Nat
  BY <1>2, SecondIs
<1>4. LET q == u.records[u.id]  r == records[u.id]
      IN  /\ Upserted(records, u.records, u.id)
          /\ q.kind = "Hypothesis" /\ q.subject = s /\ q.claim = c /\ q.conf = conf /\ q.stamp = Second
          /\ u.id \in DOMAIN records => /\ r.kind = "Hypothesis" /\ r.subject = s /\ r.claim = c
                                        /\ q.ext = r.ext /\ q.text = r.text /\ q.old = r.old
          /\ u.id \notin DOMAIN records => q.ext = NoValue /\ q.text = NoValue /\ ~q.old
  BY <1>2, <1>3, ClaimUpsert
<1>5. /\ Grown(e) /\ now' = now /\ report' = NoValue
      /\ e.by = "task" /\ e.subject = s /\ e.claim = c /\ e.conf = conf /\ e.text = NoValue /\ e.time = now
  <2>1. e \in Entry
    BY <1>2 DEF Entry, Texts
  <2> QED BY <1>1, <2>1 DEF Grown, Recorded
<1>6. IsFiniteSet(recordLinks')
  BY ONLY <1>1, <1>2, FS_AddElement
<1> DEFINE id == u.id
<1>7. id = u.id
  OBVIOUS
<1> HIDE DEF e, id
<1>8. HypothesisStep(id, e, "HYPOTHESIS")
  BY <1>1, <1>4, <1>5, <1>6, <1>7 DEF HypothesisStep, Upserted
<1>9. ChainsStep(e)
  <2>1. \A l \in recordLinks' : l[1] = "SUPERSEDED_BY" => l \in recordLinks
    BY <1>1
  <2> QED BY <1>1, <1>4, <1>5, <2>1 DEF ChainsStep, Upserted
<1> QED BY <1>5, <1>8, <1>9, HypothesisKept DEF Kept

LEMMA RivalKept ==
  ASSUME RecordsInv, NEW h \in RivalId, NEW s \in Subject, NEW c \in Claim, NEW conf \in Nat,
         NEW finding \in Findings, RecordRival(h, s, c, conf, finding)
  PROVE  Kept
<1> DEFINE e == [by |-> h, subject |-> s, claim |-> c, conf |-> conf, text |-> finding, time |-> now]
<1>1. PICK u \in Upserts(records, "Hypothesis", [ext |-> h], [subject |-> s, claim |-> c, conf |-> conf]) :
        /\ LET suspected == <<"SUSPECTED_AS", s, u.id, <<conf, "SUSPECTED">>>>
           IN  IF finding = NoValue
               THEN records' = u.records /\ recordLinks' = recordLinks \cup {suspected}
               ELSE \E found \in Upserts(u.records, "Evidence", [ext |-> finding], [text |-> finding, conf |-> conf]) :
                      /\ records' = found.records
                      /\ recordLinks' = recordLinks \cup {suspected, <<"SUPPORTS", u.id, found.id, <<>>>>}
        /\ Recorded(h, s, c, conf, finding)
  BY DEF RecordRival
<1> DEFINE id == u.id
           new == <<"SUSPECTED_AS", s, id, <<conf, "SUSPECTED">>>>
<1>2. records \in Seq(Record) /\ now \in Nat /\ IsFiniteSet(recordLinks)
  BY DEF RecordsInv, EvidenceType
<1>3. LET q == u.records[id]  r == records[id]
      IN  /\ Upserted(records, u.records, id)
          /\ q.kind = "Hypothesis" /\ q.subject = s /\ q.claim = c /\ q.conf = conf /\ q.ext = h
          /\ id \in DOMAIN records => /\ r.kind = "Hypothesis" /\ r.ext = h
                                      /\ q.stamp = r.stamp /\ q.text = r.text /\ q.old = r.old
          /\ id \notin DOMAIN records => q.text = NoValue /\ ~q.old
  BY <1>2, RivalUpsert
<1>4. /\ Grown(e) /\ now' = now /\ report' = NoValue
      /\ e.by = h /\ e.subject = s /\ e.claim = c /\ e.conf = conf /\ e.text = finding /\ e.time = now
  <2>1. e \in Entry
    BY <1>2 DEF Entry, Texts
  <2> QED BY <1>1, <2>1 DEF Grown, Recorded
<1>5. h # "task" /\ h \in RivalId
  OBVIOUS
\* The finding is a record of another kind.
<1>6. /\ records' \in Seq(Record) /\ DOMAIN u.records \subseteq DOMAIN records'
      /\ records'[id] = u.records[id]
      /\ \A i \in DOMAIN u.records : /\ records'[i].old = u.records[i].old
                                     /\ u.records[i].kind = "Hypothesis" => records'[i] = u.records[i]
                                     /\ records'[i].text = u.records[i].text \/ records'[i].text = finding
      /\ \A i \in DOMAIN records' : /\ records'[i].kind = "Hypothesis" => i \in DOMAIN u.records /\ records'[i] = u.records[i]
                                    /\ i \notin DOMAIN u.records => ~records'[i].old /\ records'[i].text = finding
  <2>1. CASE finding = NoValue
    BY <1>1, <1>3, <2>1 DEF Upserted
  <2>2. CASE finding # NoValue
    <3>1. PICK found \in Upserts(u.records, "Evidence", [ext |-> finding], [text |-> finding, conf |-> conf]) :
            records' = found.records
      BY <1>1, <2>2
    <3>2. u.records \in Seq(Record) /\ id \in DOMAIN u.records /\ u.records[id].kind = "Hypothesis"
      BY <1>3 DEF Upserted
    <3>3. LET q == found.records[found.id]  r == u.records[found.id]
          IN  /\ Upserted(u.records, found.records, found.id)
              /\ q.kind = "Evidence" /\ q.text = finding
              /\ found.id \in DOMAIN u.records => r.kind = "Evidence" /\ q.old = r.old
              /\ found.id \notin DOMAIN u.records => ~q.old
      BY <3>2, FindingUpsert
    <3> QED BY <3>1, <3>2, <3>3 DEF Upserted
  <2> QED BY <2>1, <2>2
<1>7. /\ IsFiniteSet(recordLinks') /\ recordLinks \cup {new} \subseteq recordLinks'
      /\ \A l \in recordLinks' : l \in recordLinks \cup {new} \/ l[1] = "SUPPORTS"
  <2>1. IsFiniteSet(recordLinks \cup {new})
    BY <1>2, FS_AddElement
  <2>2. CASE finding = NoValue
    BY <1>1, <2>1, <2>2
  <2>3. CASE finding # NoValue
    <3>1. PICK found \in Upserts(u.records, "Evidence", [ext |-> finding], [text |-> finding, conf |-> conf]) :
            recordLinks' = recordLinks \cup {new, <<"SUPPORTS", u.id, found.id, <<>>>>}
      BY <1>1, <2>3
    <3>2. recordLinks' = (recordLinks \cup {new}) \cup {<<"SUPPORTS", u.id, found.id, <<>>>>}
      BY <3>1
    <3>3. IsFiniteSet(recordLinks')
      BY <2>1, <3>2, FS_AddElement
    <3> QED BY <3>2, <3>3
  <2> QED BY <2>2, <2>3
<1>8. new = <<"SUSPECTED_AS", e.subject, id, <<e.conf, "SUSPECTED">>>> /\ new[1] = "SUSPECTED_AS"
  BY <1>4
<1> HIDE DEF e, id, new
<1>9. HypothesisStep(id, e, "SUSPECTED")
  <2>1. /\ id \in DOMAIN records'
        /\ \A i \in DOMAIN records : i \in DOMAIN records' /\ (records[i].kind = "Hypothesis" /\ i # id => records'[i] = records[i])
        /\ \A i \in DOMAIN records' : records'[i].kind = "Hypothesis" /\ i # id => i \in DOMAIN records /\ records[i] = records'[i]
    BY <1>3, <1>6 DEF Upserted
  <2> QED BY <1>3, <1>4, <1>5, <1>6, <1>7, <1>8, <2>1 DEF HypothesisStep
<1>10. ChainsStep(e)
  <2>1. \A l \in recordLinks' : l[1] = "SUPERSEDED_BY" => l \in recordLinks
    BY <1>7, <1>8
  <2>2. \A i \in DOMAIN records : i \in DOMAIN records' /\ records'[i].old = records[i].old
    BY <1>3, <1>6 DEF Upserted
  <2>3. \A i \in DOMAIN u.records :
          /\ i \in DOMAIN records \/ ~u.records[i].old
          /\ u.records[i].text # NoValue => i \in DOMAIN records /\ u.records[i].text = records[i].text
    BY <1>3 DEF Upserted
  <2>4. \A i \in DOMAIN records' :
          /\ i \in DOMAIN records \/ ~records'[i].old
          /\ records'[i].text # NoValue =>
               (i \in DOMAIN records /\ records'[i].text = records[i].text) \/ records'[i].text = e.text
    BY <1>4, <1>6, <2>2, <2>3
  <2> QED BY <1>4, <1>7, <2>1, <2>2, <2>4 DEF ChainsStep
<1> QED BY <1>4, <1>9, <1>10, HypothesisKept DEF Kept

LEMMA EvidenceKept ==
  ASSUME RecordsInv, NEW s \in Subject, NEW r \in EvidenceInput, RecordEvidence(s, r.text, r.source, r.conf)
  PROVE  Kept
<1> DEFINE e == [by |-> "evidence", subject |-> s, claim |-> NoValue, conf |-> r.conf, text |-> r.text, time |-> now]
<1>1. PICK u \in Upserts(records, "Evidence", [subject |-> s, text |-> r.text, source |-> r.source],
                         [conf |-> r.conf, method |-> "manual", stamp |-> Second]) :
        /\ records' = u.records
        /\ recordLinks' = recordLinks \cup {<<"REFERENCES", s, u.id, <<>>>>}
        /\ Recorded("evidence", s, NoValue, r.conf, r.text)
  BY DEF RecordEvidence
<1> DEFINE id == u.id
           new == <<"REFERENCES", s, id, <<>>>>
<1>2. records \in Seq(Record) /\ now \in Nat
  BY DEF RecordsInv, EvidenceType
<1>3. Second \in Nat
  BY <1>2, SecondIs
<1>4. LET q == u.records[id]  p == records[id]
      IN  /\ Upserted(records, u.records, id)
          /\ q.kind = "Evidence" /\ q.text = r.text
          /\ id \in DOMAIN records => p.kind = "Evidence" /\ q.old = p.old
          /\ id \notin DOMAIN records => ~q.old
  BY <1>2, <1>3, EvidenceUpsert
<1>5. /\ Grown(e) /\ now' = now /\ report' = NoValue
      /\ e.by = "evidence" /\ e.subject = s /\ e.claim = NoValue /\ e.text = r.text /\ e.time = now
  <2>1. e \in Entry
    BY <1>2 DEF Entry, Texts
  <2> QED BY <1>1, <2>1 DEF Grown, Recorded
<1>6. recordLinks' = recordLinks \cup {new} /\ new[1] = "REFERENCES" /\ new[2] = s
  BY <1>1
<1> HIDE DEF e, id, new
<1>7. OtherStep(e, new)
  BY <1>1, <1>4, <1>5, <1>6 DEF OtherStep, Upserted
<1>8. ChainsStep(e)
  BY <1>1, <1>4, <1>5, <1>6 DEF ChainsStep, Upserted
<1> QED BY <1>5, <1>7, <1>8, OtherKept, ChainsKept DEF Kept, RecordsInv

LEMMA RecordSet ==
  ASSUME NEW ns \in Seq(Record), NEW i \in DOMAIN ns, NEW m \in Record
  PROVE  LET ms == [ns EXCEPT ![i] = m]
         IN  /\ ms \in Seq(Record) /\ DOMAIN ms = DOMAIN ns /\ Len(ms) = Len(ns)
             /\ ms[i] = m /\ \A k \in DOMAIN ns : k # i => ms[k] = ns[k]
<1> DEFINE ms == [ns EXCEPT ![i] = m]
<1>1. ms \in Seq(Record) /\ DOMAIN ms = DOMAIN ns /\ ms[i] = m /\ \A k \in DOMAIN ns : k # i => ms[k] = ns[k]
  OBVIOUS
<1>2. Len(ms) = Len(ns)
  <2>1. i \in 1..Len(ns)
    OBVIOUS
  <2> QED BY ONLY <2>1, ns \in Seq(Record), m \in Record, ExceptSeq
<1> QED BY <1>1, <1>2

LEMMA SupersedeKept ==
  ASSUME RecordsInv, NEW i, NEW text \in NewBody, SupersedeEvidence(i, text)
  PROVE  Kept
<1> DEFINE old == records[i]
           marked == [records EXCEPT ![i].old = TRUE]
           e == [by |-> "supersede", subject |-> old.subject, claim |-> NoValue, conf |-> old.conf, text |-> text, time |-> now]
<1>1. i \in DOMAIN records /\ ~old.old
  BY DEF SupersedeEvidence
<1>2. PICK u \in Upserts(marked, old.kind, [subject |-> old.subject, text |-> text],
                         [conf |-> old.conf, method |-> "supersede", stamp |-> Second]) :
        /\ records' = u.records
        /\ recordLinks' = recordLinks \cup {<<"SUPERSEDED_BY", i, u.id, <<>>>>}
        /\ Recorded("supersede", old.subject, NoValue, old.conf, text)
  BY DEF SupersedeEvidence
<1> DEFINE id == u.id
           new == <<"SUPERSEDED_BY", i, id, <<>>>>
<1>3. records \in Seq(Record) /\ now \in Nat /\ old \in Record
  BY <1>1 DEF RecordsInv, EvidenceType
<1>4. Second \in Nat /\ text # NoValue
  BY <1>3, SecondIs
<1>5. /\ marked \in Seq(Record) /\ DOMAIN marked = DOMAIN records /\ Len(marked) = Len(records)
      /\ marked[i].old = TRUE /\ marked[i].kind = old.kind /\ marked[i].subject = old.subject
      /\ marked[i].claim = old.claim /\ marked[i].ext = old.ext /\ marked[i].text = old.text
      /\ marked[i].conf = old.conf /\ marked[i].stamp = old.stamp
      /\ \A k \in DOMAIN records : k # i => marked[k] = records[k]
  <2> DEFINE m == [old EXCEPT !.old = TRUE]
  <2>1. m \in Record
    BY <1>3 DEF Record
  <2>2. /\ m.old = TRUE /\ m.kind = old.kind /\ m.subject = old.subject /\ m.claim = old.claim
        /\ m.ext = old.ext /\ m.text = old.text /\ m.conf = old.conf /\ m.stamp = old.stamp
    BY <1>3 DEF Record
  <2>3. marked = [records EXCEPT ![i] = m]
    OBVIOUS
  <2> HIDE DEF m
  <2>4. /\ marked \in Seq(Record) /\ DOMAIN marked = DOMAIN records /\ Len(marked) = Len(records)
        /\ marked[i] = m /\ \A k \in DOMAIN records : k # i => marked[k] = records[k]
    <3>1. i \in DOMAIN records /\ records \in Seq(Record)
      BY <1>1, <1>3
    <3> HIDE DEF marked
    <3> QED BY ONLY <3>1, <2>1, <2>3, RecordSet
  <2> QED BY <2>2, <2>4
<1> HIDE DEF marked, old
<1>6. LET q == u.records[id]  r == marked[id]
      IN  /\ Upserted(marked, u.records, id)
          /\ q.kind = old.kind /\ q.text = text
          /\ id \in DOMAIN marked => /\ r.kind = old.kind /\ r.text = text /\ q.old = r.old
                                     /\ q.subject = r.subject /\ q.claim = r.claim /\ q.ext = r.ext
          /\ id \notin DOMAIN marked => ~q.old /\ q.claim = NoValue /\ q.ext = NoValue
  BY <1>3, <1>4, <1>5, SupersedeUpsert
<1>7. /\ Grown(e) /\ now' = now /\ report' = NoValue
      /\ e.by = "supersede" /\ e.claim = NoValue /\ e.text = text /\ e.time = now
  <2>1. e \in Entry
    BY <1>3, RecordIs DEF Entry, Texts
  <2> QED BY <1>2, <2>1 DEF Grown, Recorded
<1>8. recordLinks' = recordLinks \cup {new} /\ new[1] = "SUPERSEDED_BY"
      /\ new = <<"SUPERSEDED_BY", i, id, <<>>>>
  BY <1>2
<1> HIDE DEF e, id, new
<1>9. old = records[i]
  BY DEF old
\* A claim has no text, so none is taken for the replacement.
<1>10. OtherStep(e, new)
  <2>1. ASSUME NEW k \in DOMAIN records, records[k].kind = "Hypothesis"
        PROVE  /\ k \in DOMAIN records' /\ records'[k].kind = "Hypothesis" /\ records'[k].subject = records[k].subject
               /\ records'[k].claim = records[k].claim /\ records'[k].ext = records[k].ext
               /\ Claiming(k) => /\ records'[k].text = records[k].text /\ records'[k].conf = records[k].conf
                                 /\ records'[k].stamp = records[k].stamp
    <3>1. /\ marked[k].kind = records[k].kind /\ marked[k].subject = records[k].subject
          /\ marked[k].claim = records[k].claim /\ marked[k].ext = records[k].ext
          /\ marked[k].text = records[k].text /\ marked[k].conf = records[k].conf /\ marked[k].stamp = records[k].stamp
      BY <1>5, <1>9
    <3>2. k \in DOMAIN records' /\ (k # id => records'[k] = marked[k])
      BY <1>2, <1>5, <1>6 DEF Upserted
    <3>3. CASE k # id
      BY <2>1, <3>1, <3>2, <3>3
    <3>4. CASE k = id
      <4>1. ~Claiming(k)
        <5>1. records[k].text = text
          BY <1>5, <1>6, <3>1, <3>4
        <5> QED BY <1>4, <2>1, <5>1 DEF Claiming, RecordsInv, LinksInv
      <4>2. /\ records'[k].kind = old.kind /\ marked[k].kind = old.kind
            /\ records'[k].subject = marked[k].subject /\ records'[k].claim = marked[k].claim /\ records'[k].ext = marked[k].ext
        BY <1>2, <1>5, <1>6, <3>4
      <4> QED BY <2>1, <3>1, <3>2, <4>1, <4>2
    <3> QED BY <3>3, <3>4
  <2>2. ASSUME NEW k \in DOMAIN records', records'[k].kind = "Hypothesis"
        PROVE  \/ k \in DOMAIN records /\ records[k].kind = "Hypothesis"
               \/ records'[k].claim = NoValue /\ records'[k].ext = NoValue
    <3>1. CASE k # id
      BY <1>2, <1>5, <1>6, <1>9, <2>2, <3>1 DEF Upserted
    <3>2. CASE k = id /\ id \in DOMAIN records
      <4>1. records[k].kind = marked[k].kind
        BY <1>5, <1>9, <3>2
      <4> QED BY <1>2, <1>5, <1>6, <2>2, <3>2, <4>1
    <3>3. CASE k = id /\ id \notin DOMAIN records
      BY <1>2, <1>5, <1>6, <3>3
    <3> QED BY <3>1, <3>2, <3>3
  <2>3. records' \in Seq(Record)
    BY <1>2, <1>6 DEF Upserted
  <2> QED BY <1>7, <1>8, <2>1, <2>2, <2>3 DEF OtherStep
<1>11. ReplaceStep(i, id, e)
  <2>1. id \in DOMAIN records' /\ DOMAIN records \subseteq DOMAIN records'
    BY <1>2, <1>5, <1>6 DEF Upserted
  <2>2. ASSUME NEW k \in DOMAIN records PROVE records'[k].old = (records[k].old \/ k = i)
    <3>1. marked[k].old = (records[k].old \/ k = i)
      <4>1. records[k].old \in BOOLEAN
        <5>1. records[k] \in Record
          BY <1>3
        <5> QED BY <5>1, RecordIs
      <4> QED BY <1>5, <4>1
    <3>2. records'[k].old = marked[k].old
      BY <1>2, <1>5, <1>6 DEF Upserted
    <3> QED BY <3>1, <3>2
  <2>3. ASSUME NEW k \in DOMAIN records'
        PROVE  /\ k \in DOMAIN records \/ ~records'[k].old
               /\ records'[k].text # NoValue =>
                    (k \in DOMAIN records /\ records'[k].text = records[k].text) \/ records'[k].text = e.text
    <3>1. CASE k # id
      <4>1. k \in DOMAIN records /\ records'[k] = marked[k]
        BY <1>2, <1>5, <1>6, <3>1 DEF Upserted
      <4>2. marked[k].text = records[k].text
        BY <1>5, <1>9, <4>1
      <4> QED BY <4>1, <4>2
    <3>2. CASE k = id
      BY <1>2, <1>5, <1>6, <1>7, <3>2
    <3> QED BY <3>1, <3>2
  <2>4. id \in DOMAIN records => records[id].text = e.text
    <3>1. id \in DOMAIN records => marked[id].text = records[id].text
      BY <1>5, <1>9
    <3> QED BY <1>5, <1>6, <1>7, <3>1
  <2>5. id \notin DOMAIN records => i < id
    <3>1. id \notin DOMAIN records => id = Len(records) + 1
      BY <1>5, <1>6 DEF Upserted
    <3>2. i \in 1..Len(records) /\ Len(records) \in Nat
      BY <1>1, <1>3
    <3> QED BY <3>1, <3>2
  <2> QED BY <1>1, <1>4, <1>7, <1>8, <1>9, <2>1, <2>2, <2>3, <2>4, <2>5 DEF ReplaceStep
<1> QED BY <1>7, <1>10, <1>11, OtherKept, ChainsGrow DEF Kept, RecordsInv

\* Everything recorded of a subject keeps its link; while ids are steady every claim a task
\* recorded is at its record, at least as new; and a superseded record has one later replacement.
THEOREM EvidenceInvariance == EvidenceSpec => []EvidenceInv
<1>1. EvidenceInit => EvidenceInv
  <2> SUFFICES ASSUME EvidenceInit PROVE EvidenceInv
    OBVIOUS
  <2>1. records = <<>> /\ history = <<>> /\ recordLinks = {} /\ now = 0 /\ report = NoValue
        /\ DOMAIN records = {} /\ DOMAIN history = {}
    BY DEF EvidenceInit
  <2>2. EvidenceType
    <3>1. IsFiniteSet({})
      BY FS_EmptySet
    <3>2. records \in Seq(Record) /\ history \in Seq(Entry) /\ now \in Nat
      BY <2>1
    <3> QED BY <2>1, <3>1, <3>2 DEF EvidenceType
  <2>3. LinksInv
    BY <2>1 DEF LinksInv
  <2>4. SteadyInv
    <3>1. Entries = {} /\ \A s, c : Saying(s, c) = {}
      BY <2>1 DEF Entries, Range, Saying
    <3>2. \A s, c : Alike(s, c) = {} /\ Recordings(s, c) = Cardinality({})
      BY <2>1 DEF Alike, getHypotheses, Recordings
    <3>3. Cardinality({}) = 0
      BY FS_EmptySet
    <3>4. \A s, c : Cardinality(Alike(s, c)) <= Recordings(s, c)
      BY ONLY <3>2, <3>3
    <3> QED BY <2>1, <3>1, <3>4 DEF SteadyInv
  <2>5. ChainsInv
    BY <2>1 DEF ChainsInv
  <2> QED BY <2>1, <2>2, <2>3, <2>4, <2>5 DEF EvidenceInv, ReportInv
<1>2. EvidenceInv /\ [EvidenceNext]_evidenceVars => EvidenceInv'
  <2> SUFFICES ASSUME EvidenceInv, [EvidenceNext]_evidenceVars PROVE EvidenceInv'
    OBVIOUS
  <2>1. RecordsInv
    BY DEF EvidenceInv, RecordsInv
  <2>2. ASSUME Kept PROVE EvidenceInv'
    BY <2>2 DEF Kept, EvidenceInv, ReportInv
  <2>3. ASSUME NEW s \in Subject, NEW r \in ClaimInput, RecordClaim(s, r.claim, r.conf) PROVE EvidenceInv'
    BY <2>1, <2>2, <2>3, ClaimKept
  <2>4. ASSUME NEW s \in Subject, NEW r \in RivalInput, RecordRival(r.id, s, r.claim, r.conf, r.finding) PROVE EvidenceInv'
    <3>1. r.finding \in Findings /\ r.id \in RivalId /\ r.claim \in Claim /\ r.conf \in Nat
      BY DEF Findings
    <3> QED BY <2>1, <2>2, <2>4, <3>1, RivalKept
  <2>5. ASSUME NEW s \in Subject, NEW r \in EvidenceInput, RecordEvidence(s, r.text, r.source, r.conf) PROVE EvidenceInv'
    BY <2>1, <2>2, <2>5, EvidenceKept
  <2>6. ASSUME NEW i \in 1..MaxNodes, NEW f \in NewBody, SupersedeEvidence(i, f) PROVE EvidenceInv'
    BY <2>1, <2>2, <2>6, SupersedeKept
  <2>7. ASSUME UNCHANGED <<records, recordLinks, history>>, now' \in Nat, now <= now'
        PROVE  EvidenceType' /\ LinksInv' /\ SteadyInv' /\ ChainsInv'
    <3>1. EvidenceType'
      <4>1. \A i \in DOMAIN history : history[i].time \in Nat /\ history[i].time <= now
        <5>1. \A i \in DOMAIN history : history[i] \in Entry /\ history[i].time <= now
          BY <2>1 DEF RecordsInv, EvidenceType
        <5> QED BY <5>1 DEF Entry
      <4>2. now \in Nat
        BY <2>1 DEF RecordsInv, EvidenceType
      <4>3. \A i \in DOMAIN history : history[i].time <= now'
        BY <2>7, <4>1, <4>2
      <4> QED BY <2>1, <2>7, <4>3 DEF RecordsInv, EvidenceType
    <3>2. LinksInv'
      BY <2>1, <2>7 DEF RecordsInv, LinksInv, Claiming
    <3>3. SteadyInv'
      <4>1. \A i : Claiming(i)' = Claiming(i) /\ SaidBy(i)' = SaidBy(i)
        BY <2>7 DEF Claiming, SaidBy, Entries, Range
      <4>2. \A e : TaskKept(e)' = TaskKept(e)
        BY <2>7 DEF TaskKept
      <4>3. \A s, c : LastKept(s, c)' = LastKept(s, c) /\ Saying(s, c)' = Saying(s, c)
        BY <2>7 DEF LastKept, LastConfidence, Saying, About, Entries, Range
      <4>4. \A s, c : Alike(s, c)' = Alike(s, c) /\ Recordings(s, c)' = Recordings(s, c)
        BY <2>7 DEF Alike, getHypotheses, ClaimOf, Recordings, About, Entries, Range
      <4>5. Steady' = Steady /\ Entries' = Entries
        BY <2>7 DEF Steady, Entries, Range
      <4> QED BY <2>1, <2>7, <4>1, <4>2, <4>3, <4>4, <4>5 DEF RecordsInv, SteadyInv
    <3>4. ChainsInv'
      BY <2>1, <2>7 DEF RecordsInv, ChainsInv, Entries, Range, TextsOnce, Replaces
    <3> QED BY <3>1, <3>2, <3>3, <3>4
  <2>8. now \in Nat
    BY <2>1 DEF RecordsInv, EvidenceType
  <2>9. ASSUME NEW s \in Subject, CheckInterception(s) PROVE EvidenceInv'
    <3>1. UNCHANGED <<records, recordLinks, now, history>>
      BY <2>9 DEF CheckInterception
    <3>2. EvidenceType' /\ LinksInv' /\ SteadyInv' /\ ChainsInv'
      BY <2>7, <2>8, <3>1
    <3>3. /\ detectLoopingClaims(s)' = detectLoopingClaims(s) /\ detectContradictions(s)' = detectContradictions(s)
          /\ detectHighConfidenceUnverified(s)' = detectHighConfidenceUnverified(s)
          /\ detectMissingEvidence(s)' = detectMissingEvidence(s) /\ detectStaleClaims(s)' = detectStaleClaims(s)
      BY <3>1 DEF detectLoopingClaims, detectContradictions, detectHighConfidenceUnverified, detectMissingEvidence,
                  detectStaleClaims, RecentClaims, getHypotheses, getEvidence, ClaimOf
    <3>4. report' = [subject |-> s, looping |-> detectLoopingClaims(s), contradictions |-> detectContradictions(s),
                     unverified |-> detectHighConfidenceUnverified(s),
                     unsupported |-> detectMissingEvidence(s), hurried |-> detectStaleClaims(s)]
      BY <2>9 DEF CheckInterception
    <3>5. ReportInv'
      BY <3>3, <3>4 DEF ReportInv
    <3> QED BY <3>2, <3>5 DEF EvidenceInv
  <2>10. CASE Tick
    <3>1. UNCHANGED <<records, recordLinks, history>> /\ now' \in Nat /\ now <= now' /\ report' = NoValue
      BY <2>8, <2>10 DEF Tick
    <3> QED BY <2>7, <3>1 DEF EvidenceInv, ReportInv
  <2>11. CASE UNCHANGED evidenceVars
    <3>1. UNCHANGED <<records, recordLinks, now, history>> /\ report' = report
      BY <2>11 DEF evidenceVars
    <3>2. EvidenceType' /\ LinksInv' /\ SteadyInv' /\ ChainsInv'
      BY <2>7, <2>8, <3>1
    <3>3. ReportInv'
      <4>1. \A s : /\ detectLoopingClaims(s)' = detectLoopingClaims(s) /\ detectContradictions(s)' = detectContradictions(s)
                   /\ detectHighConfidenceUnverified(s)' = detectHighConfidenceUnverified(s)
                   /\ detectMissingEvidence(s)' = detectMissingEvidence(s) /\ detectStaleClaims(s)' = detectStaleClaims(s)
        BY <3>1 DEF detectLoopingClaims, detectContradictions, detectHighConfidenceUnverified, detectMissingEvidence,
                    detectStaleClaims, RecentClaims, getHypotheses, getEvidence, ClaimOf
      <4> QED BY <3>1, <4>1 DEF EvidenceInv, ReportInv
    <3> QED BY <3>2, <3>3 DEF EvidenceInv
  <2> QED BY <2>3, <2>4, <2>5, <2>6, <2>9, <2>10, <2>11 DEF EvidenceNext
<1> QED BY <1>1, <1>2, PTL DEF EvidenceSpec

\* No more things than there are others to tell them apart by.
LEMMA ToldApart ==
  ASSUME NEW S, IsFiniteSet(S), NEW T, NEW R,
         \A t \in T : \E s \in S : <<s, t>> \in R,
         \A s \in S, t, u \in T : <<s, t>> \in R /\ <<s, u>> \in R => t = u
  PROVE  IsFiniteSet(T) /\ Cardinality(T) <= Cardinality(S)
<1> DEFINE f == [t \in T |-> CHOOSE s \in S : <<s, t>> \in R]
<1>1. \A t \in T : f[t] \in S /\ <<f[t], t>> \in R
  OBVIOUS
<1>2. f \in [T -> S]
  OBVIOUS
<1> HIDE DEF f
<1>3. f \in Injection(T, S)
  BY <1>1, <1>2 DEF Injection, IsInjective
<1> QED BY ONLY <1>3, IsFiniteSet(S), FS_Injection

LEMMA ReportIsSound == EvidenceInv => ReportSound
<1> SUFFICES ASSUME EvidenceInv, report # NoValue, Steady
             PROVE
    LET s == report.subject
        saying(c) == {e \in ByTask(s) : NormalForm[e.claim] = NormalForm[c]}
    IN  /\ report.unsupported <=> About(s) # {} /\ \A e \in Entries : ~(e.by = "evidence" /\ e.subject = s)
        /\ \A c \in Claim : Cardinality({<<e.claim, e.conf>> : e \in saying(c)}) > maxSame => report.looping
        /\ report.looping => \E c \in Claim : Recordings(s, c) > maxSame
        /\ (\E d, e \in ByTask(s) : claimsContradict(d.claim, e.claim) /\ LastConfidence(s, d.claim) > 7)
             => report.contradictions
        /\ Cardinality({e.claim : e \in {e \in ByTask(s) : e.time + 2 * (window - 1) >= now}}) > maxRecent
             => report.hurried
  BY DEF ReportSound
<1>1. PICK s \in Subject :
        /\ report.subject = s
        /\ report.looping = detectLoopingClaims(s) /\ report.contradictions = detectContradictions(s)
        /\ report.unsupported = detectMissingEvidence(s) /\ report.hurried = detectStaleClaims(s)
  BY DEF EvidenceInv, ReportInv
<1> DEFINE saying(c) == {e \in ByTask(s) : NormalForm[e.claim] = NormalForm[c]}
<1>2. /\ \A l \in recordLinks : l[1] = "SUSPECTED_AS" => records[l[3]].subject = l[2]
      /\ \A e \in Entries : e.by = "task" => TaskKept(e)
      /\ \A c \in Claim : Saying(s, c) # {} => LastKept(s, c)
      /\ \A c \in Claim : Cardinality(Alike(s, c)) <= Recordings(s, c)
  BY DEF EvidenceInv, SteadyInv
<1>3. /\ Entries = {history[i] : i \in DOMAIN history} /\ DOMAIN history = 1..Len(history) /\ Len(history) \in Nat
      /\ IsFiniteSet(recordLinks) /\ now \in Nat
  BY DEF Entries, Range, EvidenceInv, EvidenceType
<1>4. ASSUME NEW e \in Entries
      PROVE  /\ e.time \in Nat /\ e.time <= now /\ e.conf \in Nat
             /\ e.by = "task" => e.claim \in Claim /\ e.claim # NoValue
  <2>1. PICK i \in DOMAIN history : e = history[i]
    BY <1>3
  <2>2. /\ history[i] \in Entry /\ history[i].time <= now
        /\ history[i].by = "task" => history[i].claim \in Claim
    BY DEF EvidenceInv, EvidenceType
  <2> QED BY <2>1, <2>2 DEF Entry
<1>5. \A e \in ByTask(s) : e \in Entries /\ e.by = "task" /\ e.subject = s
  BY DEF ByTask, About
<1>6. report.unsupported <=> About(s) # {} /\ \A e \in Entries : ~(e.by = "evidence" /\ e.subject = s)
  <2>1. getHypotheses(s) # {} <=> \E i \in DOMAIN history : history[i].subject = s /\ history[i].claim # NoValue
    BY DEF getHypotheses, EvidenceInv, LinksInv
  <2>2. getEvidence(s) # {} <=> \E i \in DOMAIN history : history[i].subject = s /\ history[i].by = "evidence"
    <3>1. getEvidence(s) # {} <=> \E l \in recordLinks : l[1] = "REFERENCES" /\ l[2] = s
      BY DEF getEvidence
    <3> QED BY <3>1 DEF EvidenceInv, LinksInv
  <2>3. About(s) # {} <=> \E i \in DOMAIN history : history[i].subject = s /\ history[i].claim # NoValue
    BY <1>3 DEF About
  <2>4. (\E e \in Entries : e.by = "evidence" /\ e.subject = s)
          <=> \E i \in DOMAIN history : history[i].subject = s /\ history[i].by = "evidence"
    BY <1>3
  <2> QED BY <1>1, <2>1, <2>2, <2>3, <2>4 DEF detectMissingEvidence
<1>7. ASSUME NEW c \in Claim
      PROVE  /\ IsFiniteSet(Alike(s, c)) /\ Cardinality(Alike(s, c)) \in Nat
             /\ Recordings(s, c) \in Nat
  <2>1. Alike(s, c) \subseteq recordLinks
    BY DEF Alike, getHypotheses
  <2>2. IsFiniteSet(Alike(s, c))
    BY ONLY <1>3, <2>1, FS_Subset
  <2>3. Cardinality(Alike(s, c)) \in Nat
    BY ONLY <2>2, FS_CardinalityType
  <2> DEFINE B == {i \in DOMAIN history : history[i] \in About(s) /\ NormalForm[history[i].claim] = NormalForm[c]}
  <2>4. B \subseteq 1..Len(history) /\ Recordings(s, c) = Cardinality(B)
    BY <1>3 DEF Recordings
  <2> HIDE DEF B
  <2>5. IsFiniteSet(1..Len(history))
    <3>1. 1 \in Int /\ Len(history) \in Int
      BY <1>3
    <3> QED BY ONLY <3>1, FS_Interval
  <2>6. Cardinality(B) \in Nat
    BY ONLY <2>4, <2>5, FS_Subset, FS_CardinalityType
  <2> QED BY <2>2, <2>3, <2>4, <2>6
<1>8. detectLoopingClaims(s) <=> \E c \in Claim : Cardinality(Alike(s, c)) > maxSame
  BY DEF detectLoopingClaims, Alike
\* Each claim and confidence has a link of its own.
<1>9. ASSUME NEW c \in Claim, Cardinality({<<e.claim, e.conf>> : e \in saying(c)}) > maxSame
      PROVE  report.looping
  <2> DEFINE T == {<<e.claim, e.conf>> : e \in saying(c)}
             S == Alike(s, c)
             R == {p \in S \X T : records[p[1][3]].claim = p[2][1] /\ p[1][4] = <<p[2][2], "HYPOTHESIS">>}
  <2>1. ASSUME NEW t \in T PROVE \E l \in S : <<l, t>> \in R
    <3>1. PICK e \in saying(c) : t = <<e.claim, e.conf>>
      OBVIOUS
    <3>2. e \in Entries /\ e.by = "task" /\ e.subject = s /\ NormalForm[e.claim] = NormalForm[c]
      BY <1>5
    <3>3. PICK l \in recordLinks :
            /\ l[1] = "SUSPECTED_AS" /\ l[2] = e.subject /\ l[4] = <<e.conf, "HYPOTHESIS">>
            /\ records[l[3]].claim = e.claim
      BY <1>2, <3>2 DEF TaskKept
    <3>4. l \in S
      BY <3>2, <3>3 DEF Alike, getHypotheses, ClaimOf
    <3>5. t[1] = e.claim /\ t[2] = e.conf
      BY <3>1
    <3> HIDE DEF S, T
    <3> QED BY <3>3, <3>4, <3>5
  <2>2. ASSUME NEW l \in S, NEW t \in T, NEW u \in T, <<l, t>> \in R, <<l, u>> \in R PROVE t = u
    <3>1. t = <<t[1], t[2]>> /\ u = <<u[1], u[2]>>
      OBVIOUS
    <3> HIDE DEF S, T
    <3>2. records[l[3]].claim = t[1] /\ l[4] = <<t[2], "HYPOTHESIS">>
          /\ records[l[3]].claim = u[1] /\ l[4] = <<u[2], "HYPOTHESIS">>
      BY <2>2
    <3>3. t[1] = u[1] /\ t[2] = u[2]
      BY ONLY <3>2
    <3> QED BY ONLY <3>1, <3>3
  <2> HIDE DEF R
  <2>3. IsFiniteSet(S)
    BY <1>7
  <2>4. Cardinality(T) > maxSame
    BY <1>9
  <2> HIDE DEF S, T
  <2>5. IsFiniteSet(T) /\ Cardinality(T) <= Cardinality(S)
    BY ONLY <2>1, <2>2, <2>3, ToldApart
  <2>6. Cardinality(S) \in Nat /\ Cardinality(T) \in Nat /\ maxSame \in Nat
    BY <2>3, <2>5, FS_CardinalityType
  <2>7. Cardinality(S) > maxSame
    BY ONLY <2>4, <2>5, <2>6
  <2> QED BY <1>1, <1>8, <2>7 DEF S
<1>10. ASSUME report.looping PROVE \E c \in Claim : Recordings(s, c) > maxSame
  <2>1. PICK c \in Claim : Cardinality(Alike(s, c)) > maxSame
    BY <1>1, <1>8, <1>10
  <2>2. Cardinality(Alike(s, c)) <= Recordings(s, c) /\ maxSame \in Nat
    BY <1>2
  <2>3. Cardinality(Alike(s, c)) \in Nat /\ Recordings(s, c) \in Nat
    BY <1>7
  <2>4. Recordings(s, c) > maxSame
    BY ONLY <2>1, <2>2, <2>3
  <2> QED BY <2>4
<1>11. ASSUME NEW d \in ByTask(s), NEW e \in ByTask(s), claimsContradict(d.claim, e.claim), LastConfidence(s, d.claim) > 7
       PROVE  report.contradictions
  <2>1. ASSUME NEW a \in ByTask(s)
        PROVE  \E l \in getHypotheses(s) : ClaimOf(l).claim = a.claim /\ ClaimOf(l).conf = LastConfidence(s, a.claim)
    <3>1. a \in Entries /\ a.by = "task" /\ a.subject = s /\ a.claim \in Claim /\ a \in About(s)
      BY <1>4, <1>5 DEF ByTask
    <3>2. PICK i \in DOMAIN history : a = history[i]
      BY <1>3, <3>1
    <3>3. i \in Saying(s, a.claim)
      BY <3>1, <3>2 DEF Saying
    <3>4. PICK l \in recordLinks : /\ l[1] = "SUSPECTED_AS" /\ l[2] = s
                                   /\ records[l[3]].claim = a.claim /\ records[l[3]].conf = LastConfidence(s, a.claim)
      BY <1>2, <3>1, <3>3 DEF LastKept
    <3>5. l \in getHypotheses(s)
      BY <3>4 DEF getHypotheses
    <3> QED BY <3>4, <3>5 DEF ClaimOf
  <2>2. PICK l \in getHypotheses(s) : ClaimOf(l).claim = d.claim /\ ClaimOf(l).conf = LastConfidence(s, d.claim)
    BY <2>1
  <2>3. PICK m \in getHypotheses(s) : ClaimOf(m).claim = e.claim
    BY <2>1
  <2>4. claimsContradict(ClaimOf(l).claim, ClaimOf(m).claim) /\ ClaimOf(l).conf > 7
    BY <1>11, <2>2, <2>3
  <2> QED BY <1>1, <2>4 DEF detectContradictions
\* Each recent claim has a link of its own to a record at least as new.
<1>12. ASSUME Cardinality({e.claim : e \in {e \in ByTask(s) : e.time + 2 * (window - 1) >= now}}) > maxRecent
       PROVE  report.hurried
  <2> DEFINE T == {e.claim : e \in {e \in ByTask(s) : e.time + 2 * (window - 1) >= now}}
             S == RecentClaims(s, 2 * window)
             R == {p \in S \X T : records[p[1][3]].claim = p[2]}
  <2>1. ASSUME NEW t \in T PROVE \E l \in S : <<l, t>> \in R
    <3>1. PICK e \in ByTask(s) : t = e.claim /\ e.time + 2 * (window - 1) >= now
      OBVIOUS
    <3>2. e \in Entries /\ e.by = "task" /\ e.subject = s /\ e.time \in Nat
      BY <1>4, <1>5
    <3>3. PICK l \in recordLinks :
            /\ l[1] = "SUSPECTED_AS" /\ l[2] = e.subject
            /\ records[l[3]].claim = e.claim /\ records[l[3]].stamp \in Nat
            /\ records[l[3]].stamp >= e.time - (e.time % 2)
      BY <1>2, <3>2 DEF TaskKept
    <3>4. window \in Nat
      OBVIOUS
    <3>5. records[l[3]].stamp + 2 * window > now
      <4> DEFINE at == records[l[3]].stamp
      <4>1. at \in Nat /\ at >= e.time - (e.time % 2)
        BY <3>3
      <4> HIDE DEF at
      <4>2. at + 2 * window > now
        BY ONLY <1>3, <3>1, <3>2, <3>4, <4>1
      <4> QED BY <4>2 DEF at
    <3>6. l \in S
      <4>1. records[l[3]].stamp # NoValue
        BY <3>3
      <4> QED BY <3>2, <3>3, <3>5, <4>1 DEF RecentClaims, getHypotheses, ClaimOf
    <3> HIDE DEF S, T
    <3> QED BY <3>1, <3>3, <3>6
  <2>2. ASSUME NEW l \in S, NEW t \in T, NEW u \in T, <<l, t>> \in R, <<l, u>> \in R PROVE t = u
    <3> HIDE DEF S, T
    <3> QED BY <2>2
  <2> HIDE DEF R
  <2>3. IsFiniteSet(S)
    <3>1. S \subseteq recordLinks
      BY DEF RecentClaims, getHypotheses
    <3> QED BY ONLY <1>3, <3>1, FS_Subset
  <2>4. Cardinality(T) > maxRecent
    BY <1>12
  <2> HIDE DEF S, T
  <2>5. IsFiniteSet(T) /\ Cardinality(T) <= Cardinality(S)
    BY ONLY <2>1, <2>2, <2>3, ToldApart
  <2>6. Cardinality(S) \in Nat /\ Cardinality(T) \in Nat /\ maxRecent \in Nat
    BY <2>3, <2>5, FS_CardinalityType
  <2>7. Cardinality(S) > maxRecent
    BY ONLY <2>4, <2>5, <2>6
  <2> QED BY <1>1, <2>7 DEF S, detectStaleClaims
<1> QED BY <1>1, <1>6, <1>9, <1>10, <1>11, <1>12

\* The records a set of them leads to, and the recursion that follows them.
Led(S) == S \cup {l[3] : l \in {l \in recordLinks : l[1] = "SUPERSEDED_BY" /\ l[2] \in S}}
LedTurn(f, i) == [n \in 0..Len(records) |-> IF n = 0 THEN {i} ELSE Led(f[n - 1])]
Leads(f, i) == f[0] = {i} /\ \A n \in 1..Len(records) : f[n] = Led(f[n - 1])
LEMMA ReplacementsAre ==
  ASSUME NEW i \in DOMAIN records, Len(records) \in Nat
  PROVE  \E f : Leads(f, i) /\ Replacements(i) = f[Len(records)]
<1> DEFINE m == Len(records)
           V == SUBSET (DOMAIN records \cup {l[3] : l \in recordLinks})
           step == [p \in (1..m) \X V |-> Led(p[2])]
           iter == CHOOSE f : f = LedTurn(f, i)
<1>1. m \in Nat
  OBVIOUS
<1>2. Replacements(i) = iter[m]
  BY DEF Replacements, LedTurn, Led
<1>3. {i} \in V
  OBVIOUS
<1>4. \A S \in V : Led(S) \in V
  BY DEF Led
<1> HIDE DEF m, V
<1>5. step \in [(1..m) \X V -> V] /\ \A n \in 1..m : \A S \in V : step[<<n, S>>] = Led(S)
  BY <1>4
<1> HIDE DEF step
<1>6. PICK f : Steps(f, m, V, {i}, step)
  BY ONLY <1>1, <1>3, <1>5, CountedRecursion
<1>7. f = LedTurn(f, i)
  <2> DEFINE g == LedTurn(f, i)
  <2>1. g = [n \in 0..m |-> IF n = 0 THEN {i} ELSE Led(f[n - 1])]
    BY DEF LedTurn, m
  <2> HIDE DEF g
  <2>2. ASSUME NEW n \in 0..m PROVE f[n] = g[n]
    <3>1. CASE n = 0
      BY <1>6, <2>1, <3>1 DEF Steps
    <3>2. CASE n # 0
      <4>1. n \in 1..m /\ n - 1 \in 0..m
        BY <1>1, <3>2
      <4>2. f[n] = Led(f[n - 1])
        BY <1>5, <1>6, <4>1 DEF Steps
      <4> QED BY <2>1, <3>2, <4>2
    <3> QED BY <3>1, <3>2
  <2> QED BY <1>6, <2>1, <2>2 DEF g, Steps
<1>8. iter = LedTurn(iter, i)
  BY <1>7
<1> HIDE DEF iter
<1>9. Leads(iter, i)
  <2>1. 0 \in 0..m /\ \A n \in 1..m : n \in 0..m /\ n # 0
    BY <1>1
  <2> QED BY <1>8, <2>1 DEF LedTurn, Leads, m
<1> QED BY <1>2, <1>9 DEF m

LEMMA ChainsAreSound == EvidenceInv => ChainsSound
<1> SUFFICES ASSUME EvidenceInv, TextsOnce, NEW i \in DOMAIN records
             PROVE  Cardinality({j \in Replacements(i) : ~records[j].old}) = 1
  BY DEF ChainsSound, TextsOnce
<1> DEFINE m == Len(records)
<1>1. DOMAIN records = 1..m /\ m \in Nat
  BY DEF EvidenceInv, EvidenceType
<1>2. PICK f : Leads(f, i) /\ Replacements(i) = f[m]
  BY <1>1, ReplacementsAre
<1>3. ASSUME NEW k \in DOMAIN records, records[k].old
      PROVE  \E j \in DOMAIN records : /\ k < j /\ \A l \in recordLinks : Replaces(l, k) => l[3] = j
                                       /\ \E l \in recordLinks : Replaces(l, k)
  BY <1>3 DEF EvidenceInv, ChainsInv
<1>4. \A k \in DOMAIN records : ~records[k].old => \A l \in recordLinks : ~Replaces(l, k)
  BY DEF EvidenceInv, ChainsInv
<1> HIDE DEF m
\* After n turns one record is not yet replaced, or lies n further on; the others are.
<1> DEFINE Tip(S, t, n) == /\ t \in S /\ S \subseteq DOMAIN records
                           /\ \A j \in S : j # t => records[j].old /\ \A l \in recordLinks : Replaces(l, j) => l[3] \in S
                           /\ ~records[t].old \/ t >= i + n
           P == {n \in 0..m : \E t \in f[n] : Tip(f[n], t, n)}
<1>5. 0 \in P
  <2>1. f[0] = {i} /\ i >= i + 0
    BY <1>1, <1>2 DEF Leads
  <2>2. i \in f[0] /\ f[0] \subseteq DOMAIN records /\ \A j \in f[0] : j = i
    BY <2>1
  <2>3. Tip(f[0], i, 0)
    BY <2>1, <2>2, Zenon
  <2>4. 0 \in 0..m
    BY <1>1
  <2> HIDE DEF Tip
  <2> QED BY <2>2, <2>3, <2>4
<1>6. ASSUME NEW n \in 0..(m - 1), n \in P PROVE n + 1 \in P
  <2> DEFINE S == f[n]
  <2>1. PICK t \in S : Tip(S, t, n)
    BY <1>6
  <2>2. n + 1 \in 0..m /\ f[n + 1] = Led(S)
    <3>1. n + 1 \in 1..m /\ (n + 1) - 1 = n
      BY <1>1
    <3>2. f[n + 1] = Led(f[(n + 1) - 1])
      BY <1>2, <3>1 DEF Leads, m
    <3> QED BY <1>1, <3>1, <3>2
  <2> HIDE DEF S
  <2>3. CASE ~records[t].old
    <3>1. \A l \in recordLinks : ~Replaces(l, t)
      BY <1>4, <2>1, <2>3
    <3>2. Led(S) = S
      BY <2>1, <3>1 DEF Led, Replaces
    <3>3. Tip(Led(S), t, n + 1)
      BY <2>1, <2>3, <3>2
    <3> HIDE DEF Tip
    <3> QED BY <2>1, <2>2, <3>2, <3>3
  <2>4. CASE records[t].old
    <3>1. t \in DOMAIN records
      BY <2>1
    <3>2. PICK j \in DOMAIN records : /\ t < j /\ \A l \in recordLinks : Replaces(l, t) => l[3] = j
                                      /\ \E l \in recordLinks : Replaces(l, t)
      BY <1>3, <2>4, <3>1
    <3>3. \A l \in recordLinks : \A k \in S : Replaces(l, k) => l[3] \in S \/ l[3] = j
      BY <2>1, <3>2
    <3>4. Led(S) = S \cup {j}
      <4>1. ASSUME NEW x \in Led(S) PROVE x \in S \cup {j}
        BY <3>3 DEF Led, Replaces
      <4>2. j \in Led(S)
        BY <2>1, <3>2 DEF Led, Replaces
      <4>3. S \subseteq Led(S)
        BY DEF Led
      <4> QED BY <4>1, <4>2, <4>3
    <3>5. j >= i + (n + 1)
      <4>1. t >= i + n
        BY <2>1, <2>4
      <4>2. t \in Nat /\ j \in Nat /\ i \in Nat /\ n \in Nat
        BY <1>1, <3>1
      <4> QED BY <3>2, <4>1, <4>2
    <3>6. ASSUME NEW k \in S \cup {j}, k # j
          PROVE  records[k].old /\ \A l \in recordLinks : Replaces(l, k) => l[3] \in S \cup {j}
      <4>1. k \in S
        BY <3>6
      <4>2. records[k].old
        BY <2>1, <2>4, <4>1
      <4> QED BY <3>3, <4>1, <4>2
    <3>7. S \subseteq DOMAIN records
      BY <2>1
    <3>8. Tip(S \cup {j}, j, n + 1)
      BY <3>5, <3>6, <3>7
    <3> HIDE DEF Tip
    <3> QED BY <2>2, <3>4, <3>8
  <2> QED BY <2>3, <2>4
<1> HIDE DEF P
<1>7. \A n \in 0..m : n \in P
  BY <1>1, <1>5, <1>6, UpTo
<1>8. m \in P
  BY <1>1, <1>7
<1>9. PICK t \in f[m] : Tip(f[m], t, m)
  BY <1>8 DEF P
<1>10. ~records[t].old
  <2>1. t \in 1..m /\ i \in 1..m
    BY <1>1, <1>9
  <2>2. ~(t >= i + m)
    BY <1>1, <2>1
  <2> QED BY <1>9, <2>2
<1>11. {j \in Replacements(i) : ~records[j].old} = {t}
  BY <1>2, <1>9, <1>10
<1> QED BY <1>11, FS_Singleton

\* Whatever tasks recorded while no id changed its subject or its claim, a report leaves out no loop,
\* contradiction or burst, and calls unsupported what is; and from a superseded record the way leads
\* to one that is current: AntiLoopDetector.CheckInterception, EvidenceService.SupersedeEvidence.
THEOREM LoopsAreCaught == EvidenceSpec => []LoopsCaught
<1>1. EvidenceInv => LoopsCaught
  BY ReportIsSound, ChainsAreSound DEF LoopsCaught
<1> QED BY <1>1, EvidenceInvariance, PTL
=============================================================================
