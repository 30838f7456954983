----------------------------- MODULE GraphMerge -----------------------------
(***************************************************************************)
(* The graph held in one graph file, the journal of changes a process has  *)
(* not saved yet, and the merge of the second into the first               *)
(* (internal/graph/persistent.go, mergeJournalSnapshotLocked).             *)
(*                                                                         *)
(* Data abstraction.  A node is its identity (kind and identity            *)
(* properties, one Key) and one property value; an edge is its two ends:   *)
(* all edges have one kind and equal properties.  Node and edge ids are    *)
(* numbers because the code visits the journal in the order of the ids.    *)
(***************************************************************************)
EXTENDS Integers, FiniteSets

CONSTANTS NodeId,   \* ids models.NewID can give to nodes
          EdgeId,   \* ids models.NewID can give to edges
          Key,      \* identities of nodes
          Val       \* values of the property a node carries

ASSUME IdAssumption ==
  NodeId \subseteq Nat /\ EdgeId \subseteq Nat /\ IsFiniteSet(NodeId)

Node == [key : Key, val : Val]
Edge == [from : NodeId, to : NodeId]

\* The maps (Go: map[string]X) from some of the elements of S to T.
Maps(S, T) == UNION {[D -> T] : D \in SUBSET S}
NoEntries == [x \in {} |-> x]

\* The map m with key x set to v.
Set(m, x, v) == [y \in DOMAIN m \cup {x} |-> IF y = x THEN v ELSE m[y]]
\* The map m without the keys in S.
Without(m, S) == [y \in DOMAIN m \ S |-> m[y]]

Graph == [nodes : Maps(NodeId, Node), edges : Maps(EdgeId, Edge)]
EmptyGraph == [nodes |-> NoEntries, edges |-> NoEntries]

Journal == [dirty : Maps(NodeId, Node), newEdges : Maps(EdgeId, Edge),
            deletedNodes : SUBSET NodeId, deletedEdges : SUBSET EdgeId]
EmptyJournal == [dirty |-> NoEntries, newEdges |-> NoEntries,
                 deletedNodes |-> {}, deletedEdges |-> {}]

-----------------------------------------------------------------------------
(* The merge: deletions first, then dirty nodes, then new edges.           *)

KeptNodes(g, j) == DOMAIN g.nodes \ j.deletedNodes

\* Mutant: the edges of a removed node stay.
KeptEdgesOfRemoved(g, j) == DOMAIN g.edges \ j.deletedEdges
KeptEdges(g, j) ==
  {e \in DOMAIN g.edges \ j.deletedEdges :
      g.edges[e].from \notin j.deletedNodes /\ g.edges[e].to \notin j.deletedNodes}

\* Mutant: no lookup by identity.
NoHolders(g, j, k) == {}

\* The nodes the lookup index can return for identity k.  The index is built
\* at the first lookup and never updated: a journaled node inserted under its
\* own id by this merge is not in it.
Holders(g, j, k) == {n \in KeptNodes(g, j) : g.nodes[n].key = k}

\* A journaled node is written to the node of its own id if the graph has it,
\* else to a node with its identity if there is one, else under its own id.
\* The index keeps one id per identity, whichever the map iteration yields
\* last: every choice is a possible target map.
Targets(g, j) ==
  {f \in [DOMAIN j.dirty -> NodeId] :
     /\ \A d \in DOMAIN j.dirty :
          LET H == Holders(g, j, j.dirty[d].key)
          IN  IF d \in KeptNodes(g, j) \/ H = {} THEN f[d] = d ELSE f[d] \in H
     /\ \A c, d \in DOMAIN j.dirty \ KeptNodes(g, j) :
          j.dirty[c].key = j.dirty[d].key /\ f[c] # c /\ f[d] # d => f[c] = f[d]}

\* The nodes after the merge: of several journaled nodes with one target the
\* last in id order wins.
MergedNodes(g, j, f) ==
  [n \in KeptNodes(g, j) \cup {f[d] : d \in DOMAIN j.dirty} |->
     LET writers == {d \in DOMAIN j.dirty : f[d] = n}
     IN  IF writers = {} THEN g.nodes[n]
         ELSE j.dirty[CHOOSE d \in writers : \A c \in writers : c <= d]]

\* Mutant: a new edge keeps the ids it was linked with.
EndsUnmoved(j, f, e) == j.newEdges[e]

\* A new edge follows its ends to the nodes they were merged into.
Moved(f, n) == IF n \in DOMAIN f THEN f[n] ELSE n
Ends(j, f, e) == [from |-> Moved(f, j.newEdges[e].from), to |-> Moved(f, j.newEdges[e].to)]

\* New edges whose two ends exist; the others are dropped.
Linkable(g, j, f) ==
  LET ns == DOMAIN MergedNodes(g, j, f)
  IN  {e \in DOMAIN j.newEdges : Ends(j, f, e).from \in ns /\ Ends(j, f, e).to \in ns}

\* Of the linkable edges, those that repeat neither an edge of the graph nor
\* an earlier new edge.
AddedEdges(g, j, f) ==
  {e \in Linkable(g, j, f) :
     /\ \A k \in KeptEdges(g, j) : g.edges[k] # Ends(j, f, e)
     /\ \A d \in Linkable(g, j, f) : Ends(j, f, d) = Ends(j, f, e) => e <= d}

MergedEdges(g, j, f) ==
  [e \in KeptEdges(g, j) \cup AddedEdges(g, j, f) |->
     IF e \in AddedEdges(g, j, f) THEN Ends(j, f, e) ELSE g.edges[e]]

\* All the graphs the merge of journal j into graph g can produce.
Merges(g, j) ==
  {[nodes |-> MergedNodes(g, j, f), edges |-> MergedEdges(g, j, f)] : f \in Targets(g, j)}

-----------------------------------------------------------------------------
(* Properties of graphs.                                                   *)

\* Both ends of every edge are nodes of the graph.
Closed(g) == \A e \in DOMAIN g.edges :
               g.edges[e].from \in DOMAIN g.nodes /\ g.edges[e].to \in DOMAIN g.nodes

\* No two nodes have the same identity.
UniqueKeys(g) == \A m, n \in DOMAIN g.nodes : g.nodes[m].key = g.nodes[n].key => m = n

\* The nodes of g that node n of journal j may have become.
Homes(g, j, n) ==
  IF n \in DOMAIN j.dirty
  THEN {m \in DOMAIN g.nodes : g.nodes[m].key = j.dirty[n].key}
  ELSE {n} \cap DOMAIN g.nodes

\* Graph g has every change of journal j that can be made in it.
KeepsJournal(g, j) ==
  /\ \A d \in DOMAIN j.dirty : Homes(g, j, d) # {}
  /\ DOMAIN g.nodes \cap j.deletedNodes = {}
  /\ DOMAIN g.edges \cap j.deletedEdges = {}
  /\ \A e \in DOMAIN j.newEdges :
       LET from == Homes(g, j, j.newEdges[e].from)
           to == Homes(g, j, j.newEdges[e].to)
       IN  from = {} \/ to = {} \/
           \E f \in DOMAIN g.edges : g.edges[f].from \in from /\ g.edges[f].to \in to

=============================================================================
