--------------------------- MODULE EdgeResolution ---------------------------
(***************************************************************************)
(* How CodeIndexService turns the names that files mention into edges      *)
(* (internal/services/calls.go, references.go, indexing.go resolveGraph):  *)
(* after a call has applied the files that changed, it takes an index of   *)
(* all functions and types and brings the edges of each kind up to date,   *)
(* one kind after the other.                                               *)
(*                                                                         *)
(* Data abstraction.  A file has one of a few contents; what a content     *)
(* declares and mentions are constants.  A node is identified by file,     *)
(* owner and name, and has the properties its file's content gives it.     *)
(* Which files an import can mean is a constant too (resolveImport         *)
(* compares paths).  Confidences are in percent.  No other source writes   *)
(* edges of these kinds between source nodes, so syncEdges' protection of  *)
(* foreign edges is left out.                                              *)
(***************************************************************************)
EXTENDS Naturals, FiniteSets, FiniteSetsExt

CONSTANTS
  Source,        \* the source files
  Content,       \* what a file can contain
  Nil,          \* no content; no owner
  Functions,     \* Functions[c]: set of [owner, name, calls, refs]; a call is
                 \* [owner, name], bare when its owner is Nil
  Types,         \* Types[c]: set of [name, refs], the classes and structs
  Relations,     \* Relations[c]: set of [sub, rel, super]
  Imports,       \* Imports[c]: set of names
  ImportHits,    \* ImportHits[s][i]: the files that import i of file s can mean
  LangGroup,     \* LangGroup[s]: the language group of a file
  asmLinkable,   \* the groups that link with assembly
  maxAmbiguousFan,
  MaxApplies     \* bound: contents applied

ASSUME ResolutionAssumption == maxAmbiguousFan \in Nat /\ MaxApplies \in Nat

VARIABLES
  applied,   \* applied[s]: the content whose symbols the graph has, or Nil
  edges,     \* the edges between files and symbols
  resolving, \* the call in progress: "idle", "apply", or the pass that is next
  changed,     \* a file has been changed or removed by the call
  index,     \* buildResolverIndex: applied, as the call found it
  applies    \* clock

resolutionVars == <<applied, edges, resolving, changed, index, applies>>

Declared(kind, s, owner, name) == [kind |-> kind, file |-> s, owner |-> owner, name |-> name]
FileNode(s) == Declared("SourceFile", s, Nil, Nil)
FunctionNode(s, d) == Declared("Function", s, d.owner, d.name)
TypeNode(s, d) == Declared("Type", s, Nil, d.name)
Module(i) == Declared("Module", Nil, Nil, i)

Files(g) == {s \in Source : g[s] # Nil}
FunctionDecls(g) == UNION {{<<s, d>> : d \in Functions[g[s]]} : s \in Files(g)}
TypeDecls(g) == UNION {{<<s, d>> : d \in Types[g[s]]} : s \in Files(g)}
FunctionNodes(g) == {FunctionNode(x[1], x[2]) : x \in FunctionDecls(g)}
TypeNodes(g) == {TypeNode(x[1], x[2]) : x \in TypeDecls(g)}
Symbols(g) == FunctionNodes(g) \cup TypeNodes(g) \cup {FileNode(s) : s \in Files(g)}

ByName(g, name) == {n \in FunctionNodes(g) : n.name = name}
ByQualified(g, call) == {n \in ByName(g, call.name) : n.owner = call.owner}
TypesByName(g, name) == {n \in TypeNodes(g) : n.name = name}

-----------------------------------------------------------------------------
(* What the resolvers want.                                                *)

groupsCompatible(a, b) ==
  a = b \/ (a = "asm" /\ b \in asmLinkable) \/ (b = "asm" /\ a \in asmLinkable)

\* pickTargets: <<node, confidence>> for the candidates a name in file s can mean.
pickTargets(candidates, s) ==
  LET linkable == {n \in candidates : groupsCompatible(LangGroup[n.file], LangGroup[s])}
      same == {n \in linkable : n.file = s}
  IN IF same # {} THEN same \X {90}
     ELSE IF Cardinality(linkable) = 1 THEN linkable \X {80}
     ELSE IF Cardinality(linkable) <= maxAmbiguousFan THEN linkable \X {50}
     ELSE {}

\* A qualified call goes by owner and name; by the name alone if no function has
\* both, and with less confidence if none that has both can be linked.
CallTargets(g, call, s) ==
  LET bare == pickTargets(ByName(g, call.name), s)
      qualified == pickTargets(ByQualified(g, call), s)
  IN IF call.owner = Nil \/ ByQualified(g, call) = {} THEN bare
     ELSE IF qualified # {} THEN qualified
     ELSE {<<t[1], (t[2] * 8) \div 10>> : t \in bare}

\* desired: one confidence for each target, the highest.
Best(targets) == {t \in targets : \A u \in targets : u[1] = t[1] => u[2] <= t[2]}
Links(kind, from, targets) ==
  {[kind |-> kind, from |-> from, to |-> t[1], confidence |-> t[2]] : t \in Best(targets)}

CallsWanted(g) ==
  UNION {LET me == FunctionNode(x[1], x[2])
             targets == UNION {CallTargets(g, call, x[1]) : call \in x[2].calls}
         IN Links("CALLS", me, {t \in targets : t[1] # me}) : x \in FunctionDecls(g)}

\* Types use what their fields mention, functions what they mention and what they
\* call that is no function, but for their own type.
UsesWanted(g) ==
  LET Uses(names, s) == UNION {pickTargets(TypesByName(g, name), s) : name \in names}
      funcNames == {n.name : n \in FunctionNodes(g)}
      Mentioned(d) ==
        (d.refs \cup ({call.name : call \in {c \in d.calls : c.owner = Nil}} \ funcNames))
          \ {d.owner}
  IN (UNION {LET me == TypeNode(x[1], x[2])
             IN Links("USES", me, {t \in Uses(x[2].refs, x[1]) : t[1] # me}) : x \in TypeDecls(g)})
     \cup UNION {Links("USES", FunctionNode(x[1], x[2]), Uses(Mentioned(x[2]), x[1])) :
                   x \in FunctionDecls(g)}

\* The relations are those the files have now, the types those of the index.
RelationPairs(g, s, r) ==
  {q \in pickTargets(TypesByName(g, r.sub), s) \X pickTargets(TypesByName(g, r.super), s) :
     q[1][1] # q[2][1]}
Supers(g, current, n, rel) ==
  UNION {UNION {{p[2] : p \in {q \in RelationPairs(g, s, r) : q[1][1] = n}} :
                  r \in {q \in Relations[current[s]] : q.rel = rel}} : s \in Files(current)}
InheritanceWanted(g, current) ==
  UNION {UNION {Links(rel, n, Supers(g, current, n, rel)) : rel \in {"EXTENDS", "IMPLEMENTS"}} :
           n \in TypeNodes(g)}

ImportsWanted(current) ==
  UNION {Links("DEPENDS_ON", FileNode(s),
               {<<FileNode(hit), 90>> :
                  hit \in (UNION {ImportHits[s][i] : i \in Imports[current[s]]} \cap Files(current)) \ {s}}) :
           s \in Files(current)}

\* Data flows from a called function back to a caller that uses its owner.
Decl(g, n) == CHOOSE d \in Functions[g[n.file]] : d.owner = n.owner /\ d.name = n.name
ownerUses(g, owner) == UNION {x[2].refs : x \in {y \in TypeDecls(g) : y[2].name = owner}}
Flows(g, caller, callee) ==
  /\ {caller, callee} \subseteq FunctionNodes(g) /\ callee.owner # Nil
  /\ \/ caller.owner = callee.owner
     \/ callee.owner \in Decl(g, caller).refs
     \/ caller.owner # Nil /\ callee.owner \in ownerUses(g, caller.owner)
FlowsWanted(g, called) ==
  {[kind |-> "DATA_FLOW", from |-> e.to, to |-> e.from, confidence |-> 0] :
     e \in {c \in called : Flows(g, c.from, c.to)}}

-----------------------------------------------------------------------------
(* Bringing the edges up to date.                                          *)

\* Mutant: an edge of any kind between the two nodes is taken for the edge.
SameEndsOfAnyKind(e, d) == e.from = d.from /\ e.to = d.to

SameEnds(e, d) == e.kind = d.kind /\ e.from = d.from /\ e.to = d.to
Missing(wanted, have) == {d \in wanted : ~ \E e \in have : SameEnds(e, d)}

\* syncEdgesAs, for the nodes "from": an edge that is not wanted any more goes, one
\* that is wanted and missing comes, and one that is there stays as it is.
syncEdges(have, kinds, from, wanted) ==
  {e \in have : e.kind \in kinds /\ e.from \in from => \E d \in wanted : SameEnds(e, d)}
    \cup Missing(wanted, have)

ResolutionInit ==
  /\ applied = [s \in Source |-> Nil]
  /\ edges = {} /\ resolving = "idle" /\ changed = FALSE
  /\ index = applied /\ applies = 0

\* IndexRepository (all files are resolved when it is not incremental) or IndexFiles.
BeginCall(incremental) ==
  /\ resolving = "idle"
  /\ resolving' = "apply" /\ changed' = ~ incremental
  /\ UNCHANGED <<applied, edges, index, applies>>

\* applyParseArtifact, or the removal of a file that is gone: symbols that vanished
\* take their edges along, the others keep theirs; import names are only added.
ApplyContent(s, c) ==
  /\ resolving = "apply" /\ applies < MaxApplies /\ applied[s] # c
  /\ applied' = [applied EXCEPT ![s] = c]
  /\ LET nodes == Symbols(applied')
         kept == {e \in edges : e.from \in nodes /\ (e.to.kind = "Module" \/ e.to \in nodes)}
         names == IF c = Nil THEN {} ELSE Imports[c]
     IN edges' = kept \cup {[kind |-> "IMPORTS", from |-> FileNode(s), to |-> Module(i),
                             confidence |-> 0] : i \in names}
  /\ changed' = TRUE /\ applies' = applies + 1
  /\ UNCHANGED <<resolving, index>>

\* resolveGraph runs if anything changed, and begins with its index.
buildResolverIndex ==
  /\ resolving = "apply"
  /\ resolving' = IF changed THEN "calls" ELSE "idle"
  /\ index' = IF changed THEN applied ELSE index
  /\ UNCHANGED <<applied, edges, changed, applies>>

ResolvePass(current, next, result) ==
  /\ resolving = current /\ resolving' = next
  /\ edges' = result
  /\ UNCHANGED <<applied, changed, index, applies>>

ResolveCalls ==
  ResolvePass("calls", "inheritance",
       syncEdges(edges, {"CALLS"}, FunctionNodes(index), CallsWanted(index)))
ResolveInheritance ==
  ResolvePass("inheritance", "references",
       syncEdges(edges, {"EXTENDS", "IMPLEMENTS"}, TypeNodes(index),
                 InheritanceWanted(index, applied)))
ResolveReferences ==
  ResolvePass("references", "imports",
       syncEdges(edges, {"USES"}, FunctionNodes(index) \cup TypeNodes(index), UsesWanted(index)))
ResolveImports ==
  ResolvePass("imports", "dataflow",
       syncEdges(edges, {"DEPENDS_ON"}, {FileNode(s) : s \in Files(applied)},
                 ImportsWanted(applied)))
\* Flows are only added.
ResolveDataFlow ==
  ResolvePass("dataflow", "idle",
       edges \cup Missing(FlowsWanted(index, {e \in edges : e.kind = "CALLS"}), edges))

ResolutionNext ==
  \/ \E incremental \in BOOLEAN : BeginCall(incremental)
  \/ \E s \in Source, c \in Content \cup {Nil} : ApplyContent(s, c)
  \/ buildResolverIndex
  \/ ResolveCalls \/ ResolveInheritance \/ ResolveReferences \/ ResolveImports \/ ResolveDataFlow
ResolutionSpec == ResolutionInit /\ [][ResolutionNext]_resolutionVars

-----------------------------------------------------------------------------
(* Properties.                                                             *)

\* The edges that indexing the present files from nothing would give.
Fresh ==
  CallsWanted(applied) \cup UsesWanted(applied) \cup InheritanceWanted(applied, applied)
    \cup ImportsWanted(applied) \cup FlowsWanted(applied, CallsWanted(applied))

Without(kinds, E) == {e \in E : e.kind \notin kinds}
Ends(E) == {[e EXCEPT !.confidence = 0] : e \in E}

\* "idempotent and order-independent, so callers indexed before their callees are
\* still linked once both exist" (calls.go:19): whatever was indexed, changed and
\* removed before, in whatever order, between calls the graph links what a first
\* index of the same files would link.  Data flows and import names, which are
\* never removed, are at least those.
EdgesMatchCode ==
  resolving = "idle" =>
    /\ Ends(Without({"DATA_FLOW", "IMPORTS"}, edges)) = Ends(Without({"DATA_FLOW"}, Fresh))
    /\ Ends(Fresh) \subseteq Ends(edges)

\* "makes the tree-sitter-derived edges of one kind leaving fromID equal to desired
\* (target ID -> confidence)" (calls.go:82).
EdgesEqualDesired ==
  resolving = "idle" =>
    Without({"DATA_FLOW", "IMPORTS"}, edges) = Without({"DATA_FLOW"}, Fresh)
=============================================================================
