---------------------------- MODULE GraphAnalyses ----------------------------
(* The questions the services answer by walking the graph: query.go (Impact,    *)
(* Trace, TraceDataFlow, Hierarchy), analysis.go (HotPaths,                      *)
(* CircularDependencies), architecture.go (sccs and the layers above them) and   *)
(* slice.go (ComputeSlice).  One question is asked of one graph; the walk takes   *)
(* one step per node it visits.  Edges come in the order of their random ids,     *)
(* which is the order chosen when a node is visited.                              *)
EXTENDS Integers, Sequences, FiniteSets
LOCAL INSTANCE SequencesExt

CONSTANTS
  Question,        \* the questions asked: records with the fields of asked below
  GraphsFor(_),    \* the graphs a question is asked of: sets of [kind, from, to]
  defaultGraphLimit, maxGraphDepth, maxGraphFanOut, maxGraphNodes, maxGraphEdges,
  Nil

VARIABLES
  asked,      \* the question: op, and source, target, depth, limit, calls, rest as it needs
  edges,      \* the graph
  queue,      \* routes whose last node is still to be visited
  reached,    \* routes found, in the order found
  edgeBudget,     \* limits.edges
  truncated,  \* limits.truncated
  counts,     \* HotPaths: transitive callers of the functions done so far
  frames,     \* depth-first walks: the nodes being visited, with the children left
  index, low, \* sccs: order of discovery and lowest order on the stack, as sequences of pairs
  onStack,    \* sccs: its stack
  results,      \* cycles, or components in the order they are completed
  done

walkVars == <<queue, reached, edgeBudget, truncated>>
dfsVars == <<frames, index, low, onStack, results>>
analysisVars == <<asked, edges, walkVars, counts, dfsVars, done>>

Nodes == UNION {{e.from, e.to} : e \in edges} \cup {asked.source}
Least(a, b) == IF a < b THEN a ELSE b
Most(a, b) == IF a > b THEN a ELSE b

-----------------------------------------------------------------------------
(* Breadth-first walks.                                                      *)

\* A route: the nodes from the source, and the kinds of the edges between them.
Route(path, kinds) == [path |-> path, kinds |-> kinds]
RouteFrom(n) == <<Route(<<n>>, <<>>)>>
At(r) == Last(r.path)
Level(r) == Len(r.path) - 1

\* normalizeGraphTraversal.
Depth(depth) == Least(Most(depth, 0), maxGraphDepth)
NodeLimit(limit) == Least(IF limit <= 0 THEN defaultGraphLimit ELSE limit, maxGraphNodes)

Inbound == {"CALLS", "REFERENCES", "USES", "HAS_TYPE", "IMPORTS", "DEPENDS_ON", "DATA_FLOW"}

\* GraphQueryIndex.AllNeighbors and Neighbors: the edges at a node, and their other ends.
Outgoing(n, kinds) == {e \in edges : e.from = n /\ e.kind \in kinds}
Incoming(n, kinds) == {e \in edges : e.to = n /\ e.kind \in kinds}
Hop(n, e) == [kind |-> e.kind, node |-> IF e.from = n THEN e.to ELSE e.from]
Listed(n, es) == {[i \in DOMAIN s |-> Hop(n, s[i])] : s \in SetToSeqs(es)}

\* The routes that extend r along the listed edges to nodes not seen before.
Seen == {At(r) : r \in Range(reached)} \cup {asked.source}
Extended(r, list) ==
  LET fresh == {i \in DOMAIN list : /\ list[i].node \notin Seen
                                    /\ \A j \in 1..(i - 1) : list[j].node # list[i].node}
      step(i) == Route(Append(r.path, list[i].node), Append(r.kinds, list[i].kind))
  IN  [k \in 1..Cardinality(fresh) |->
         step(CHOOSE i \in fresh : Cardinality({j \in fresh : j <= i}) = k)]

Visit(new) ==
  /\ queue' = Tail(queue) \o new
  /\ reached' = reached \o new

\* Impact: who depends on the source.  All edges into a node count against the two
\* limits, those of other kinds too.
ImpactStep ==
  /\ asked.op = "Impact" /\ queue # <<>> /\ Len(reached) < NodeLimit(asked.limit) /\ edgeBudget >= 0
  /\ LET r == Head(queue)
     IN  IF Level(r) >= Depth(asked.depth)
         THEN Visit(<<>>) /\ UNCHANGED <<edgeBudget, truncated>>
         ELSE LET all == {e \in edges : e.to = At(r)}
              IN  \E list \in Listed(At(r), all) :
                    LET bounded == SubSeq(list, 1, Least(Len(list), maxGraphFanOut))
                        read == SubSeq(bounded, 1, Least(Len(bounded), edgeBudget))
                    IN  /\ Visit(Extended(r, SelectSeq(read, LAMBDA e : e.kind \in Inbound)))
                        /\ edgeBudget' = IF Len(bounded) > edgeBudget THEN -1 ELSE edgeBudget - Len(bounded)
                        /\ truncated' = (truncated \/ Len(bounded) < Len(list) \/ edgeBudget' < 0)

\* Trace and TraceDataFlow: a way from the source to the target.
TraceKinds ==
  CASE asked.op = "Trace" -> <<"CALLS">>
    [] asked.op = "TraceDataFlow" -> <<"DATA_FLOW">> \o (IF asked.calls THEN <<"CALLS">> ELSE <<>>)
    [] asked.op = "Hierarchy" -> <<"EXTENDS", "IMPLEMENTS">>
    [] OTHER -> <<"CALLS">>

\* The edges of a node kind by kind, each kind in the order of the edges' ids.
KindByKind(n, kinds) ==
  {FlattenSeq([k \in DOMAIN kinds |-> lists[k]]) :
     lists \in {f \in [DOMAIN kinds -> UNION {Listed(n, Outgoing(n, {kinds[k]})) : k \in DOMAIN kinds}] :
                  \A k \in DOMAIN kinds : f[k] \in Listed(n, Outgoing(n, {kinds[k]}))}}

TraceStep ==
  /\ asked.op \in {"Trace", "TraceDataFlow"} /\ queue # <<>> /\ At(Head(queue)) # asked.target
  /\ LET r == Head(queue)
     IN  IF Len(r.path) > asked.depth THEN Visit(<<>>)
         ELSE \E list \in KindByKind(At(r), TraceKinds) : Visit(Extended(r, list))
  /\ UNCHANGED <<edgeBudget, truncated>>

\* Hierarchy, the walk to the supertypes (the one to the subtypes follows edges backwards).
HierarchyStep ==
  /\ asked.op = "Hierarchy" /\ queue # <<>>
  /\ LET r == Head(queue)
     IN  IF Level(r) >= (IF asked.depth <= 0 THEN 3 ELSE asked.depth) THEN Visit(<<>>)
         ELSE \E list \in KindByKind(At(r), TraceKinds) : Visit(Extended(r, list))
  /\ UNCHANGED <<edgeBudget, truncated>>

\* HotPaths walks the callers of one function after another.
CallersStep ==
  /\ asked.op = "HotPaths" /\ queue # <<>>
  /\ \E list \in Listed(At(Head(queue)), Incoming(At(Head(queue)), {"CALLS"})) :
       Visit(Extended(Head(queue), list))
  /\ UNCHANGED <<edgeBudget, truncated>>

Walk ==
  /\ ~ done
  /\ ImpactStep \/ TraceStep \/ HierarchyStep \/ CallersStep
  /\ UNCHANGED <<asked, edges, counts, dfsVars, done>>

\* HotPaths: a function nobody calls gets no count.
NextFunction ==
  /\ ~ done /\ asked.op = "HotPaths" /\ queue = <<>>
  /\ counts' = IF reached = <<>> THEN counts
               ELSE counts \cup {[node |-> asked.source, callers |-> Len(reached)]}
  /\ reached' = <<>>
  /\ \E n \in asked.rest \cup {asked.source} :
       IF asked.rest = {} THEN done' = TRUE /\ UNCHANGED <<asked, queue>>
       ELSE /\ n \in asked.rest
            /\ asked' = [asked EXCEPT !.source = n, !.rest = @ \ {n}]
            /\ queue' = RouteFrom(n)
            /\ UNCHANGED done
  /\ UNCHANGED <<edges, edgeBudget, truncated, dfsVars>>

\* The loops end: Impact also at its limits, the traces also at their target.
WalkEnds ==
  /\ ~ done /\ asked.op \in {"Impact", "Trace", "TraceDataFlow", "Hierarchy"}
  /\ queue # <<>> =>
       CASE asked.op = "Impact" -> Len(reached) >= NodeLimit(asked.limit) \/ edgeBudget < 0
         [] asked.op = "Hierarchy" -> FALSE
         [] OTHER -> At(Head(queue)) = asked.target
  /\ done' = TRUE
  /\ UNCHANGED <<asked, edges, walkVars, counts, dfsVars>>

-----------------------------------------------------------------------------
(* Depth-first walks.                                                        *)

Children(n) == {e.to : e \in {d \in edges : d.from = n}}
Frame(n) == [node |-> n, left |-> Children(n)]
Top == Last(frames)
Path == [i \in DOMAIN frames |-> frames[i].node]
Visited == {p[1] : p \in index}
IndexOf(n) == (CHOOSE p \in index : p[1] = n)[2]
LowOf(n) == low[IndexOf(n)]

Enter(n, below) ==
  /\ frames' = Append(below, Frame(n))
  /\ index' = index \cup {<<n, Cardinality(index) + 1>>}
  /\ low' = Append(low, Cardinality(index) + 1)
  /\ onStack' = Append(onStack, n)

\* A walk starts at each node not visited yet: CircularDependencies in the order of a
\* map, sccs in the order of the names.
EnterRoot ==
  /\ ~ done /\ asked.op \in {"Cycles", "Layers"} /\ frames = <<>>
  /\ \E n \in Nodes \ Visited :
       /\ asked.op = "Layers" => \A m \in Nodes \ Visited : n <= m
       /\ asked.op = "Cycles" => Len(results) < asked.limit
       /\ Enter(n, <<>>)
  /\ UNCHANGED <<asked, edges, walkVars, counts, results, done>>

\* Mutant: a node visited before is left out before it is looked for on the path.
CyclesChildVisited ==
  /\ ~ done /\ asked.op = "Cycles" /\ frames # <<>> /\ Top.left # {}
  /\ \E c \in Top.left :
       LET rest == Append(Front(frames), [Top EXCEPT !.left = @ \ {c}])
           where == {i \in DOMAIN Path : Path[i] = c}
           cycle == SubSeq(Path, CHOOSE i \in where : TRUE, Len(Path))
       IN  IF Len(results) >= asked.limit \/ c \in Visited
           THEN frames' = rest /\ UNCHANGED <<index, low, onStack, results>>
           ELSE IF where = {} THEN Enter(c, rest) /\ UNCHANGED results
           ELSE /\ frames' = rest
                /\ results' = IF cycle \in Range(results) THEN results ELSE Append(results, cycle)
                /\ UNCHANGED <<index, low, onStack>>
  /\ UNCHANGED <<asked, edges, walkVars, counts, done>>

\* CircularDependencies looks at one more child; at the limit it does not.
CyclesChild ==
  /\ ~ done /\ asked.op = "Cycles" /\ frames # <<>> /\ Top.left # {}
  /\ \E c \in Top.left :
       LET rest == Append(Front(frames), [Top EXCEPT !.left = @ \ {c}])
           where == {i \in DOMAIN Path : Path[i] = c}
           cycle == SubSeq(Path, CHOOSE i \in where : TRUE, Len(Path))
       IN  IF Len(results) >= asked.limit \/ (where = {} /\ c \in Visited)
           THEN frames' = rest /\ UNCHANGED <<index, low, onStack, results>>
           ELSE IF where = {} THEN Enter(c, rest) /\ UNCHANGED results
           ELSE /\ frames' = rest
                /\ results' = IF cycle \in Range(results) THEN results ELSE Append(results, cycle)
                /\ UNCHANGED <<index, low, onStack>>
  /\ UNCHANGED <<asked, edges, walkVars, counts, done>>

\* sccs: Tarjan's algorithm.
LayersChild ==
  /\ ~ done /\ asked.op = "Layers" /\ frames # <<>> /\ Top.left # {}
  /\ LET c == CHOOSE m \in Top.left : \A l \in Top.left : m <= l
         rest == Append(Front(frames), [Top EXCEPT !.left = @ \ {c}])
     IN  IF c \notin Visited THEN Enter(c, rest) /\ UNCHANGED results
         ELSE /\ frames' = rest
              /\ low' = IF c \in Range(onStack)
                        THEN [low EXCEPT ![IndexOf(Top.node)] = Least(@, IndexOf(c))] ELSE low
              /\ UNCHANGED <<index, onStack, results>>
  /\ UNCHANGED <<asked, edges, walkVars, counts, done>>

\* A node without children left is left: sccs passes its lowest order on to its parent
\* and completes a component when there is none lower than its own.
Leave ==
  /\ ~ done /\ frames # <<>> /\ Top.left = {}
  /\ LET n == Top.node
         root == asked.op = "Layers" /\ LowOf(n) = IndexOf(n)
         from == CHOOSE i \in DOMAIN onStack : onStack[i] = n
     IN  /\ frames' = Front(frames)
         /\ low' = IF Len(frames) = 1 THEN low
                   ELSE [low EXCEPT ![IndexOf(frames[Len(frames) - 1].node)] = Least(@, LowOf(n))]
         /\ onStack' = IF root THEN SubSeq(onStack, 1, from - 1) ELSE onStack
         /\ results' = IF root THEN Append(results, SubSeq(onStack, from, Len(onStack))) ELSE results
  /\ UNCHANGED <<asked, edges, walkVars, counts, index, done>>

SearchEnds ==
  /\ ~ done /\ asked.op \in {"Cycles", "Layers"} /\ frames = <<>>
  /\ Nodes \ Visited # {} => asked.op = "Cycles" /\ Len(results) >= asked.limit
  /\ done' = TRUE
  /\ UNCHANGED <<asked, edges, walkVars, counts, dfsVars>>

\* ArchitectureReport: a component's layer is the longest chain of components below it.
ComponentOf(n) == CHOOSE i \in DOMAIN results : n \in Range(results[i])
Layers ==
  LET level[i \in DOMAIN results] ==
        LET below == {ComponentOf(m) : m \in UNION {Children(n) : n \in Range(results[i])}} \ {i}
            levels == {level[j] + 1 : j \in below} \cup {0}
        IN  CHOOSE l \in levels : \A k \in levels : k <= l
  IN  level

-----------------------------------------------------------------------------
(* Windows of arrays.                                                        *)

\* ComputeSlice: the end, and the inconsistencies it can prove.  Nil: not given.
WindowLength == IF asked.length # Nil THEN asked.length
                ELSE IF asked.end # Nil THEN asked.end - asked.offset ELSE 0
WindowEnd == IF asked.end # Nil THEN asked.end
             ELSE IF asked.length # Nil THEN asked.offset + asked.length ELSE 0
SliceProblems ==
  {p \in {"disagree", "no end", "negative offset", "negative length", "past the end", "offset past the end"} :
     CASE p = "disagree" -> asked.length # Nil /\ asked.end # Nil /\ asked.offset + asked.length # asked.end
       [] p = "no end" -> asked.length = Nil /\ asked.end = Nil
       [] p = "negative offset" -> asked.offset < 0
       [] p = "negative length" -> WindowLength < 0
       [] p = "past the end" -> asked.base # Nil /\ WindowEnd > asked.base
       [] p = "offset past the end" -> asked.base # Nil /\ asked.offset > asked.base}

ComputeSlice ==
  /\ ~ done /\ asked.op = "Slice"
  /\ results' = <<SliceProblems>> /\ done' = TRUE
  /\ UNCHANGED <<asked, edges, walkVars, counts, frames, index, low, onStack>>

-----------------------------------------------------------------------------

AnalysesInit ==
  /\ asked \in Question /\ edges \in GraphsFor(asked)
  /\ queue = RouteFrom(asked.source) /\ reached = <<>>
  /\ edgeBudget = maxGraphEdges /\ truncated = FALSE /\ counts = {}
  /\ frames = <<>> /\ index = {} /\ low = <<>> /\ onStack = <<>> /\ results = <<>>
  /\ done = FALSE

AnalysesNext ==
  Walk \/ NextFunction \/ WalkEnds \/ EnterRoot \/ CyclesChild \/ LayersChild \/ Leave \/ SearchEnds
  \/ ComputeSlice
AnalysesSpec == AnalysesInit /\ [][AnalysesNext]_analysisVars

-----------------------------------------------------------------------------
(* What the answers mean.                                                    *)

\* The nodes n steps from a set along a relation; the distance between two nodes.
After(from, rel, n) ==
  LET f[k \in 0..n] == IF k = 0 THEN from
                       ELSE f[k - 1] \cup {p[2] : p \in {q \in rel : q[1] \in f[k - 1]}}
  IN  f[n]
Far == Cardinality(Nodes)
Reach(n, rel) == After({n}, rel, Far)
Distance(n, m, rel) == CHOOSE k \in 0..Far :
                         m \in After({n}, rel, k) /\ (k > 0 => m \notin After({n}, rel, k - 1))
Forward(kinds) == {<<e.from, e.to>> : e \in {d \in edges : d.kind \in kinds}}
Backward(kinds) == {<<e.to, e.from>> : e \in {d \in edges : d.kind \in kinds}}

Within(rel, depth) == After({asked.source}, rel, depth) \ {asked.source}
Routes(rel) == \A r \in Range(reached) : \A i \in 1..(Len(r.path) - 1) : <<r.path[i], r.path[i + 1]>> \in rel
Shortest(rel) == \A r \in Range(reached) : Level(r) = Distance(asked.source, At(r), rel)
EndsOfRoutes == {At(r) : r \in Range(reached)}

ImpactAgrees ==
  /\ Routes(Backward(Inbound)) /\ (~ truncated => Shortest(Backward(Inbound)))
  /\ EndsOfRoutes \subseteq Within(Backward(Inbound), Depth(asked.depth))
  /\ ~ truncated /\ Len(reached) < NodeLimit(asked.limit)
       => EndsOfRoutes = Within(Backward(Inbound), Depth(asked.depth))
TraceAgrees ==
  LET rel == Forward(Range(TraceKinds))
  IN  /\ Routes(rel) /\ Shortest(rel)
      /\ (queue # <<>>) <=> asked.target \in After({asked.source}, rel, Most(asked.depth, 0))
HierarchyAgrees ==
  LET rel == Forward({"EXTENDS", "IMPLEMENTS"})
  IN  Routes(rel) /\ Shortest(rel) /\ EndsOfRoutes = Within(rel, IF asked.depth <= 0 THEN 3 ELSE asked.depth)
HotPathsAgree ==
  \A n \in Nodes : LET callers == Cardinality(Reach(n, Backward({"CALLS"})) \ {n})
                   IN  callers > 0 <=> [node |-> n, callers |-> callers] \in counts
CyclesAgree ==
  LET rel == {<<e.from, e.to>> : e \in edges}
      cyclic == \E n \in Nodes : \E p \in rel : p[1] = n /\ n \in Reach(p[2], rel)
  IN  /\ \A c \in Range(results) : /\ IsInjective(c) /\ <<Last(c), Head(c)>> \in rel
                                   /\ \A i \in 1..(Len(c) - 1) : <<c[i], c[i + 1]>> \in rel
      /\ cyclic /\ asked.limit > 0 => results # <<>>
LayersAgree ==
  LET rel == {<<e.from, e.to>> : e \in edges}
  IN  /\ \A n, m \in Nodes : ComponentOf(n) = ComponentOf(m)
                               <=> m \in Reach(n, rel) /\ n \in Reach(m, rel)
      /\ \A p \in rel : ComponentOf(p[1]) # ComponentOf(p[2])
                          => Layers[ComponentOf(p[1])] > Layers[ComponentOf(p[2])]

\* Elements i of the base with offset <= i < end, one for each of the length.
SliceAgrees ==
  results[1] = {} <=> /\ {asked.length, asked.end} # {Nil}
                      /\ asked.offset \in Nat /\ WindowLength \in Nat
                      /\ WindowEnd = asked.offset + WindowLength
                      /\ asked.base # Nil => /\ asked.offset..(WindowEnd - 1) \subseteq 0..(asked.base - 1)
                                             /\ asked.offset <= asked.base

\* The answers are those of the graph: Impact names what depends on a node within the depth,
\* and unless it hit a limit all of it, at the shortest distances; a trace is found exactly
\* when there is one that short; the callers counted are the transitive ones; a cyclic graph
\* shows a cycle and every cycle shown is one; components are the classes of mutual
\* dependency, and a layer depends on lower ones only; a window is valid when its elements are
\* the base's (query.go, analysis.go, architecture.go, slice.go).
AnalysesAgree ==
  done => CASE asked.op = "Impact" -> ImpactAgrees
            [] asked.op \in {"Trace", "TraceDataFlow"} -> TraceAgrees
            [] asked.op = "Hierarchy" -> HierarchyAgrees
            [] asked.op = "HotPaths" -> HotPathsAgree
            [] asked.op = "Cycles" -> CyclesAgree
            [] asked.op = "Layers" -> LayersAgree
            [] asked.op = "Slice" -> SliceAgrees
=============================================================================
