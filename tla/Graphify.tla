------------------------------ MODULE Graphify ------------------------------
(***************************************************************************)
(* The graphify pass (internal/services/graphify.go), which IndexRepository *)
(* runs for a folder: it walks the files, makes a graph of them and of the  *)
(* concepts they name, labels its communities and writes three files under  *)
(* graphify-out/.  The passes of a process, one per root that is indexed,   *)
(* share one progress record, and with it the count of files the limit is   *)
(* checked against.  What a file names is given; nodes are numbers in the   *)
(* order of their ids, an edge is <<source, target, relation>>.             *)
(***************************************************************************)
EXTENDS Naturals, Sequences, FiniteSets, Functions

CONSTANTS Root,
          WalkOrder,      \* WalkOrder[g]: the files under g in the order of the walk,
                          \* those the pass itself writes included
          OutFile,        \* OutFile[g]: the files of graphify-out/, as they are written
          ConceptsIn,     \* ConceptsIn[f]: the concepts of a file, in their order
          ImportsIn,      \* ImportsIn[f]: the concepts its imports name
          MaxPasses,      \* bound: passes started
          graphifyMaxFiles, graphifyMaxConceptsPerFile, graphifyMaxNodes, graphifyMaxEdges,
          maxRounds, maxGods

ASSUME GraphifyAssumption ==
  /\ {graphifyMaxFiles, graphifyMaxConceptsPerFile, maxRounds} \subseteq Nat
  /\ \A g \in Root : WalkOrder[g] \in Seq(Nat)
  /\ \A g \in Root : \A f \in Range(WalkOrder[g]) : ConceptsIn[f] \in Seq(Nat)

VARIABLES
  progress,   \* globalProgress
  pass,       \* pass[g]: the pass over g that runs, or the last one
  onDisk,     \* onDisk[g]: the files of graphify-out/ there are
  runNode,    \* runNode[g]: the GraphifyRun node of g
  alone,      \* alone[g]: history: no other pass ran while this one did
  passes      \* clock

graphifyVars == <<progress, pass, onDisk, runNode, alone, passes>>

NoPass == [stage |-> "none"]
PassRuns(g) == pass[g].stage \in {"look", "take", "label", "write", "done"}
NoProgress == [seen |-> 0, nodes |-> 0, edges |-> 0, communities |-> 0, done |-> FALSE]
Fewest(a, b) == IF a < b THEN a ELSE b

GraphifyInit ==
  /\ progress = NoProgress
  /\ pass = [g \in Root |-> NoPass]
  /\ onDisk = [g \in Root |-> <<>>]
  /\ runNode = [g \in Root |-> <<>>]
  /\ alone = [g \in Root |-> TRUE]
  /\ passes = 0

\* The walk reads the folder as it is: what an earlier pass wrote is in it.
FilesUnder(g) ==
  LET walk == WalkOrder[g]
      found[i \in 0..Len(walk)] ==
        IF i = 0 THEN <<>>
        ELSE IF walk[i] \in Range(OutFile[g]) \ Range(onDisk[g]) THEN found[i - 1]
        ELSE Append(found[i - 1], walk[i])
  IN  found[Len(walk)]

\* Run: Reset, for every pass that runs.
BeginPass(g, reset) ==
  /\ ~PassRuns(g) /\ passes < MaxPasses
  /\ progress' = reset
  /\ pass' = [pass EXCEPT ![g] = [stage |-> "look", todo |-> FilesUnder(g), nodes |-> <<>>,
                                  edges |-> {}, taken |-> <<>>, labels |-> <<>>]]
  /\ alone' = [h \in Root |-> IF h = g THEN \A k \in Root : ~PassRuns(k)
                              ELSE alone[h] /\ ~PassRuns(h)]
  /\ passes' = passes + 1
  /\ UNCHANGED <<onDisk, runNode>>
\* Mutant: the count of files goes on from the pass before.
StartPassOn(g) == BeginPass(g, [NoProgress EXCEPT !.seen = progress.seen])
StartPass(g) == BeginPass(g, NoProgress)

\* extract: the limits are looked at before each file...
Look(g) ==
  LET p == pass[g]
      full == \/ progress.seen >= graphifyMaxFiles
              \/ Len(p.nodes) >= graphifyMaxNodes \/ Cardinality(p.edges) >= graphifyMaxEdges
  IN  /\ p.stage = "look"
      /\ pass' = [pass EXCEPT ![g].stage = IF p.todo = <<>> \/ full THEN "label" ELSE "take"]
      /\ UNCHANGED <<progress, onDisk, runNode, alone, passes>>

\* ... and the file is counted and read after: its node, its first concepts,
\* the pairs of them, and its imports of concepts that are nodes already.
WithNode(nodes, n) == IF n \in Range(nodes) THEN nodes ELSE Append(nodes, n)
WithNodes(nodes, ns) ==
  LET with[i \in 0..Len(ns)] == IF i = 0 THEN nodes ELSE WithNode(with[i - 1], ns[i])
  IN  with[Len(ns)]
ConceptPairs(cs) == UNION {{<<cs[i], cs[j], "references">> : j \in {j \in i + 1..Len(cs) : cs[i] # cs[j]}} :
                      i \in DOMAIN cs}
TakeFile(g) ==
  LET p == pass[g]
      f == Head(p.todo)
      concepts == SubSeq(ConceptsIn[f], 1, Fewest(Len(ConceptsIn[f]), graphifyMaxConceptsPerFile))
      nodes == WithNodes(WithNode(p.nodes, f), concepts)
      imports == {c \in ImportsIn[f] : c \in Range(nodes)}
  IN  /\ p.stage = "take"
      /\ progress' = [progress EXCEPT !.seen = @ + 1]
      /\ pass' = [pass EXCEPT ![g].stage = "look", ![g].todo = Tail(@), ![g].taken = Append(@, f),
                    ![g].nodes = nodes,
                    ![g].edges = @ \cup {<<f, c, "defines">> : c \in Range(concepts)}
                                   \cup ConceptPairs(concepts) \cup {<<f, c, "imports">> : c \in imports}]
      /\ UNCHANGED <<onDisk, runNode, alone, passes>>

\* labelPropagate: each node in turn takes the commonest label of its
\* neighbours, the smallest of equals, until a round changes nothing.
Votes(links, labels, n, l) ==
  Cardinality({e \in links : e[1] = n /\ labels[e[2]] = l})
    + Cardinality({e \in links : e[2] = n /\ labels[e[1]] = l})
NextLabel(links, labels, n) ==
  LET near == {labels[e[2]] : e \in {e \in links : e[1] = n}}
                \cup {labels[e[1]] : e \in {e \in links : e[2] = n}}
  IN  IF near = {} THEN labels[n]
      ELSE CHOOSE l \in near : \A m \in near :
             \/ Votes(links, labels, n, l) > Votes(links, labels, n, m)
             \/ Votes(links, labels, n, l) = Votes(links, labels, n, m) /\ l <= m
Round(nodes, links, labels) ==
  LET ls[i \in 0..Len(nodes)] ==
        IF i = 0 THEN labels ELSE [ls[i - 1] EXCEPT ![nodes[i]] = NextLabel(links, ls[i - 1], nodes[i])]
  IN  ls[Len(nodes)]
labelPropagate(nodes, links) ==
  LET after[i \in 0..maxRounds] == IF i = 0 THEN [n \in Range(nodes) |-> n]
                                   ELSE Round(nodes, links, after[i - 1])
  IN  after[maxRounds]

\* Run: the pass ends here when nothing was found.  Done is set when it returns.
Label(g) ==
  LET p == pass[g]
      labels == labelPropagate(p.nodes, p.edges)
  IN  /\ p.stage = "label"
      /\ IF p.nodes = <<>>
         THEN /\ pass' = [pass EXCEPT ![g].stage = "failed"]
              /\ progress' = [progress EXCEPT !.done = TRUE]
         ELSE /\ pass' = [pass EXCEPT ![g].stage = "write", ![g].labels = labels]
              /\ progress' = [progress EXCEPT !.nodes = Len(p.nodes), !.edges = Cardinality(p.edges),
                                              !.communities = Cardinality(Range(labels))]
      /\ UNCHANGED <<onDisk, runNode, alone, passes>>

\* graph.json, graph.html and the report are written in this order.
WriteOut(g) ==
  LET left == SelectSeq(OutFile[g], LAMBDA f : f \notin Range(onDisk[g]))
  IN  /\ pass[g].stage = "write"
      /\ IF left = <<>>
         THEN /\ pass' = [pass EXCEPT ![g].stage = "done"]
              /\ progress' = [progress EXCEPT !.done = TRUE]
              /\ UNCHANGED onDisk
         ELSE /\ onDisk' = [onDisk EXCEPT ![g] = Append(@, Head(left))]
              /\ UNCHANGED <<pass, progress>>
      /\ UNCHANGED <<runNode, alone, passes>>

\* A write fails, and the pass with it; the progress record shows no error.
WriteFails(g) ==
  /\ pass[g].stage = "write"
  /\ pass' = [pass EXCEPT ![g].stage = "failed"]
  /\ progress' = [progress EXCEPT !.done = TRUE]
  /\ UNCHANGED <<onDisk, runNode, alone, passes>>

\* writeGraphReport: the nodes of most edges, and the edges between communities.
Degree(p, n) == Cardinality({e \in p.edges : n = e[1]}) + Cardinality({e \in p.edges : n = e[2]})
GodNodes(p, gods) ==
  LET linked == {n \in Range(p.nodes) : Degree(p, n) > 0}
  IN  /\ gods \subseteq linked /\ Cardinality(gods) = Fewest(maxGods, Cardinality(linked))
      /\ \A n \in gods, m \in linked \ gods : Degree(p, n) >= Degree(p, m)
Surprising(p) == {e \in p.edges : p.labels[e[1]] # p.labels[e[2]]}

\* IndexRepository stores what the pass found.
Store(g) ==
  /\ pass[g].stage = "done"
  /\ \E gods \in SUBSET Range(pass[g].nodes) :
       /\ GodNodes(pass[g], gods)
       /\ runNode' = [runNode EXCEPT ![g] = [nodes |-> Len(pass[g].nodes), edges |-> pass[g].edges,
                                            gods |-> gods, surprising |-> Surprising(pass[g])]]
  /\ pass' = [pass EXCEPT ![g].stage = "stored"]
  /\ UNCHANGED <<progress, onDisk, alone, passes>>

GraphifyNext ==
  \E g \in Root : \/ StartPass(g) \/ Look(g) \/ TakeFile(g) \/ Label(g)
                  \/ WriteOut(g) \/ WriteFails(g) \/ Store(g)
GraphifySpec == GraphifyInit /\ [][GraphifyNext]_graphifyVars

(* ----------------------------- properties ----------------------------- *)
\* No edge leads out of a set of nodes, or into it.
Apart(p, S) == \A e \in p.edges : e[1] \in S <=> e[2] \in S

\* A pass that was alone took the first graphifyMaxFiles files, all of them when
\* there are fewer, unless its graph was full; no edge lacks an end, no
\* community joins what nothing connects; and once no pass runs the progress
\* record says so (Graphify.Run; its limits "keep a single Graphify pass bounded").
GraphifySound ==
  /\ \A g \in Root : pass[g].stage = "stored" =>
       LET p == pass[g]
           full == Len(p.nodes) >= graphifyMaxNodes \/ Cardinality(p.edges) >= graphifyMaxEdges
       IN  /\ alone[g] => /\ Len(p.taken) <= graphifyMaxFiles
                          /\ Len(p.taken) < graphifyMaxFiles => p.todo = <<>> \/ full
           /\ \A e \in p.edges : {e[1], e[2]} \subseteq Range(p.nodes)
           /\ DOMAIN p.labels = Range(p.nodes)
           /\ \A S \in SUBSET Range(p.nodes) : Apart(p, S) => \A n \in S : p.labels[n] \in S
  /\ (passes > 0 /\ \A g \in Root : ~PassRuns(g)) => progress.done
=============================================================================
