------------------------------ MODULE MCAnswers ------------------------------
(* Small instances of what answers from the graph and of the other stores: the   *)
(* query index over one process's graph, the analyses, the references, the        *)
(* notes, the context compiler, the other repositories, the review of a branch    *)
(* and the records of claims.  As in MCComponents a behaviour is one of one        *)
(* component, its part.                                                          *)
EXTENDS GraphQueryIndex, GraphAnalyses, References, AgentNotes, ContextCompiler, Repositories,
        BranchReview, EvidenceLog, TLC

CONSTANTS p1, k1, k2, v1,                      \* GraphQueryIndex
          sa, sb, u1, u2,                      \* References
          ta, tb, q1, c1,                      \* AgentNotes
          n1, n1x, key1, path1, path2, sp, w1, \* ContextCompiler
          kp, kn, fa, fb, va,                  \* Repositories
          subject1, ca, cb, cd, h1, f1, f2     \* EvidenceLog

-----------------------------------------------------------------------------
(* GraphQueryIndex.                                                          *)

Nodes2 == 1..2
Edges1 == 1..1
OnlyOne == {[nodes |-> (1 :> [key |-> k1, val |-> v1]), edges |-> NoEntries]}
FourEach == [p \in Proc |-> 4]

-----------------------------------------------------------------------------
(* GraphAnalyses: what is asked, of all graphs with a few edges of the kinds   *)
(* the question follows.                                                     *)

Asking(op, depth, limit) ==
  [op |-> op, source |-> 1, target |-> 3, depth |-> depth, limit |-> limit, calls |-> FALSE, rest |-> {}]
Questions ==
  {Asking("Impact", d, l) : d \in {1, 2}, l \in {0, 1}}
  \cup {Asking("Trace", d, 0) : d \in {0, 1, 2}}
  \cup {[Asking("TraceDataFlow", d, 0) EXCEPT !.calls = TRUE] : d \in {1, 2}}
  \cup {Asking("Hierarchy", d, 0) : d \in {0, 1}}
  \cup {[Asking("HotPaths", 0, 0) EXCEPT !.rest = {2, 3}], Asking("Cycles", 0, 2), Asking("Layers", 0, 0)}
  \cup {[op |-> "Slice", source |-> 1, offset |-> o, length |-> l, end |-> e, base |-> b] :
          o \in -1..3, l \in (-1..2) \cup {Nil}, e \in (0..3) \cup {Nil}, b \in {0, 2, Nil}}

Among(kinds, n) == [kind : kinds, from : 1..n, to : 1..n]
Loopless(kinds, n) == {e \in Among(kinds, n) : e.from # e.to}
SomeOf(S, k) ==
  LET sets[i \in 0..k] == IF i = 0 THEN {{}} ELSE sets[i - 1] \cup {X \cup {e} : X \in sets[i - 1], e \in S}
  IN  sets[k]
SmallGraphs(q) ==
  CASE q.op = "Impact" -> SomeOf(Loopless({"CALLS"}, 3) \cup Among({"DEFINES"}, 2), 4)
    [] q.op = "Trace" -> SomeOf(Loopless({"CALLS"}, 4), 4)
    [] q.op = "TraceDataFlow" -> SomeOf(Loopless({"CALLS", "DATA_FLOW"}, 3), 3)
    [] q.op = "Hierarchy" -> SomeOf(Loopless({"EXTENDS", "IMPLEMENTS"}, 3), 3)
    [] q.op = "HotPaths" -> SUBSET Loopless({"CALLS"}, 3)
    [] q.op = "Cycles" -> SomeOf(Among({"IMPORTS"}, 3), 4)
    [] q.op = "Layers" -> SomeOf(Loopless({"DEPENDS_ON"}, 4), 5)
    [] q.op = "Slice" -> {{}}

-----------------------------------------------------------------------------
(* References: a symbol, the same one moved down, and changed with another.    *)

Texts == {<<<<sa, u1>>>>, <<<<Unset, u1>>, <<sa, u1>>>>, <<<<sa, u2>>, <<sb, u1>>>>}
NearIds(i) == IF i \in SymbolName THEN SymbolName \ {i} ELSE {}

(* AgentNotes. *)

AllTitles(p) == NoteTitle
Sizes(t) == IF t = ta THEN 2 ELSE 1

-----------------------------------------------------------------------------
(* ContextCompiler: what the sources find, and the requests.                 *)

Found(section) ==
  CASE section = "symbols" -> {<<>>, <<<<n1>>, <<w1, path1>>>>, <<<<n1>>>>}
    [] section = "memory" -> {<<>>, <<<<w1, sp, n1>>, <<w1, n1>>>>, <<<<sp>>>>}
    [] section = "docs" -> {<<>>, <<<<path1, w1, path2>>, <<w1, key1>>>>}
    [] section = "task" -> {<<>>, <<<<w1>>, <<n1, w1>>>>}
    [] section = "team" -> {<<>>, <<<<w1, w1, w1, n1>>>>}
Privacy(mode, forbidden, allowed) ==
  [mode |-> mode, forbidden |-> forbidden, noPaths |-> IF mode = "masked" THEN {path2} ELSE {}, allowed |-> allowed]
Wanted(limit, tokens, level, small, privacy) ==
  [limit |-> limit, tokens |-> tokens, level |-> level, small |-> small, privacy |-> privacy]
Unmasked == Privacy("none", {}, {})
ContextRequests ==
  {Wanted(2, t, v, FALSE, Unmasked) : t \in {0, 4, 6}, v \in {0, 2, 3, 4}}
  \cup {Wanted(0, 0, 0, TRUE, Unmasked)}
  \cup {Wanted(3, 0, 3, FALSE, p) :
          p \in {Privacy("full", {w1}, {}), Privacy("masked", {}, {path1}), Privacy("local_only", {}, {})}}
OneAlias(n) == n1x

-----------------------------------------------------------------------------
(* BranchReview: a function f, its caller g, a type T, and f's test.        *)

FLine(version) == <<"f", version>>
GLine == <<"g", 1>>
TestText == << <<"test_f", 1>> >>
ReviewTexts == (1 :> {<<FLine(1), GLine>>, <<FLine(2), GLine>>, <<FLine(1)>>, <<FLine(1), <<"T", 1>>, GLine>>})
               @@ (2 :> {TestText, Append(TestText, <<"h", 2>>)})
ReviewNames == <<"T", "f", "g", "h", "test_f">>
ReviewCalls == {<<"test_f", "f">>, <<"g", "f">>}
ReviewUses == {<<"g", "T">>}
ReviewTests == [n \in {ReviewNames[i] : i \in DOMAIN ReviewNames} |-> IF n = "f" THEN {"test_f"} ELSE {}]
ReviewDocs == <<{"f"}, {"T"}, {"g", "f"}>>
CommittedBy(line) == IF line[2] = 1 THEN "ann" ELSE "bob"
Authors == {"ann", "bob"}
ReviewRequests == {[base |-> "", limit |-> 2], [base |-> "main", limit |-> 1],
                   [base |-> "gone", limit |-> 1]}

FirstTree == (1 :> <<FLine(1), GLine>>) @@ (2 :> NoFile)
SecondTree == (1 :> <<FLine(1), GLine>>) @@ (2 :> TestText)
CommitOf(t) == [tree |-> t]
ReviewInit ==
  /\ \/ branch = <<CommitOf(FirstTree)>> /\ mainline \in {branch, <<>>, <<CommitOf(SecondTree)>>}
     \/ branch = <<CommitOf(FirstTree), CommitOf(SecondTree)>> /\ mainline = <<>>
  /\ staged = Tip(branch)
  /\ worktree \in {staged, SecondTree} /\ inIndex = SecondTree
  /\ review = Idle /\ calm = TRUE /\ changes = 0
ReviewNext ==
  \/ \E f \in File : \/ \E t \in TextsOf[f] \cup {NoFile} : EditFile(f, t)
                     \/ AddFile(f) \/ IndexFile(f)
  \/ CommitOnMain(1, <<FLine(2), GLine>>) \/ CommitStaged \/ Pull
  \/ \E r \in ReviewRequest : StartReview(r)
  \/ NameStatus \/ ReadHunks \/ Untracked \/ ChangedFunctions \/ ChangedTypes \/ StaleFiles
  \/ AnswerReview(Authors) \/ ReviewSuggestions({1}, 1, Authors)
  \/ CompactChangeIntelligence \/ Churn(1)

-----------------------------------------------------------------------------
(* EvidenceLog: a claim, its other spelling, and one that contradicts it.     *)

OneSpelling == [c \in {ca, cb, cd} |-> IF c = cb THEN ca ELSE c]
Opposed == {<<ca, cd>>}
SomeClaims == {[claim |-> c, conf |-> 5] : c \in {ca, cb, cd}} \cup {[claim |-> ca, conf |-> 10]}
SomeRivals == {[id |-> h1, claim |-> ca, conf |-> 5, finding |-> f1],
               [id |-> h1, claim |-> cd, conf |-> 10, finding |-> NoValue]}
SomeEvidence == {[text |-> f1, source |-> "manual", conf |-> 10], [text |-> f2, source |-> "tool", conf |-> 5]}

-----------------------------------------------------------------------------

VARIABLE part

answersVars == <<part, queryIndexVars, analysisVars, referenceVars, noteVars, contextVars,
                 repositoryVars, reviewVars, evidenceVars>>

AnswersInit ==
  /\ part \in {"index", "analyses", "references", "notes", "context", "repositories", "review",
              "evidence"}
  /\ QueryInit
  /\ part # "index" => stamp = 1
  /\ AnalysesInit
  /\ part # "analyses" => asked.op = "Layers" /\ edges = {}
  /\ ReferencesInit
  /\ part # "references" => Len(fileText) = 1 /\ indexed = NoText /\ ~imported
  /\ NotesInit
  /\ ContextInit
  /\ part # "context" => req.small
  /\ RepositoryInit
  /\ part # "repositories" => backend = "memory"
  /\ ReviewInit
  /\ part # "review" => branch = mainline /\ worktree = staged
  /\ EvidenceInit

AnswersNext ==
  \/ part = "index" /\ QueryNext
       /\ UNCHANGED <<part, analysisVars, referenceVars, noteVars, contextVars,
                      repositoryVars, reviewVars, evidenceVars>>
  \/ part = "analyses" /\ AnalysesNext
       /\ UNCHANGED <<part, queryIndexVars, referenceVars, noteVars, contextVars,
                      repositoryVars, reviewVars, evidenceVars>>
  \/ part = "references" /\ ReferencesNext
       /\ UNCHANGED <<part, queryIndexVars, analysisVars, noteVars, contextVars,
                      repositoryVars, reviewVars, evidenceVars>>
  \/ part = "notes" /\ NotesNext
       /\ UNCHANGED <<part, queryIndexVars, analysisVars, referenceVars, contextVars,
                      repositoryVars, reviewVars, evidenceVars>>
  \/ part = "context" /\ ContextNext
       /\ UNCHANGED <<part, queryIndexVars, analysisVars, referenceVars, noteVars,
                      repositoryVars, reviewVars, evidenceVars>>
  \/ part = "repositories" /\ RepositoryNext
       /\ UNCHANGED <<part, queryIndexVars, analysisVars, referenceVars, noteVars, contextVars,
                      reviewVars, evidenceVars>>
  \/ part = "review" /\ ReviewNext
       /\ UNCHANGED <<part, queryIndexVars, analysisVars, referenceVars, noteVars, contextVars,
                      repositoryVars, evidenceVars>>
  \/ part = "evidence" /\ EvidenceNext
       /\ UNCHANGED <<part, queryIndexVars, analysisVars, referenceVars, noteVars, contextVars,
                      repositoryVars, reviewVars>>
AnswersSpec == AnswersInit /\ [][AnswersNext]_answersVars

\* Nothing but the node cache itself depends on what is in it.
WithoutNodeCache ==
  <<part, fileVars, pc, seen, journal, cached, cstamp, gen, idVars, queryVars, analysisVars,
    referenceVars, noteVars, contextVars, repositoryVars, reviewVars, evidenceVars>>
=============================================================================
