---------------------------- MODULE BranchReview ----------------------------
(***************************************************************************)
(* The review of a branch (internal/services/git.go): PrContext asks git   *)
(* for the merge base, the changed files, the hunks and the untracked      *)
(* files, one command after the other, then reads the index for the        *)
(* symbols those lines touch, and last compares the hashes to say whether  *)
(* the index was stale.  Users edit, stage, commit and pull meanwhile, and *)
(* files are indexed.  A text is a sequence of lines <<name, version>>, a  *)
(* symbol the lines of its name; a hash is the text; a path is a number,   *)
(* in git's order.  Git itself is modelled from what the commands print.   *)
(***************************************************************************)
EXTENDS Naturals, Sequences, FiniteSets
LOCAL INSTANCE FiniteSetsExt
LOCAL INSTANCE SequencesExt

CONSTANTS File, TextsOf,   \* TextsOf[f]: the texts file f can have
          NoFile,          \* no such file
          NameOrder,       \* the symbol names, in the order of the alphabet
          TypeName,        \* the names that are types, the others are functions
          TestName,        \* the names that begin with "test"
          Calls, Uses,     \* the edges between names, when both are indexed
          TestsOf,         \* TestsOf[n]: the names of test code that contain n
          GeneratedFile,
          DocSection,      \* the document sections: the names each mentions
          AuthorOf(_),     \* AuthorOf(line): who committed the line
          ReviewRequest,   \* the reviews asked for: [base, limit]
          MaxChanges,      \* bound: what users, git and the indexer do
          highFanIn, highImpact, manyUsers, maxDocsToReview, maxBlamed

VARIABLES
  branch,     \* HEAD: its commits [tree], oldest first
  mainline,   \* the base branch, <<>> if there is none
  staged,     \* git's index: a tree
  worktree,   \* the files on disk
  inIndex,    \* inIndex[f]: the text f was indexed with
  review,     \* the call that runs, or the last answer
  calm,       \* history: nothing the review had read was changed under it
  changes     \* clock

projectVars == <<branch, mainline, staged, worktree, inIndex>>
reviewVars == <<branch, mainline, staged, worktree, inIndex, review, calm, changes>>

Idle == [stage |-> "idle"]
Tip(log) == Last(log).tree
NameRank(n) == CHOOSE i \in DOMAIN NameOrder : NameOrder[i] = n
Smaller(a, b) == IF a < b THEN a ELSE b

\* The symbols of a text, with their first and last lines.
LinesOf(text, n) == {i \in DOMAIN text : text[i][1] = n}
Symbols(f) == IF inIndex[f] = NoFile THEN {}
              ELSE {[file |-> f, name |-> l[1], first |-> Min(LinesOf(inIndex[f], l[1])),
                     last |-> Max(LinesOf(inIndex[f], l[1]))] : l \in Range(inIndex[f])}
IndexedNames == {s.name : s \in UNION {Symbols(f) : f \in File}}

(* ------------------------------- git ---------------------------------- *)
Shared(a, b) == Max({k \in 0..Smaller(Len(a), Len(b)) : SubSeq(a, 1, k) = SubSeq(b, 1, k)})
RefLog(ref) == CASE ref = "main" -> mainline [] ref = "HEAD~1" -> Front(branch) [] OTHER -> <<>>
Tracked(f) == IF staged[f] = NoFile THEN NoFile ELSE worktree[f]

\* Unified diff without context: the new side of each hunk, start and count.
Hunks(old, new) ==
  LET fresh == {i \in DOMAIN new : new[i] \notin Range(old)}
      kept(l) == Max({0} \cup {i \in DOMAIN new : \E j, k \in DOMAIN old :
                                  old[j] = new[i] /\ old[k] = l /\ j < k})
  IN  {[start |-> a, count |-> b + 1 - a] : <<a, b>> \in
          {<<a, b>> \in fresh \X fresh : a <= b /\ a..b \subseteq fresh /\ {a - 1, b + 1} \cap fresh = {}}}
      \cup {[start |-> kept(l), count |-> 0] : l \in {l \in Range(old) \ Range(new) : kept(l) + 1 \notin fresh}}

(* ---------------------- what happens meanwhile ------------------------ *)
Reading == review.stage \notin {"idle", "answered", "summary", "churn", "owners"}
Bounded == changes < MaxChanges /\ changes' = changes + 1
\* An answer is read before the project changes again.
Go == review' = IF Reading THEN review ELSE Idle
Unsettled == calm' = FALSE /\ Go

EditFile(f, text) ==
  /\ Bounded /\ worktree[f] # text
  /\ worktree' = [worktree EXCEPT ![f] = text]
  /\ Unsettled
  /\ UNCHANGED <<branch, mainline, staged, inIndex>>

AddFile(f) ==
  /\ Bounded /\ staged[f] # worktree[f]
  /\ staged' = [staged EXCEPT ![f] = worktree[f]]
  /\ Unsettled
  /\ UNCHANGED <<branch, mainline, worktree, inIndex>>

CommitStaged ==
  /\ Bounded /\ staged # Tip(branch)
  /\ branch' = Append(branch, [tree |-> staged])
  /\ Go /\ UNCHANGED <<mainline, staged, worktree, inIndex, calm>>

\* The base branch moves on; a base without common history is read by name.
CommitOnMain(f, text) ==
  /\ Bounded /\ mainline # <<>> /\ Tip(mainline)[f] # text
  /\ mainline' = Append(mainline, [tree |-> [Tip(mainline) EXCEPT ![f] = text]])
  /\ calm' = (calm /\ (Reading => review.mb # <<>>))
  /\ Go /\ UNCHANGED <<branch, staged, worktree, inIndex>>

\* git pull: fast-forward, refused over a changed file.
Pull ==
  LET moved == {f \in File : Tip(branch)[f] # Tip(mainline)[f]}
  IN  /\ Bounded /\ IsStrictPrefix(branch, mainline)
      /\ \A f \in moved : staged[f] = Tip(branch)[f] /\ worktree[f] = Tip(branch)[f]
      /\ branch' = mainline
      /\ staged' = [f \in File |-> IF f \in moved THEN Tip(mainline)[f] ELSE staged[f]]
      /\ worktree' = [f \in File |-> IF f \in moved THEN Tip(mainline)[f] ELSE worktree[f]]
      /\ Unsettled
      /\ UNCHANGED <<mainline, inIndex>>

\* A file is indexed again: harmful only between the symbols and the hashes.
IndexFile(f) ==
  /\ Bounded /\ inIndex[f] # worktree[f]
  /\ inIndex' = [inIndex EXCEPT ![f] = worktree[f]]
  /\ calm' = (calm /\ review.stage \notin {"types", "stale"})
  /\ Go /\ UNCHANGED <<branch, mainline, staged, worktree>>

(* ------------------------------ PrContext ----------------------------- *)
Keep == UNCHANGED <<projectVars, calm, changes>>
AtStage(s) == review.stage = s
BaseRefs(base) == IF base = "" THEN <<"main", "HEAD~1">> ELSE <<base>>

\* resolveBase and merge-base.
StartReview(ask) ==
  LET refs == SelectSeq(BaseRefs(ask.base), LAMBDA r : RefLog(r) # <<>>)
  IN  /\ ~Reading
      /\ IF refs = <<>> THEN review' = Idle
         ELSE review' = [stage |-> "status", limit |-> ask.limit, ref |-> Head(refs),
                         mb |-> SubSeq(branch, 1, Shared(branch, RefLog(Head(refs))))]
      /\ calm' = TRUE
      /\ UNCHANGED <<projectVars, changes>>

MergeBase == Tip(IF review.mb = <<>> THEN RefLog(review.ref) ELSE review.mb)

NameStatus ==
  /\ AtStage("status")
  /\ LET differ == {f \in File : Tracked(f) # MergeBase[f]}
         status(f) == CASE MergeBase[f] = NoFile -> "A" [] Tracked(f) = NoFile -> "D" [] OTHER -> "M"
     IN  review' = [stage |-> "hunks", rows |-> {<<f, status(f)>> : f \in differ}] @@ review
  /\ Keep

\* parseHunks: a pure deletion is the line after which it happened.
parseHunks(headers) ==
  {<<h.start, IF h.count = 0 THEN h.start ELSE h.start + h.count - 1>> : h \in headers}
ReadHunks ==
  /\ AtStage("hunks")
  /\ LET diffed == {f \in File : Tracked(f) \notin {MergeBase[f], NoFile}}
         old(f) == IF MergeBase[f] = NoFile THEN <<>> ELSE MergeBase[f]
     IN  review' = [stage |-> "untracked",
                    hunks |-> [f \in diffed |-> parseHunks(Hunks(old(f), worktree[f]))]] @@ review
  /\ Keep

\* ls-files --others, and how far the branch and its base are ahead.
Untracked ==
  /\ AtStage("untracked")
  /\ LET others == {f \in File : staged[f] = NoFile /\ worktree[f] # NoFile}
         added == {r[1] : r \in {r \in review.rows : r[2] = "A"}}
     IN  review' = [stage |-> "functions", whole |-> added \cup others,
                    rows |-> review.rows \cup {<<f, "?">> : f \in others},
                    ahead |-> Len(branch) - Shared(branch, review.mb),
                    moved |-> Len(RefLog(review.ref)) - Shared(branch, RefLog(review.ref))] @@ review
  /\ Keep

overlaps(ranges, first, last) == \E r \in ranges : r[1] <= last /\ first <= r[2]
Touched(s) == \/ s.file \in review.whole
              \/ s.file \in DOMAIN review.hunks /\ overlaps(review.hunks[s.file], s.first, s.last)
TouchedSymbols(names) == {s \in UNION {Symbols(f) : f \in File} : s.name \in names /\ Touched(s)}

CallersOf(n) == {m \in IndexedNames : <<m, n>> \in Calls}
ImpactOf(n) == (CallersOf(n) \cup UNION {CallersOf(m) : m \in CallersOf(n)}) \ {n}
RelatedTests(n) == TestsOf[n] \cap IndexedNames

\* Rows sorted by what they impact, then by name, and cut at the limit.
FirstRows(names, limit) ==
  LET Outranks(m, n) == \/ Cardinality(ImpactOf(m)) > Cardinality(ImpactOf(n))
                        \/ Cardinality(ImpactOf(m)) = Cardinality(ImpactOf(n)) /\ NameRank(m) < NameRank(n)
  IN  {n \in names : Cardinality({m \in names : Outranks(m, n)}) < limit}

ChangedFunctions ==
  /\ AtStage("functions")
  /\ LET hit == TouchedSymbols(Range(NameOrder) \ TypeName)
         names == {s.name : s \in hit}
         generated == {s \in hit : s.file \in GeneratedFile}
     IN  review' = [stage |-> "types", allFunctions |-> names,
                    functions |-> FirstRows(names, review.limit),
                    generated |-> {s.file : s \in generated},
                    untested |-> {s.name : s \in {s \in hit \ generated :
                                     RelatedTests(s.name) = {} /\ s.name \notin TestName}},
                    fanIn |-> {n \in names : Cardinality(CallersOf(n)) >= highFanIn},
                    wide |-> {n \in names : Cardinality(ImpactOf(n)) >= highImpact}] @@ review
  /\ Keep

ChangedTypes ==
  /\ AtStage("types")
  /\ LET names == {s.name : s \in TouchedSymbols(TypeName)}
         users(n) == {m \in IndexedNames : <<m, n>> \in Uses}
     IN  review' = [stage |-> "stale", types |-> names,
                    api |-> {n \in names : Cardinality(users(n)) >= manyUsers}] @@ review
  /\ Keep

\* Mutant: the hashes of added and untracked files are not compared.
StaleFilesOfHunks ==
  /\ AtStage("stale")
  /\ LET known == {f \in File : inIndex[f] # NoFile}
         compared == known \cap DOMAIN review.hunks
     IN  review' = [stage |-> "hints",
                    stale |-> {f \in compared : worktree[f] \notin {NoFile, inIndex[f]}},
                    generated |-> review.generated \cup (compared \cap GeneratedFile),
                    notIndexed |-> {r \in review.rows : r[2] # "D" /\ r[1] \notin known}] @@ review
  /\ Keep

\* The hashes: which of the changed files were not indexed as they are.
StaleFiles ==
  /\ AtStage("stale")
  /\ LET known == {f \in File : inIndex[f] # NoFile}
         compared == known \cap (DOMAIN review.hunks \cup review.whole)
     IN  review' = [stage |-> "hints",
                    stale |-> {f \in compared : worktree[f] \notin {NoFile, inIndex[f]}},
                    generated |-> review.generated \cup (compared \cap GeneratedFile),
                    notIndexed |-> {r \in review.rows : r[2] # "D" /\ r[1] \notin known}] @@ review
  /\ Keep

riskLevel(functions, untested, fanIn, wide, stale) ==
  LET score == (IF functions > 25 THEN 2 ELSE Smaller(functions, 1))
               + 2 * Smaller(fanIn, 2) + 2 * Smaller(wide, 2) + Smaller(untested, 3)
               + (IF stale > 0 THEN 1 ELSE 0)
  IN  IF score >= 6 THEN "high" ELSE IF score >= 2 THEN "medium" ELSE "low"

\* docsMentioning: the first sections that name a changed symbol.
Mentioning(names) ==
  LET hits == SelectSeq(DocSection, LAMBDA section : section \cap names # {})
  IN  SubSeq(hits, 1, Smaller(Len(hits), maxDocsToReview))

\* BlameAuthors: the committed lines of the files, by author; equals in any order.
Blamed(files, author) ==
  Cardinality({<<f, i>> \in files \X (1..10) : /\ worktree[f] # NoFile /\ Tip(branch)[f] # NoFile
                                               /\ i \in DOMAIN worktree[f]
                                               /\ worktree[f][i] \in Range(Tip(branch)[f])
                                               /\ AuthorOf(worktree[f][i]) = author})
Owners(files, authors, limit, top) ==
  LET owning == {a \in authors : Blamed(files, a) > 0}
  IN  /\ top \subseteq owning /\ Cardinality(top) = Smaller(limit, Cardinality(owning))
      /\ \A a \in top, b \in owning \ top : Blamed(files, a) >= Blamed(files, b)
FirstFiles(files) == {f \in files : Cardinality({g \in files : g < f}) < maxBlamed}

AnswerReview(authors) ==
  /\ AtStage("hints")
  /\ \E top \in SUBSET authors :
       /\ Owners(FirstFiles(review.whole \cup DOMAIN review.hunks), authors, review.limit, top)
       /\ review' = [stage |-> "answered", reviewers |-> top,
                     risk |-> riskLevel(Cardinality(review.allFunctions), Cardinality(review.untested),
                                        Cardinality(review.fanIn), Cardinality(review.wide),
                                        Cardinality(review.stale)),
                     docs |-> Mentioning(review.allFunctions \cup review.types)] @@ review
  /\ Keep
(* ---------------------- the other git answers ------------------------- *)
Answer(reply) == /\ ~Reading
                 /\ review' = reply
                 /\ UNCHANGED <<projectVars, calm, changes>>

\* ReviewSuggestions: with no files named, nothing is blamed.
ReviewSuggestions(files, limit, authors) ==
  \E top \in SUBSET authors :
    Owners(files, authors, limit, top) /\ Answer([stage |-> "owners", reviewers |-> top])

\* git status --porcelain of the tracked files; untracked ones are skipped.
StatusRows ==
  LET head == Tip(branch)
      Differs(old, new) == CASE old = NoFile -> "A" [] new = NoFile -> "D" [] OTHER -> "M"
      x(f) == IF staged[f] = head[f] THEN " " ELSE Differs(head[f], staged[f])
      y(f) == IF staged[f] \in {NoFile, worktree[f]} THEN " " ELSE Differs(staged[f], worktree[f])
  IN  {row \in {[x |-> x(f), y |-> y(f), path |-> f] : f \in File} : <<row.x, row.y>> # <<" ", " ">>}

\* The output is trimmed as a whole: a first row that begins with a blank
\* loses it, its columns shift and its path loses the first letter (0).
Trimmed(lines) ==
  {IF row.x = " " /\ \A other \in lines : row.path <= other.path
   THEN [x |-> row.y, y |-> " ", path |-> 0] ELSE row : row \in lines}

CompactChangeIntelligence ==
  LET lines == Trimmed(StatusRows)
      named(row) == IF row.path = 0 THEN {}
                    ELSE IF row.x = "A" /\ inIndex[row.path] # NoFile THEN {<<row.path, "whole file">>}
                    ELSE {<<row.path, s.name>> : s \in Symbols(row.path)}
      modified == Cardinality({row \in lines : row.x \notin {"A", "D"}})
  IN  Answer([stage |-> "summary", rows |-> lines, symbols |-> UNION {named(row) : row \in lines},
              risk |-> IF modified > 10 THEN "high" ELSE IF modified > 3 THEN "medium"
                      ELSE riskLevel(Cardinality(lines), 0, 0, 0, 0)])

\* Churn: git log --numstat, summed up by file; the busiest files first.
TextLines(text) == IF text = NoFile THEN {} ELSE Range(text)
Lines(i, f) == IF i = 0 THEN {} ELSE TextLines(branch[i].tree[f])
Sum(f, count(_)) == FoldSet(LAMBDA i, total : total + Cardinality(count(i)), 0, DOMAIN branch)
ChurnRow(f) == [path |-> f, added |-> Sum(f, LAMBDA i : Lines(i, f) \ Lines(i - 1, f)),
                deleted |-> Sum(f, LAMBDA i : Lines(i - 1, f) \ Lines(i, f)),
                commits |-> Cardinality({i \in DOMAIN branch : Lines(i, f) # Lines(i - 1, f)})]
Churn(limit) ==
  LET busy == {row \in {ChurnRow(f) : f \in File} : row.commits > 0}
      total(row) == row.added + row.deleted
  IN  \E top \in SUBSET busy :
        /\ Cardinality(top) = Smaller(limit, Cardinality(busy))
        /\ \A a \in top, b \in busy \ top : total(a) >= total(b)
        /\ Answer([stage |-> "churn", rows |-> top])

(* ----------------------------- properties ----------------------------- *)
\* A review that reports neither stale nor missing files names the symbols
\* this branch wrote: all of them, and beyond them only what stands beside
\* deleted lines.  It holds while nobody writes what the review has read.
Was(f) == IF MergeBase[f] = NoFile THEN <<>> ELSE MergeBase[f]
Written == {l[1] : l \in UNION {IF staged[f] = NoFile THEN TextLines(worktree[f])
                                ELSE TextLines(worktree[f]) \ Range(Was(f)) : f \in File}}
Beside == {l[1] : l \in UNION {{Was(f)[j] : j \in {j \in 1..Len(Was(f)) - 1 :
                                   Was(f)[j + 1] \notin TextLines(worktree[f])}} : f \in File}}
BranchSound ==
  review.stage = "answered" /\ calm /\ review.stale = {} /\ review.notIndexed = {} =>
    LET named == review.allFunctions \cup review.types
    IN  Written \subseteq named /\ named \subseteq Written \cup Beside

\* The summary lists each tracked file that differs from HEAD, but a first
\* one that is not staged.
SummarySound ==
  review.stage = "summary" =>
    LET changed == {f \in File : \/ staged[f] # Tip(branch)[f]
                                 \/ staged[f] # NoFile /\ worktree[f] # staged[f]}
    IN  /\ {row.path : row \in review.rows} \subseteq changed \cup {0}
        /\ \A f \in changed : f = Min(changed) \/ f \in {row.path : row \in review.rows}

\* The counts of a file add up to its lines at HEAD.
ChurnSound ==
  review.stage = "churn" =>
    \A row \in review.rows :
      row.added = row.deleted + Cardinality(TextLines(Tip(branch)[row.path]))

\* What the git tools answer is true of the branch when the answer comes
\* (git.go: PrContext, CompactChangeIntelligence, Churn).
ReviewSound == BranchSound /\ SummarySound /\ ChurnSound
=============================================================================
