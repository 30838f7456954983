--------------------------- MODULE ContextCompiler ---------------------------
(* ContextCompiler (internal/services/context.go): the context an agent gets     *)
(* with a question, from five sources, without repetitions, ranked, cut to a      *)
(* budget of tokens, and at last passed through the privacy firewall             *)
(* (internal/privacy/firewall.go, redactor.go, classifier.go).  A text is a       *)
(* sequence of words and a word costs a token.                                   *)
EXTENDS Integers, Sequences, FiniteSets
LOCAL INSTANCE SequencesExt

CONSTANTS
  Retrieved(_),    \* what the source of a section may find: sequences of texts
  Request,         \* requests: records with the fields of req below
  Blanks,          \* words of white space only
  QueryWord,       \* words of the question
  Secret, PathWord, Name,    \* secrets, absolute paths, names that have a pseudonym
  Alias(_),        \* pseudonyms
  Marker,          \* what the firewall puts in the place of what it hides
  snippetLen, smallSnippetLen, snippetLead,  \* 200, 120 and 40 characters in the code
  smallLimit, smallTokens,                   \* 6 and 1200
  itemOverhead,                              \* 20 tokens
  maxWords                                   \* the policy's MaxContextTokens

VARIABLES
  req,        \* limit, tokens (0: no budget), level, small, privacy (None or a policy)
  stage,      \* the next stage
  blocks,     \* sequence of [section, items]
  ranked,     \* the blocks as the budget finds them (history)
  compacted,  \* the items before they are ranked (history)
  wasCut,
  checklist

contextVars == <<req, stage, blocks, ranked, compacted, wasCut, checklist>>

Section == <<"symbols", "memory", "docs", "task", "team">>
Fewer(a, b) == IF a < b THEN a ELSE b
Greater(a, b) == IF a > b THEN a ELSE b
Items(bs) == FlattenSeq([i \in DOMAIN bs |-> bs[i].items])
Sorted(S, before(_, _)) ==
  [n \in 1..Cardinality(S) |-> CHOOSE p \in S : Cardinality({q \in S : before(q, p)}) = n - 1]
Filled(bs) == SelectSeq(bs, LAMBDA b : b.items # <<>>)

-----------------------------------------------------------------------------
(* Sources.                                                                  *)

\* Compile's defaults.
Normalized(r) ==
  LET level == IF r.level \in 0..5 THEN r.level ELSE 1
      limit == IF r.limit <= 0 THEN 10 ELSE r.limit
  IN  IF ~ r.small THEN [r EXCEPT !.level = level, !.limit = limit]
      ELSE [r EXCEPT !.level = Greater(level, 2), !.limit = Fewer(limit, smallLimit),
                     !.tokens = IF @ <= 0 THEN smallTokens ELSE @]

\* snippet: a window around the first word of the question.
Window(text, len) ==
  LET hits == {i \in DOMAIN text : text[i] \in QueryWord}
      hit == IF hits = {} THEN 1 ELSE CHOOSE i \in hits : \A j \in hits : i <= j
      start == Greater(1, hit - snippetLead)
  IN  IF Len(text) <= len THEN text
      ELSE SubSeq(text, start, Fewer(Len(text), start + len - 1))
Excerpt(section, text) ==
  IF req.level >= 2 /\ section \in {"memory", "docs", "team"}
  THEN Window(text, IF req.small THEN smallSnippetLen ELSE snippetLen) ELSE text

\* symbolItems, memoryItems, docItems, taskItems, teamItems.  Only symbols have a score,
\* which falls with their rank (in tenths here).
Item(section, texts, i) ==
  [kind |-> section, text |-> Excerpt(section, texts[i]),
   score |-> IF section = "symbols" THEN (10 * (Len(texts) - i + 1)) \div Len(texts) ELSE 0]

NextSection == Section[stage]
Collect ==
  /\ stage \in DOMAIN Section
  /\ \E texts \in Retrieved(NextSection) :
       /\ NextSection # "task" => Len(texts) <= req.limit
       /\ blocks' = IF texts = <<>> THEN blocks
                    ELSE Append(blocks, [section |-> NextSection,
                                         items |-> [i \in DOMAIN texts |-> Item(NextSection, texts, i)]])
  /\ stage' = stage + 1
  /\ UNCHANGED <<req, ranked, compacted, wasCut, checklist>>

-----------------------------------------------------------------------------
(* Compression, ranking, budget.                                             *)

\* compactBlocks: white space goes, and so does the evidence that was there before.
Words(item) == [item EXCEPT !.text = SelectSeq(@, LAMBDA w : w \notin Blanks)]
Same(a, b) == a.kind = b.kind /\ a.text = b.text
compactBlocks(bs) ==
  LET worded == [i \in DOMAIN bs |-> [j \in DOMAIN bs[i].items |-> Words(bs[i].items[j])]]
      earlier(i, j) == UNION {Range(worded[k]) : k \in 1..(i - 1)} \cup {worded[i][l] : l \in 1..(j - 1)}
      kept(i) == {j \in DOMAIN worded[i] : /\ worded[i][j].text # <<>>
                                           /\ \A o \in earlier(i, j) : ~ Same(o, worded[i][j])}
      items(i) == LET js == Sorted(kept(i), LAMBDA a, b : a < b)
                  IN  [n \in DOMAIN js |-> worded[i][js[n]]]
  IN  Filled([i \in DOMAIN bs |-> [bs[i] EXCEPT !.items = items(i)]])
Compact ==
  /\ stage = 6
  /\ blocks' = IF req.level >= 2 THEN compactBlocks(blocks) ELSE blocks
  /\ compacted' = Items(blocks')
  /\ stage' = 7
  /\ UNCHANGED <<req, ranked, wasCut, checklist>>

\* rankBlocks: the limit best of all sections, equal ones in the order they came.
Scored(item) == [item EXCEPT !.score = IF @ = 0 THEN 1 ELSE @]
\* Mutant: every section keeps its limit best.
rankEachBlock(bs, limit) ==
  LET places == UNION {{<<i, j>> : j \in DOMAIN bs[i].items} : i \in DOMAIN bs}
      item(p) == Scored(bs[p[1]].items[p[2]])
      InFront(p, q) == \/ item(p).score > item(q).score
                       \/ item(p).score = item(q).score /\ p[1] < q[1]
                       \/ item(p).score = item(q).score /\ p[1] = q[1] /\ p[2] < q[2]
      order == Sorted(places, InFront)
      top(i) == SelectSeq(order, LAMBDA p : p[1] = i)
      of(i) == SubSeq(top(i), 1, Fewer(limit, Len(top(i))))
  IN  Filled([i \in DOMAIN bs |-> [bs[i] EXCEPT !.items = [n \in DOMAIN of(i) |-> item(of(i)[n])]]])

rankBlocks(bs, limit) ==
  LET places == UNION {{<<i, j>> : j \in DOMAIN bs[i].items} : i \in DOMAIN bs}
      item(p) == Scored(bs[p[1]].items[p[2]])
      InFront(p, q) == \/ item(p).score > item(q).score
                       \/ item(p).score = item(q).score /\ p[1] < q[1]
                       \/ item(p).score = item(q).score /\ p[1] = q[1] /\ p[2] < q[2]
      order == Sorted(places, InFront)
      top == SubSeq(order, 1, Fewer(limit, Len(order)))
      of(i) == SelectSeq(top, LAMBDA p : p[1] = i)
  IN  Filled([i \in DOMAIN bs |-> [bs[i] EXCEPT !.items = [n \in DOMAIN of(i) |-> item(of(i)[n])]]])
Rank ==
  /\ stage = 7
  /\ blocks' = IF req.level >= 3 THEN rankBlocks(blocks, req.limit) ELSE blocks
  /\ stage' = 8
  /\ UNCHANGED <<req, ranked, compacted, wasCut, checklist>>

\* diffAware: RecentlyChanged asserts the rows of PrContext to a type that they do
\* not have and finds no file, so no score is raised.
diffAware ==
  /\ stage = 8
  /\ ranked' = blocks /\ stage' = 9
  /\ UNCHANGED <<req, blocks, compacted, wasCut, checklist>>

\* applyBudget stops at the first item that does not fit.
CostOf(item) == Len(item.text) + itemOverhead
CostUpTo(items, n) == LET c[i \in 0..n] == IF i = 0 THEN 0 ELSE c[i - 1] + CostOf(items[i]) IN c[n]
applyBudget(bs, tokens) ==
  LET all == Items(bs)
      fit == CHOOSE n \in 0..Len(all) : /\ CostUpTo(all, n) <= tokens
                                        /\ n = Len(all) \/ CostUpTo(all, n + 1) > tokens
      above(i) == Len(Items(SubSeq(bs, 1, i - 1)))
  IN  [blocks |-> Filled([i \in DOMAIN bs |->
                    [bs[i] EXCEPT !.items = SubSeq(@, 1, Fewer(Len(@), fit - above(i)))]]),
       wasCut |-> fit < Len(all)]
Budget ==
  /\ stage = 9
  /\ LET cut == applyBudget(blocks, req.tokens)
     IN  /\ blocks' = IF req.tokens > 0 THEN cut.blocks ELSE blocks
         /\ wasCut' = (req.tokens > 0 /\ cut.wasCut)
  /\ stage' = 10
  /\ UNCHANGED <<req, ranked, compacted, checklist>>

\* buildChecklist
Check ==
  /\ stage = 10
  /\ checklist' = IF req.level < 1 THEN {}
                  ELSE {c \in {"no symbols", "no task", "use level 5"} :
                          CASE c = "no symbols" -> \A b \in Range(blocks) : b.section # "symbols"
                            [] c = "no task" -> \A b \in Range(blocks) : b.section # "task"
                            [] OTHER -> req.level < 5}
  /\ stage' = IF req.privacy.mode = "none" THEN 12 ELSE 11
  /\ UNCHANGED <<req, blocks, ranked, compacted, wasCut>>

-----------------------------------------------------------------------------
(* The firewall.                                                             *)

\* Redact: paths are hidden, unless the text begins with one that is allowed.
\* IsPathForbidden and IsPathAllowed ask how the whole text begins.
Begins(text, words) == text # <<>> /\ Head(text) \in words
Hidden(text, policy) ==
  LET show == Begins(text, policy.allowed) /\ ~ Begins(text, policy.noPaths)
      open == [i \in DOMAIN text |-> IF text[i] \in PathWord /\ ~ show THEN Marker ELSE text[i]]
  IN  IF policy.mode # "masked" THEN open
      ELSE [i \in DOMAIN open |-> IF open[i] \in Name THEN Alias(open[i]) ELSE open[i]]

\* SanitizeContext, then what applyPrivacy makes of a text that is not allowed.
Sanitized(text, policy) ==
  IF \/ policy.mode = "local_only" \/ Range(text) \cap Secret # {}
     \/ Range(text) \cap policy.forbidden # {} \/ Begins(text, policy.noPaths)
  THEN <<Marker>>
  ELSE SubSeq(Hidden(text, policy), 1, Fewer(Len(text), maxWords))

Each(bs, f(_)) == [i \in DOMAIN bs |-> [bs[i] EXCEPT !.items = [j \in DOMAIN @ |-> f(@[j])]]]
applyPrivacy ==
  /\ stage = 11
  /\ blocks' = Each(blocks, LAMBDA item : [item EXCEPT !.text = Sanitized(@, req.privacy)])
  /\ stage' = 12
  /\ UNCHANGED <<req, ranked, compacted, wasCut, checklist>>

-----------------------------------------------------------------------------

ContextInit ==
  /\ \E r \in Request : req = Normalized(r)
  /\ stage = 1 /\ blocks = <<>> /\ ranked = <<>> /\ compacted = <<>>
  /\ wasCut = FALSE /\ checklist = {}

ContextNext == Collect \/ Compact \/ Rank \/ diffAware \/ Budget \/ Check \/ applyPrivacy
ContextSpec == ContextInit /\ [][ContextNext]_contextVars

Plain(item) == <<item.kind, item.text>>
SectionNumber(kind) == CHOOSE n \in DOMAIN Section : Section[n] = kind
Rating(item) == Scored(item).score

\* The context compiled holds no evidence twice, at most as much as was asked for and nothing
\* that scores lower than what was dropped; it is the beginning of what was ranked, as long as
\* the budget lets it be, and says so when it is cut; it is in the order of the sections; and
\* after the firewall no text has a secret or a forbidden name (ContextCompiler.Compile).
ContextSound ==
  LET items == Items(blocks)  all == Items(ranked)
      before == Range([i \in DOMAIN compacted |-> Plain(compacted[i])])
      kept == {Plain(all[i]) : i \in DOMAIN all}
  IN  stage = 12 =>
        /\ req.level >= 2 => /\ IsInjective([i \in DOMAIN compacted |-> Plain(compacted[i])])
                             /\ kept \subseteq before
        /\ req.level >= 3 =>
             /\ Len(all) = Fewer(req.limit, Len(compacted))
             /\ \A i, j \in DOMAIN compacted :
                  Plain(compacted[i]) \in kept /\ Rating(compacted[j]) > Rating(compacted[i])
                    => Plain(compacted[j]) \in kept
        /\ wasCut <=> Len(items) < Len(all)
        /\ req.tokens > 0 => /\ CostUpTo(all, Len(items)) <= req.tokens
                             /\ wasCut => CostUpTo(all, Len(items) + 1) > req.tokens
        /\ \A i \in DOMAIN items : items[i].kind = all[i].kind /\ items[i].score = all[i].score
        /\ \A i, j \in DOMAIN items : i < j => SectionNumber(items[i].kind) <= SectionNumber(items[j].kind)
        /\ req.privacy.mode # "none" =>
             \A i \in DOMAIN items :
               /\ Range(items[i].text) \cap (Secret \cup req.privacy.forbidden) = {}
               /\ req.privacy.mode = "masked" => Range(items[i].text) \cap Name = {}
=============================================================================
