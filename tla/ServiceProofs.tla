--------------------------- MODULE ServiceProofs ----------------------------
(***************************************************************************)
(* Smaller services: pages of a ranked result, references that clients     *)
(* keep, the other repositories, the update of the installed program, the  *)
(* notes an agent is reminded of, the graphify pass, and the user's own    *)
(* files, where what he has put survives codergag's commands.              *)
(***************************************************************************)
EXTENDS Paging, References, Repositories, SelfUpdate, AgentNotes, Graphify, UserFiles,
        FoldProofs, SequenceTheorems, FiniteSetTheorems, WellFoundedInduction, TLAPS

-----------------------------------------------------------------------------
(***************************************************************************)
(* Pages.  The pages so far are the first rows, and only the last page     *)
(* says that it is the last one.                                           *)
(***************************************************************************)
USE PagingAssumption

\* The pages so far are the first rows, and only the last page says that it is the last.
PagingInv ==
  /\ ranked \in Seq(Nat) /\ offset \in 0..Len(ranked)
  /\ hasMore \in BOOLEAN
  /\ PagesCoverRows

LEMMA GreatestPlace ==
  ASSUME NEW n \in Nat, NEW S \in SUBSET (0..n), S # {}
  PROVE  \E m \in S : \A i \in S : i <= m
<1>. DEFINE T == {n - i : i \in S}
<1>0. \A i \in S : i \in Nat /\ n - i \in Nat OBVIOUS
<1>1. T \subseteq Nat /\ T # {} BY <1>0
<1>. HIDE DEF T
<1>2. \E m \in T : \A j \in T : ~ (<<j, m>> \in OpToRel(<, Nat))
  BY <1>1, WFMin, NatLessThanWellFounded
<1>3. PICK m \in T : \A j \in T : ~ (<<j, m>> \in OpToRel(<, Nat))
  BY <1>2
<1>4. \A j \in T : ~ (j < m)
  BY <1>1, <1>3 DEF OpToRel
<1>5. PICK k \in S : m = n - k BY DEF T
<1>6. \A i \in S : ~ (n - i < n - k) BY <1>4, <1>5 DEF T
<1>7. \A i \in S : i <= k BY <1>0, <1>6
<1>8. QED BY <1>7

\* A page is never cut to nothing.
LEMMA FitsBounds ==
  ASSUME NEW page, Len(page) \in Nat, page # <<>> => Len(page) > 0, NEW budget
  PROVE  /\ Fits(page, budget) \in 0..Len(page)
         /\ page # <<>> => Fits(page, budget) >= 1
<1>. DEFINE spent[i \in 0..Len(page)] == IF i = 0 THEN 0 ELSE spent[i - 1] + page[i]
            enough == {1} \cup {i \in 1..Len(page) : spent[i] <= budget}
<1>1. CASE budget <= 0 \/ page = <<>>
  BY <1>1 DEF Fits
<1>2. CASE ~ (budget <= 0 \/ page = <<>>)
  <2>1. Fits(page, budget) = CHOOSE k \in enough : \A i \in enough : i <= k
    BY <1>2 DEF Fits
  <2>2. enough \in SUBSET (0..Len(page)) /\ enough # {} /\ \A k \in enough : k >= 1
    <3>1. Len(page) > 0 BY <1>2
    <3>. HIDE DEF spent
    <3>2. QED BY <3>1
  <2>. HIDE DEF enough, spent
  <2>3. \E k \in enough : \A i \in enough : i <= k
    BY <2>2, GreatestPlace
  <2>4. Fits(page, budget) \in enough
    BY <2>1, <2>3
  <2>5. QED BY <2>2, <2>4
<1>3. QED BY <1>1, <1>2

LEMMA PagingStarts == PagingInit => PagingInv
<1>. SUFFICES ASSUME PagingInit PROVE PagingInv OBVIOUS
<1>1. PICK n \in 0..MaxRows : ranked \in [1..n -> 1..MaxCost] BY DEF PagingInit
<1>2. ranked \in Seq(Nat)
  <2>1. n \in Nat /\ ranked \in [1..n -> Nat] BY <1>1
  <2>2. QED BY <2>1, SeqDef
<1>3. pages = [i \in 1..0 |-> i] BY DEF PagingInit
<1>4. QED BY <1>2, <1>3 DEF PagingInit, PagingInv, PagesCoverRows

\* k rows of a page of p, which ends in a list of l, of r in all.
LEMMA PageArithmetic ==
  ASSUME NEW n \in Nat \ {0}, NEW o \in Nat, NEW r \in Nat, NEW l, NEW p, NEW k \in Nat, o <= r,
         l = IF o + n + 1 <= r THEN o + n + 1 ELSE r,
         p = IF o + n <= l THEN n ELSE l - o, k <= p
  PROVE  /\ o + k \in 0..r
         /\ ~ (k < p \/ l > o + n) => o + k = r
         /\ k < p \/ l > o + n => o + k < r
OBVIOUS

LEMMA RestLength ==
  ASSUME NEW i \in Nat, NEW l \in Nat, i <= l, NEW m, m = i + 1
  PROVE  (IF m <= l THEN l - m + 1 ELSE 0) = l - i
OBVIOUS

LEMMA PagingStep == PagingInv /\ [PagingNext]_pagingVars => PagingInv'
<1>. SUFFICES ASSUME PagingInv, [PagingNext]_pagingVars PROVE PagingInv' OBVIOUS
<1>1. CASE UNCHANGED pagingVars BY <1>1 DEF pagingVars, PagingInv, PagesCoverRows
<1>2. ASSUME NEW limit \in 0..(MaxLimit + 1), NEW budget \in 0..MaxBudget, callPaginated(limit, budget)
      PROVE  PagingInv'
  <2>. DEFINE n == limitOf(limit, FALSE)
              list == Fetched(offset + n + 1)
              start == Lesser(offset, Len(list))
              page == SubSeq(list, start + 1, Lesser(offset + n, Len(list)))
              kept == Fits(page, budget)
              got == [i \in 1..kept |-> start + i]
  <2>1. /\ hasMore /\ offset + n + 1 <= maxFetch
        /\ pages' = pages \o got
        /\ hasMore' = (kept < Len(page) \/ Len(list) > offset + n)
        /\ offset' = start + kept /\ ranked' = ranked
    BY <1>2 DEF callPaginated
  <2>2. n \in Nat \ {0} BY DEF limitOf, Lesser
  <2>3. ranked \in Seq(Nat) /\ Len(ranked) \in Nat /\ offset \in 0..Len(ranked) /\ pages = [i \in 1..offset |-> i]
    BY DEF PagingInv, PagesCoverRows
  <2>. HIDE DEF n
  <2>4. list \in Seq(Nat) /\ Len(list) = Lesser(offset + n + 1, Len(ranked))
    <3>1. limitOf(offset + n + 1, TRUE) = offset + n + 1
      BY <2>1, <2>2, <2>3 DEF limitOf, Lesser
    <3>2. list = SubSeq(ranked, 1, Lesser(offset + n + 1, Len(ranked)))
      BY <3>1 DEF Fetched
    <3>. DEFINE last == Lesser(offset + n + 1, Len(ranked))
    <3>3. last \in 0..Len(ranked)
      BY <2>2, <2>3 DEF Lesser
    <3>4. list = SubSeq(ranked, 1, last) BY <3>2
    <3>. HIDE DEF last
    <3>5. last \in Nat /\ \A i \in 1..last : ranked[i] \in Nat
      <4>1. \A i \in 1..Len(ranked) : ranked[i] \in Nat
        BY <2>3, ElementOfSeq
      <4>2. QED BY <2>3, <3>3, <4>1
    <3>6. SubSeq(ranked, 1, last) \in Seq(Nat) /\ Len(SubSeq(ranked, 1, last)) = last
      BY <3>5, SubSeqProperties
    <3>7. QED BY <3>4, <3>6 DEF last
  <2>. HIDE DEF list
  <2>5. start = offset BY <2>2, <2>3, <2>4 DEF Lesser
  <2>. HIDE DEF start
  <2>6. page \in Seq(Nat) /\ Len(page) = Lesser(offset + n, Len(list)) - offset /\ Len(page) \in Nat
    <3>0. Len(list) \in Nat /\ offset \in Nat /\ n \in Nat /\ offset <= Len(list)
      <4>1. Len(list) \in Nat BY <2>4
      <4>2. QED BY <2>2, <2>3, <2>4, <4>1 DEF Lesser
    <3>1. Lesser(offset + n, Len(list)) \in offset..Len(list)
      BY <3>0 DEF Lesser
    <3>2. \A i \in offset + 1..Lesser(offset + n, Len(list)) : list[i] \in Nat
      <4>1. Len(list) \in Nat /\ offset \in Nat /\ \A i \in 1..Len(list) : list[i] \in Nat
        BY <2>4, <3>0, ElementOfSeq
      <4>. HIDE DEF Lesser
      <4>2. \A i \in offset + 1..Lesser(offset + n, Len(list)) : i \in 1..Len(list)
        BY <3>1, <4>1
      <4>3. QED BY <4>1, <4>2
    <3>. DEFINE from == offset + 1
                last == Lesser(offset + n, Len(list))
    <3>3. from \in Int /\ last \in Int /\ \A i \in from..last : list[i] \in Nat
      BY <2>3, <2>4, <3>1, <3>2
    <3>4. page = SubSeq(list, from, last)
      BY <2>5
    <3>5. from = offset + 1 /\ last \in offset..Len(list) /\ last = Lesser(offset + n, Len(list))
      BY <3>1
    <3>. HIDE DEF from, last
    <3>6. /\ SubSeq(list, from, last) \in Seq(Nat)
          /\ Len(SubSeq(list, from, last)) = IF from <= last THEN last - from + 1 ELSE 0
      BY <3>3, SubSeqProperties
    <3>. HIDE DEF page
    <3>7. page \in Seq(Nat) /\ Len(page) = last - offset /\ last - offset \in Nat
      <4>1. offset \in Nat /\ last \in Nat /\ offset <= last BY <3>0, <3>5
      <4>2. last - offset \in Nat BY <4>1
      <4>3. (IF from <= last THEN last - from + 1 ELSE 0) = last - offset BY <3>5, <4>1, RestLength
      <4>4. QED BY <3>4, <3>6, <4>2, <4>3
    <3>8. QED BY <3>5, <3>7
  <2>. HIDE DEF page
  <2>7. kept \in 0..Len(page) /\ (Len(page) > 0 => kept >= 1)
    <3>1. page # <<>> => Len(page) > 0 BY <2>6
    <3>2. Len(page) > 0 => page # <<>> OBVIOUS
    <3>3. QED BY <2>6, <3>1, <3>2, FitsBounds
  <2>. HIDE DEF kept
  <2>8. offset' \in 0..Len(ranked) /\ (~ hasMore' => offset' = Len(ranked)) /\ (hasMore' => offset' < Len(ranked))
    <3>1. Len(list) = IF offset + n + 1 <= Len(ranked) THEN offset + n + 1 ELSE Len(ranked)
      BY <2>4 DEF Lesser
    <3>2. Len(page) = IF offset + n <= Len(list) THEN n ELSE Len(list) - offset
      BY <2>2, <2>3, <2>6 DEF Lesser
    <3>3. offset' = offset + kept /\ (hasMore' <=> (kept < Len(page) \/ Len(list) > offset + n))
      BY <2>1, <2>5
    <3>4. kept \in Nat /\ kept <= Len(page) BY <2>6, <2>7
    <3>. DEFINE more == kept < Len(page) \/ Len(list) > offset + n
    <3>5. offset \in Nat /\ Len(ranked) \in Nat /\ offset <= Len(ranked)
      BY <2>3
    <3>6. /\ offset + kept \in 0..Len(ranked)
          /\ ~ more => offset + kept = Len(ranked)
          /\ more => offset + kept < Len(ranked)
      BY <2>2, <3>1, <3>2, <3>4, <3>5, PageArithmetic
    <3>7. QED BY <3>3, <3>6
  <2>9. pages' = [i \in 1..offset' |-> i]
    <3>1. kept \in Nat /\ offset \in Nat /\ offset' = offset + kept BY <2>1, <2>3, <2>5, <2>6, <2>7
    <3>2. pages \in Seq(Nat) /\ Len(pages) = offset BY <2>3, <3>1
    <3>3. got \in Seq(Nat) /\ Len(got) = kept /\ \A i \in 1..kept : got[i] = offset + i BY <2>5, <3>1
    <3>. HIDE DEF got
    <3>4. /\ pages \o got \in Seq(Nat) /\ Len(pages \o got) = offset + kept
          /\ \A i \in 1..offset + kept : (pages \o got)[i] = IF i <= offset THEN pages[i] ELSE got[i - offset]
      BY <3>1, <3>2, <3>3, ConcatProperties
    <3>5. \A i \in 1..offset + kept : (pages \o got)[i] = i
      BY <2>3, <3>1, <3>3, <3>4
    <3>. DEFINE all == [i \in 1..offset + kept |-> i]
    <3>6. all \in Seq(Nat) /\ Len(all) = offset + kept /\ \A i \in 1..offset + kept : all[i] = i
      BY <3>1
    <3>. HIDE DEF all
    <3>7. pages \o got = all BY <3>1, <3>4, <3>5, <3>6, SeqEqual
    <3>8. QED BY <2>1, <3>1, <3>7 DEF all, got
  <2>10. hasMore' \in BOOLEAN BY <2>1
  <2>11. QED BY <2>1, <2>3, <2>8, <2>9, <2>10 DEF PagingInv, PagesCoverRows
<1>3. QED BY <1>1, <1>2 DEF PagingNext

\* What callPaginated (tools.go) has given to a client that follows next_offset.
THEOREM PagingInvariance == PagingSpec => []PagingInv
BY PagingStarts, PagingStep, PTL DEF PagingSpec

\* Walking a ranked result page by page gives every row once and in order, for every
\* limit and budget of every call, and only the last page says that there is no more.
THEOREM PagesAlwaysCoverRows == PagingSpec => []PagesCoverRows
<1>1. PagingInv => PagesCoverRows BY DEF PagingInv
<1>2. QED BY <1>1, PagingInvariance, PTL

HIDE PagingAssumption

-----------------------------------------------------------------------------
(***************************************************************************)
(* References.  What an answer says was so at a moment of its call.        *)
(***************************************************************************)
USE ReferencesAssumption

\* A name is one symbol's in a text.
NamesUnique ==
  \A t \in Text : \A i, j \in DOMAIN t : t[i][1] = t[j][1] /\ t[i][1] \in SymbolName => i = j

RefsTypeOK ==
  /\ fileText \in Text \cup {NoText} /\ indexed \in Text \cup {NoText}
  /\ commits \in Seq(Text \cup {NoText})
  /\ at \in {"idle", "lookup", "revision", "file", "span", "relocate", "resolved", "compared", "name"}
  /\ answer \in [status : {"none", "VALID", "REFERENCE_STALE", "INVALID_REFERENCE"},
                 hash : {Unset} \cup Text \cup Piece, start : Nat, candidates : SUBSET Id, revision : Nat]
  /\ request = Quiet \/ request \in Requests

\* The node that was found is the id's.
NodeOK ==
  /\ request.id = BinaryRef => node = Unset
  /\ request.id = FileRef => node.start = 0 /\ node.text \in Text
  /\ request.id \in SymbolName => node.start \in Nat \ {0} /\ node.text \in Piece /\ node.text[1] = request.id

\* What the call knows where it is.
CallInv ==
  /\ request = Quiet => at = "idle"
  /\ at # "idle" => fileText \in during
  /\ request.op = "verify" => request.revision <= Len(commits)
  /\ at \in {"revision", "file", "span", "relocate", "resolved", "compared"} => request.op = "verify" /\ NodeOK
  /\ at = "name" => request.op = "span" /\ Backed
  /\ at = "lookup" => answer = NoAnswer /\ node = Unset
  /\ at = "file" => request.id = FileRef
  /\ at \in {"span", "relocate"} => request.id \in SymbolName
  /\ at \in {"revision", "file", "span", "relocate"} =>
       answer.hash = Unset /\ answer.status = "none" /\ answer.start = 0
  /\ at \in {"resolved", "compared"} /\ request.id # BinaryRef =>
       /\ answer.status \in {"VALID", "REFERENCE_STALE"}
       /\ answer.status = "VALID" \/ answer.hash # Unset => Backed
       /\ at = "resolved" /\ answer.status = "VALID" => answer.hash = node.text
       /\ NamesUnique /\ Undisturbed => answer.status = "VALID" /\ answer.hash = node.text
  /\ at = "compared" => answer.status = "VALID" /\ request.hash # Unset /\ answer.hash = request.hash

ReferencesInv ==
  /\ RefsTypeOK /\ CallInv /\ ValidIsBacked
  /\ NamesUnique /\ AnsweredCall /\ Undisturbed => answer.status = "VALID"

LEMMA RequestIs ==
  ASSUME RefsTypeOK
  PROVE  /\ request.op \in {"none", "verify", "span"}
         /\ request = Quiet => request.op = "none"
         /\ request.op = "verify" => request.id \in Id /\ request.revision \in Nat
         /\ request.op = "span" => request.line \in 0..3
BY DEF RefsTypeOK, Requests, Quiet

\* A text's places, and the first place of a name in it.
LEMMA TextIs ==
  ASSUME NEW t \in Text
  PROVE  /\ Len(t) \in Nat /\ DOMAIN t = 1..Len(t) /\ \A i \in DOMAIN t : t[i] \in Piece
         /\ Pieces(t) \subseteq Piece /\ t # NoText /\ t # Unset
BY DEF Pieces, Piece

LEMMA FirstPlace ==
  ASSUME NEW t \in Text \cup {NoText}, NEW s, Places(t, s) # {}
  PROVE  t \in Text /\ First(Places(t, s)) \in DOMAIN t /\ t[First(Places(t, s))][1] = s
<1>. DEFINE T == Places(t, s)
<1>1. t \in Text /\ T = {i \in DOMAIN t : t[i][1] = s}
  BY DEF Places
<1>2. T \subseteq Nat /\ T # {}
  BY <1>1, TextIs
<1>. HIDE DEF T
<1>3. \E m \in T : \A n \in T : ~ (<<n, m>> \in OpToRel(<, Nat))
  BY <1>2, WFMin, NatLessThanWellFounded
<1>4. \E m \in T : \A n \in T : m <= n
  <2>1. PICK m \in T : \A n \in T : ~ (<<n, m>> \in OpToRel(<, Nat)) BY <1>3
  <2>2. \A n \in T : ~ (n < m) BY <1>2, <2>1 DEF OpToRel
  <2>3. QED BY <1>2, <2>2
<1>5. First(T) \in T
  BY <1>4 DEF First
<1>6. QED BY <1>1, <1>5 DEF T

LEMMA ReferencesStart == ReferencesInit => ReferencesInv
<1>. SUFFICES ASSUME ReferencesInit PROVE ReferencesInv OBVIOUS
<1>1. RefsTypeOK
  BY DEF ReferencesInit, RefsTypeOK, NoAnswer
<1>2. at = "idle" /\ request.op = "none"
  BY DEF ReferencesInit, Quiet
<1>3. CallInv /\ ValidIsBacked
  BY <1>2 DEF CallInv, ValidIsBacked, AnsweredCall
<1>4. QED BY <1>1, <1>2, <1>3 DEF ReferencesInv, AnsweredCall

\* Edits, commits and index runs: what was in the file during the call still was.
LEMMA WorldKeeps ==
  ASSUME ReferencesInv, World(Rewrite) \/ World(Commit) \/ World(Reindex)
  PROVE  ReferencesInv'
<1>. USE DEF ReferencesInv
<1>1. UNCHANGED <<request, answer, node, at>> /\ (at = "idle" => request = Quiet) /\ (Rewrite \/ Commit \/ Reindex)
  BY DEF World
<1>2. RefsTypeOK'
  BY <1>1 DEF RefsTypeOK, Rewrite, Commit, Reindex
<1>3. during \subseteq during' /\ (at # "idle" => fileText' \in during')
  BY <1>1 DEF Rewrite, Commit, Reindex, CallInv
<1>4. Backed => Backed'
  BY <1>1, <1>3 DEF Backed
<1>5. NodeOK' <=> NodeOK
  BY <1>1 DEF NodeOK
<1>6. ASSUME request.op = "verify"
      PROVE  request.revision <= Len(commits') /\ (at # "idle" /\ Undisturbed' => Undisturbed)
  <2>1. request.revision \in Nat /\ request.revision <= Len(commits) /\ Len(commits) \in Nat
    BY <1>6, RequestIs DEF CallInv, RefsTypeOK
  <2>2. CASE Rewrite
    <3>1. at # "idle" => fileText \in during' /\ fileText' \in during' /\ fileText # fileText'
      BY <1>3, <2>2 DEF Rewrite, CallInv
    <3>2. commits' = commits BY <2>2 DEF Rewrite
    <3>3. QED BY <2>1, <3>1, <3>2 DEF Undisturbed
  <2>3. CASE Commit
    <3>1. /\ Len(commits') = Len(commits) + 1
          /\ request.revision # 0 => commits'[request.revision] = commits[request.revision]
      BY <2>1, <2>3 DEF Commit, RefsTypeOK
    <3>2. UNCHANGED <<fileText, during, node, request>> BY <1>1, <2>3 DEF Commit
    <3>3. QED BY <2>1, <3>1, <3>2 DEF Undisturbed
  <2>4. CASE Reindex
    BY <1>1, <2>1, <2>4 DEF Reindex, Undisturbed
  <2>5. QED BY <1>1, <2>2, <2>3, <2>4
<1>7. CallInv'
  BY <1>1, <1>3, <1>4, <1>5, <1>6 DEF CallInv
<1>8. at = "idle" => request.op = "none"
  BY <1>1 DEF Quiet
<1>9. QED BY <1>1, <1>2, <1>7, <1>8 DEF ValidIsBacked, AnsweredCall

LEMMA AskKeeps == ReferencesInv /\ Ask => ReferencesInv'
<1>. SUFFICES ASSUME ReferencesInv, Ask PROVE ReferencesInv' OBVIOUS
<1>1. /\ at = "idle" /\ request = Quiet /\ request' \in Requests /\ at' = "lookup"
      /\ request'.op = "verify" => request'.revision <= Len(commits)
      /\ answer' = NoAnswer /\ during' = {fileText} /\ node' = Unset
      /\ UNCHANGED <<fileText, commits, indexed, imported, moves>>
  BY DEF Ask
<1>2. request' # Quiet BY <1>1 DEF Requests, Quiet
<1>3. RefsTypeOK' BY <1>1 DEF ReferencesInv, RefsTypeOK, NoAnswer
<1>4. CallInv' BY <1>1, <1>2 DEF CallInv
<1>5. QED BY <1>1, <1>3, <1>4 DEF ReferencesInv, ValidIsBacked, AnsweredCall

\* The steps of Resolve that do not answer yet, and the answers that name nothing.
LEMMA LookupKeeps ==
  ASSUME ReferencesInv, Lookup \/ LookupFails \/ Revision
  PROVE  ReferencesInv'
<1>. USE DEF ReferencesInv
<1>1. InCall /\ at # "idle" /\ fileText \in during /\ request # Quiet
  BY DEF Lookup, LookupFails, Revision, CallInv
<1>2. UNCHANGED <<fileText, commits, indexed, request, during>>
  BY <1>1 DEF InCall
<1>3. CASE Lookup
  <2>1. at = "lookup" /\ request.op = "verify" /\ at' = "revision" /\ answer' = answer /\ answer = NoAnswer
    BY <1>3 DEF Lookup, CallInv
  <2>2. request.id \in Id BY <2>1, RequestIs
  <2>3. NodeOK'
    <3>1. CASE request.id = BinaryRef
      BY <1>2, <1>3, <3>1 DEF Lookup, NodeOK
    <3>2. CASE request.id = FileRef
      <4>1. indexed \in Text BY <1>3, <3>2 DEF Lookup, Indexed, RefsTypeOK
      <4>2. QED BY <1>2, <1>3, <3>2, <4>1 DEF Lookup, NodeOK
    <3>3. CASE request.id \in SymbolName
      <4>. DEFINE i == First(Places(indexed, request.id))
      <4>1. node' = [start |-> i, text |-> indexed[i]] /\ Places(indexed, request.id) # {}
        BY <1>3, <3>3 DEF Lookup, Indexed
      <4>2. indexed \in Text /\ i \in DOMAIN indexed /\ indexed[i][1] = request.id
        BY <4>1, FirstPlace DEF RefsTypeOK
      <4>. HIDE DEF i
      <4>3. i \in Nat \ {0} /\ indexed[i] \in Piece BY <4>2, TextIs
      <4>4. QED BY <1>2, <3>3, <4>1, <4>2, <4>3 DEF NodeOK
    <3>4. QED BY <2>2, <3>1, <3>2, <3>3 DEF Id
  <2>4. RefsTypeOK' BY <1>2, <2>1 DEF RefsTypeOK
  <2>5. CallInv' BY <1>1, <1>2, <2>1, <2>3 DEF CallInv, NoAnswer
  <2>6. QED BY <2>1, <2>4, <2>5 DEF ValidIsBacked, AnsweredCall
<1>4. CASE LookupFails
  <2>1. /\ at = "lookup" /\ request.op = "verify" /\ at' = "idle" /\ node' = node /\ node = Unset
        /\ answer' = [answer EXCEPT !.status = "INVALID_REFERENCE",
                                    !.candidates = {i \in Near(request.id) : Indexed(i)}]
    BY <1>4 DEF LookupFails, CallInv
  <2>2. answer'.status = "INVALID_REFERENCE"
    BY <2>1 DEF RefsTypeOK
  <2>3. RefsTypeOK'
    <3>1. {i \in Near(request.id) : Indexed(i)} \in SUBSET Id BY <2>1, RequestIs, NearAssumption
    <3>2. QED BY <1>2, <2>1, <3>1 DEF RefsTypeOK
  <2>4. CallInv' BY <1>1, <1>2, <2>1 DEF CallInv
  <2>5. QED BY <1>2, <2>1, <2>2, <2>3, <2>4 DEF ValidIsBacked, AnsweredCall, Undisturbed
<1>5. CASE Revision
  <2>1. /\ at = "revision" /\ request.op = "verify" /\ NodeOK /\ node' = node
        /\ at' = IF request.id = BinaryRef THEN "resolved" ELSE IF request.id = FileRef THEN "file" ELSE "span"
        /\ answer' = [answer EXCEPT !.revision = Len(commits), !.status = IF request.id = BinaryRef THEN "VALID" ELSE @]
    BY <1>5 DEF Revision, CallInv
  <2>2. request.id \in Id /\ Len(commits) \in Nat BY <2>1, RequestIs DEF RefsTypeOK
  <2>3. /\ answer'.status = IF request.id = BinaryRef THEN "VALID" ELSE answer.status
        /\ answer'.hash = answer.hash /\ answer'.start = answer.start
    BY <2>1 DEF RefsTypeOK
  <2>4. RefsTypeOK' BY <1>2, <2>1, <2>2 DEF RefsTypeOK
  <2>5. NodeOK' BY <1>2, <2>1 DEF NodeOK
  <2>6. CallInv' BY <1>1, <1>2, <2>1, <2>2, <2>3, <2>5 DEF CallInv, Id
  <2>7. QED BY <2>1, <2>4, <2>6 DEF ValidIsBacked, AnsweredCall
<1>6. QED BY <1>3, <1>4, <1>5

\* What the file says of the id.
LEMMA ReadsKeep ==
  ASSUME ReferencesInv, ResolveFile \/ ReadSpan \/ Relocate
  PROVE  ReferencesInv'
<1>. USE DEF ReferencesInv
<1>1. /\ at # "idle" /\ fileText \in during /\ request # Quiet /\ request.op = "verify" /\ NodeOK
      /\ answer.hash = Unset /\ answer.status = "none" /\ answer.start = 0
      /\ UNCHANGED <<fileText, commits, indexed, request, during, node>>
  BY DEF ResolveFile, ReadSpan, Relocate, CallInv, InCall
<1>2. NodeOK' /\ (Undisturbed' <=> Undisturbed)
  BY <1>1 DEF NodeOK, Undisturbed
<1>3. request.id \in Id BY <1>1, RequestIs
<1>4. ASSUME /\ RefsTypeOK' /\ at' = "resolved" /\ request.id # BinaryRef
             /\ answer'.status \in {"VALID", "REFERENCE_STALE"}
             /\ answer'.status = "VALID" \/ answer'.hash # Unset => Backed'
             /\ answer'.status = "VALID" => answer'.hash = node.text
             /\ NamesUnique /\ Undisturbed => answer'.status = "VALID" /\ answer'.hash = node.text
      PROVE  ReferencesInv'
  <2>1. CallInv' BY <1>1, <1>2, <1>4 DEF CallInv
  <2>2. QED BY <1>4, <2>1 DEF ValidIsBacked, AnsweredCall
<1>5. CASE ResolveFile
  <2>1. /\ request.id = FileRef /\ at' = "resolved" /\ node.start = 0 /\ node.text \in Text
        /\ answer' = IF fileText = NoText THEN [answer EXCEPT !.status = "REFERENCE_STALE"]
               ELSE [answer EXCEPT !.status = IF fileText = node.text THEN "VALID" ELSE "REFERENCE_STALE",
                                   !.hash = fileText]
    BY <1>1, <1>5 DEF ResolveFile, CallInv, NodeOK
  <2>2. CASE fileText = NoText
    <3>1. answer'.status = "REFERENCE_STALE" /\ answer'.hash = Unset
      BY <1>1, <2>1, <2>2 DEF RefsTypeOK
    <3>2. RefsTypeOK' BY <1>1, <2>1, <2>2 DEF RefsTypeOK
    <3>3. ~ Undisturbed BY <2>2 DEF Undisturbed
    <3>4. QED BY <1>4, <2>1, <3>1, <3>2, <3>3
  <2>3. CASE fileText # NoText
    <3>1. /\ answer'.status = IF fileText = node.text THEN "VALID" ELSE "REFERENCE_STALE"
          /\ answer'.hash = fileText /\ answer'.start = 0 /\ fileText \in Text
      BY <1>1, <2>1, <2>3 DEF RefsTypeOK
    <3>2. RefsTypeOK' BY <1>1, <2>1, <2>3 DEF RefsTypeOK
    <3>3. Backed' BY <1>1, <2>3, <3>1 DEF Backed
    <3>4. Undisturbed => fileText = node.text BY <2>1 DEF Undisturbed
    <3>5. QED BY <1>4, <2>1, <3>1, <3>2, <3>3, <3>4
  <2>4. QED BY <2>2, <2>3
<1>6. ASSUME request.id \in SymbolName
      PROVE  node.start \in Nat \ {0} /\ node.text \in Piece /\ node.text[1] = request.id
  BY <1>1, <1>6 DEF NodeOK
<1>7. CASE ReadSpan
  <2>1. at = "span" /\ request.id \in SymbolName BY <1>7 DEF ReadSpan, CallInv
  <2>2. CASE SpanUnchanged
    <3>1. /\ answer' = [answer EXCEPT !.status = "VALID", !.hash = node.text, !.start = node.start]
          /\ at' = "resolved"
      BY <1>7, <2>2 DEF ReadSpan
    <3>2. answer'.status = "VALID" /\ answer'.hash = node.text /\ answer'.start = node.start
      BY <3>1 DEF RefsTypeOK
    <3>3. RefsTypeOK' BY <1>1, <1>6, <2>1, <3>1 DEF RefsTypeOK
    <3>4. Backed'
      BY <1>1, <1>6, <2>1, <2>2, <3>2 DEF Backed, SpanUnchanged
    <3>5. QED BY <1>4, <2>1, <3>1, <3>2, <3>3, <3>4
  <2>3. CASE ~ SpanUnchanged
    <3>1. at' = "relocate" /\ answer' = answer BY <1>7, <2>3 DEF ReadSpan
    <3>2. RefsTypeOK' BY <1>1, <3>1 DEF RefsTypeOK
    <3>3. CallInv' BY <1>1, <1>2, <2>1, <3>1 DEF CallInv
    <3>4. QED BY <3>1, <3>2, <3>3 DEF ValidIsBacked, AnsweredCall
  <2>4. QED BY <2>2, <2>3
<1>8. CASE Relocate
  <2>. DEFINE i == First(Places(fileText, request.id))
  <2>1. /\ at = "relocate" /\ request.id \in SymbolName /\ at' = "resolved"
        /\ answer' = IF Places(fileText, request.id) = {} THEN [answer EXCEPT !.status = "REFERENCE_STALE"]
                     ELSE [answer EXCEPT !.status = IF fileText[i] = node.text THEN "VALID" ELSE "REFERENCE_STALE",
                                         !.hash = fileText[i], !.start = i]
    BY <1>8 DEF Relocate, CallInv
  <2>2. ASSUME Undisturbed
        PROVE  fileText \in Text /\ \E j \in DOMAIN fileText : fileText[j] = node.text /\ fileText[j][1] = request.id
    BY <1>6, <2>1, <2>2 DEF Undisturbed, Pieces, RefsTypeOK
  <2>3. CASE Places(fileText, request.id) = {}
    <3>1. answer'.status = "REFERENCE_STALE" /\ answer'.hash = Unset
      BY <1>1, <2>1, <2>3 DEF RefsTypeOK
    <3>2. RefsTypeOK' BY <1>1, <2>1, <2>3 DEF RefsTypeOK
    <3>3. ~ Undisturbed BY <2>2, <2>3 DEF Places
    <3>4. QED BY <1>4, <2>1, <3>1, <3>2, <3>3
  <2>4. CASE Places(fileText, request.id) # {}
    <3>1. fileText \in Text /\ i \in DOMAIN fileText /\ fileText[i][1] = request.id
      BY <2>4, FirstPlace DEF RefsTypeOK
    <3>. HIDE DEF i
    <3>2. i \in Nat \ {0} /\ fileText[i] \in Piece /\ fileText # NoText BY <3>1, TextIs
    <3>3. /\ answer'.status = IF fileText[i] = node.text THEN "VALID" ELSE "REFERENCE_STALE"
          /\ answer'.hash = fileText[i] /\ answer'.start = i
      BY <2>1, <2>4 DEF RefsTypeOK
    <3>4. RefsTypeOK' BY <1>1, <2>1, <2>4, <3>2 DEF RefsTypeOK
    <3>5. Backed' BY <1>1, <3>1, <3>2, <3>3 DEF Backed
    <3>6. NamesUnique /\ Undisturbed => fileText[i] = node.text
      BY <2>1, <2>2, <3>1 DEF NamesUnique
    <3>7. QED BY <1>4, <2>1, <3>3, <3>4, <3>5, <3>6
  <2>5. QED BY <2>3, <2>4
<1>9. QED BY <1>5, <1>7, <1>8

\* The hash and the revision that the caller saw.
LEMMA ComparisonsKeep ==
  ASSUME ReferencesInv, CompareHash \/ CompareRevision
  PROVE  ReferencesInv'
<1>. USE DEF ReferencesInv
<1>1. /\ at \in {"resolved", "compared"} /\ fileText \in during /\ request # Quiet /\ request.op = "verify" /\ NodeOK
      /\ UNCHANGED <<fileText, commits, indexed, request, during, node>>
  BY DEF CompareHash, CompareRevision, CallInv, InCall
<1>2. NodeOK' /\ (Undisturbed' <=> Undisturbed)
  BY <1>1 DEF NodeOK, Undisturbed
<1>3. request.id \in Id BY <1>1, RequestIs
<1>4. Undisturbed => request.id # BinaryRef
  BY <1>1 DEF Undisturbed, NodeOK
<1>5. ASSUME NEW status \in {"none", "VALID", "REFERENCE_STALE", "INVALID_REFERENCE"},
             answer' = [answer EXCEPT !.status = status], at' \in {"idle", "compared"}
      PROVE  /\ RefsTypeOK' /\ answer'.status = status
             /\ answer'.hash = answer.hash /\ answer'.revision = answer.revision
             /\ Backed' <=> Backed
  <2>1. /\ answer'.status = status /\ answer'.hash = answer.hash /\ answer'.start = answer.start
        /\ answer'.revision = answer.revision
    BY <1>5 DEF RefsTypeOK
  <2>2. RefsTypeOK' BY <1>1, <1>5 DEF RefsTypeOK
  <2>3. QED BY <1>1, <2>1, <2>2 DEF Backed
<1>6. ASSUME NEW status \in {"none", "VALID", "REFERENCE_STALE", "INVALID_REFERENCE"}, Finish(status),
             NamesUnique /\ Undisturbed => status = "VALID",
             status = "VALID" /\ request.id # BinaryRef =>
               /\ Backed
               /\ request.hash = Unset => answer.hash = node.text
               /\ request.hash # Unset => answer.hash = request.hash
               /\ request.revision \notin {0, answer.revision} => commits[request.revision] \in during
      PROVE  ReferencesInv'
  <2>1. at' = "idle" /\ answer' = [answer EXCEPT !.status = status] BY <1>6 DEF Finish
  <2>2. /\ RefsTypeOK' /\ answer'.status = status
        /\ answer'.hash = answer.hash /\ answer'.revision = answer.revision
        /\ Backed' <=> Backed
    BY <1>5, <2>1
  <2>3. CallInv' BY <1>1, <2>1 DEF CallInv
  <2>4. ValidIsBacked' BY <1>1, <1>6, <2>1, <2>2 DEF ValidIsBacked, AnsweredCall
  <2>5. QED BY <1>2, <1>6, <2>2, <2>3, <2>4
<1>7. CASE CompareHash
  <2>1. at = "resolved" /\ request.hash # Unset /\ answer.hash # Unset BY <1>7 DEF CompareHash
  <2>2. CASE HashDiffers
    <3>1. Finish("REFERENCE_STALE") BY <1>7, <2>2 DEF CompareHash
    <3>2. ~ (NamesUnique /\ Undisturbed)
      BY <1>4, <2>1, <2>2 DEF CallInv, Undisturbed, HashDiffers
    <3>3. QED BY <1>6, <3>1, <3>2
  <2>3. CASE ~ HashDiffers
    <3>1. at' = "compared" /\ answer' = [answer EXCEPT !.status = "VALID"] BY <1>7, <2>3 DEF CompareHash
    <3>2. /\ RefsTypeOK' /\ answer'.status = "VALID" /\ answer'.hash = answer.hash
          /\ Backed' <=> Backed
      BY <1>5, <3>1
    <3>3. answer.hash = request.hash BY <2>1, <2>3 DEF HashDiffers
    <3>4. CallInv' BY <1>1, <1>2, <2>1, <3>1, <3>2, <3>3 DEF CallInv
    <3>5. QED BY <3>1, <3>2, <3>4 DEF ValidIsBacked, AnsweredCall
  <2>4. QED BY <2>2, <2>3
<1>8. CASE CompareRevision
  <2>1. at = "resolved" => Unset \in {request.hash, answer.hash} BY <1>8 DEF CompareRevision
  <2>. DEFINE moved == /\ request.revision \notin {0, answer.revision}
                       /\ request.id = BinaryRef \/ fileText # commits[request.revision]
  <2>2. CASE moved
    <3>1. Finish("REFERENCE_STALE") BY <1>8, <2>2 DEF CompareRevision
    <3>2. ~ Undisturbed BY <1>4, <2>2 DEF Undisturbed
    <3>3. QED BY <1>6, <3>1, <3>2
  <2>3. CASE ~ moved
    <3>1. Finish(answer.status) BY <1>8, <2>3 DEF CompareRevision
    <3>2. answer.status \in {"none", "VALID", "REFERENCE_STALE", "INVALID_REFERENCE"} BY DEF RefsTypeOK
    <3>3. NamesUnique /\ Undisturbed => answer.status = "VALID"
      BY <1>1, <1>4 DEF CallInv
    <3>4. ASSUME answer.status = "VALID", request.id # BinaryRef
          PROVE  /\ Backed
                 /\ request.hash = Unset => answer.hash = node.text
                 /\ request.hash # Unset => answer.hash = request.hash
                 /\ request.revision \notin {0, answer.revision} => commits[request.revision] \in during
      <4>1. Backed BY <1>1, <3>4 DEF CallInv
      <4>2. CASE at = "compared" BY <1>1, <2>3, <3>4, <4>1, <4>2 DEF CallInv
      <4>3. CASE at = "resolved"
        <5>1. answer.hash = node.text /\ node.text # Unset
          BY <1>1, <1>3, <3>4, <4>3, TextIs DEF CallInv, NodeOK, Id
        <5>2. QED BY <1>1, <2>1, <2>3, <3>4, <4>1, <4>3, <5>1
      <4>4. QED BY <1>1, <4>2, <4>3
    <3>5. QED BY <1>6, <3>1, <3>2, <3>3, <3>4
  <2>4. QED BY <2>2, <2>3
<1>9. QED BY <1>7, <1>8

LEMMA LinesKeep ==
  ASSUME ReferencesInv, ReadLines \/ NameLines
  PROVE  ReferencesInv'
<1>. USE DEF ReferencesInv
<1>1. /\ at # "idle" /\ fileText \in during /\ request # Quiet /\ request.op = "span"
      /\ UNCHANGED <<fileText, commits, indexed, request, during, node>>
  BY DEF ReadLines, NameLines, CallInv, InCall
<1>2. CASE ReadLines
  <2>. DEFINE line == IF request.line < 1 THEN 1 ELSE request.line
  <2>1. CASE fileText = NoText \/ line > Len(fileText)
    <3>1. at' = "idle" /\ answer' = [answer EXCEPT !.status = "INVALID_REFERENCE"]
      BY <1>2, <2>1 DEF ReadLines, Finish
    <3>2. answer'.status = "INVALID_REFERENCE" /\ RefsTypeOK' BY <1>1, <3>1 DEF RefsTypeOK
    <3>3. CallInv' BY <1>1, <3>1 DEF CallInv
    <3>4. QED BY <1>1, <3>1, <3>2, <3>3 DEF ValidIsBacked, AnsweredCall
  <2>2. CASE ~ (fileText = NoText \/ line > Len(fileText))
    <3>1. answer' = [answer EXCEPT !.hash = fileText[line], !.start = line] /\ at' = "name"
      BY <1>2, <2>2 DEF ReadLines
    <3>2. line \in Nat \ {0} BY <1>1, RequestIs
    <3>3. fileText \in Text BY <2>2 DEF RefsTypeOK
    <3>. HIDE DEF line
    <3>4. line \in DOMAIN fileText /\ fileText[line] \in Piece /\ fileText # NoText
      BY <2>2, <3>2, <3>3, TextIs
    <3>5. answer'.hash = fileText[line] /\ answer'.start = line BY <3>1 DEF RefsTypeOK
    <3>6. RefsTypeOK' BY <1>1, <3>1, <3>2, <3>4 DEF RefsTypeOK
    <3>7. Backed' BY <1>1, <3>2, <3>4, <3>5 DEF Backed
    <3>8. CallInv' BY <1>1, <3>1, <3>7 DEF CallInv
    <3>9. QED BY <3>1, <3>6, <3>8 DEF ValidIsBacked, AnsweredCall
  <2>3. QED BY <2>1, <2>2
<1>3. CASE NameLines
  <2>1. PICK names \in SUBSET SymbolName :
          at = "name" /\ at' = "idle" /\ answer' = [answer EXCEPT !.status = "VALID", !.candidates = names]
    BY <1>3 DEF NameLines
  <2>2. answer'.hash = answer.hash /\ answer'.start = answer.start BY <2>1 DEF RefsTypeOK
  <2>3. RefsTypeOK' BY <1>1, <2>1 DEF RefsTypeOK, Id
  <2>4. Backed' BY <1>1, <2>1, <2>2 DEF CallInv, Backed
  <2>5. CallInv' BY <1>1, <2>1 DEF CallInv
  <2>6. QED BY <1>1, <2>1, <2>3, <2>4, <2>5 DEF ValidIsBacked, AnsweredCall
<1>4. QED BY <1>2, <1>3

LEMMA ReferencesStep == ReferencesInv /\ [ReferencesNext]_referenceVars => ReferencesInv'
<1>. SUFFICES ASSUME ReferencesInv, [ReferencesNext]_referenceVars PROVE ReferencesInv' OBVIOUS
<1>1. CASE UNCHANGED referenceVars
  BY <1>1 DEF referenceVars, ReferencesInv, RefsTypeOK, CallInv, ValidIsBacked, AnsweredCall, Backed, NodeOK, Undisturbed
<1>2. QED BY <1>1, WorldKeeps, AskKeeps, LookupKeeps, ReadsKeep, ComparisonsKeep, LinesKeep DEF ReferencesNext

\* A call of the ReferenceResolver keeps what it knows (refs.go) while the file is edited,
\* committed and indexed under it: what it calls the code was in the file since it began.
THEOREM ReferencesInvariance == ReferencesSpec => []ReferencesInv
BY ReferencesStart, ReferencesStep, PTL DEF ReferencesSpec

\* "Only VALID references may be used to modify code" (refs.go:18): a valid answer of Verify,
\* and a range of lines, names code that was in the file while the call ran, and that the
\* caller saw; with one symbol of a name in a file, an undisturbed call does not call
\* current code stale.
THEOREM ValidReferencesAreCurrent == ASSUME NamesUnique PROVE ReferencesSpec => []ValidIsCurrent
<1>1. ASSUME NamesUnique, ReferencesInv PROVE ValidIsCurrent
  BY <1>1 DEF ReferencesInv, ValidIsCurrent
<1>2. QED BY <1>1, ReferencesInvariance, PTL

\* The part of it that no valid answer is wrong, without that assumption.
THEOREM ValidAnswersAreBacked == ReferencesSpec => []ValidIsBacked
<1>1. ReferencesInv => ValidIsBacked BY DEF ReferencesInv
<1>2. QED BY <1>1, ReferencesInvariance, PTL

HIDE ReferencesAssumption

-----------------------------------------------------------------------------
(***************************************************************************)
(* Repositories.  What a backend acknowledged is what it finds.            *)
(***************************************************************************)
USE RepositoryAssumption

Backend == {"memory", "sql", "mongo"}

\* A store ns with m ids made and what was acknowledged of it.  In memory and over SQL
\* that is all of it, an id that is an identity is that node's, and in memory an identity
\* has one node.  Over MongoDB what a batch inserted is there until an upsert hits its id.
StoreInv(ns, m, acks) ==
  /\ m \in Nat
  /\ DOMAIN ns \subseteq IdKey \cup 1..m
  /\ backend \in {"memory", "sql"} =>
       /\ DOMAIN acks = DOMAIN ns
       /\ \A i \in DOMAIN ns : /\ ns[i].key = acks[i].key /\ ns[i].fields = acks[i].fields
                               /\ i \in IdKey => ns[i].key = i
  /\ backend = "memory" => \A i, j \in DOMAIN ns : ns[i].key = ns[j].key => i = j
  /\ backend = "mongo" =>
       /\ DOMAIN ns = {} => DOMAIN acks = {}
       /\ \A i \in DOMAIN acks : acks[i].how = "batch" =>
            i \in DOMAIN ns /\ ns[i].key = acks[i].key /\ ns[i].fields = acks[i].fields

RepositoryInv ==
  /\ backend \in Backend /\ StoreInv(rows, idsMade, ackedNodes) /\ idsMade <= MaxIds
  /\ ackedEdges \subseteq links

LEMMA Rows ==
  \A key, fields : Row(key, fields).key = key /\ Row(key, fields).fields = fields
BY DEF Row

LEMMA Stores ==
  \A ns, m, id : LET s == Stored(ns, m, id) IN s.nodes = ns /\ s.made = m /\ s.id = id
BY DEF Stored

\* What is acknowledged of the id that was written.
Acknowledged(acks2, acks, id, key, fields, how) ==
  /\ DOMAIN acks2 = DOMAIN acks \cup {id}
  /\ acks2[id].key = key /\ acks2[id].how = how
  /\ acks2[id].fields = IF id \in DOMAIN acks THEN Over(acks[id].fields, fields) ELSE fields
  /\ \A i \in DOMAIN acks \ {id} : acks2[i] = acks[i]

LEMMA AckedIs ==
  ASSUME NEW acks, NEW s, s.id # 0, NEW key, NEW fields, NEW how
  PROVE  Acknowledged(Acked(acks, s, key, fields, how), acks, s.id, key, fields, how)
<1>. DEFINE id == s.id
            over == IF id \in DOMAIN acks THEN Over(acks[id].fields, fields) ELSE fields
            r == [key |-> key, how |-> how, fields |-> over]
            acks2 == Put(acks, id, r)
<1>1. Acked(acks, s, key, fields, how) = acks2
  BY DEF Acked
<1>2. r.key = key /\ r.how = how /\ r.fields = over OBVIOUS
<1>. HIDE DEF r, over, id
<1>3. DOMAIN acks2 = DOMAIN acks \cup {id} /\ acks2[id] = r /\ \A i \in DOMAIN acks \ {id} : acks2[i] = acks[i]
  BY DEF Put
<1>. HIDE DEF acks2
<1>4. QED BY <1>1, <1>2, <1>3 DEF over, id, Acknowledged

\* An id that is made is new, unless it is an identity's.
LEMMA NewIds ==
  ASSUME NEW ns, NEW m \in Nat, DOMAIN ns \subseteq IdKey \cup 1..m, NEW key, Made(key, m) <= MaxIds
  PROVE  /\ NewId(key, m) # 0 /\ Made(key, m) \in Nat /\ m <= Made(key, m)
         /\ DOMAIN ns \cup {NewId(key, m)} \subseteq IdKey \cup 1..Made(key, m)
         /\ NewId(key, m) \in IdKey => NewId(key, m) = key
         /\ NewId(key, m) \in DOMAIN ns => NewId(key, m) \in IdKey
<1>1. CASE key \in IdKey BY <1>1 DEF NewId, Made
<1>2. CASE key \notin IdKey
  <2>1. NewId(key, m) = m + 1 /\ Made(key, m) = m + 1 /\ m + 1 \in 0..MaxIds
    BY <1>2 DEF NewId, Made
  <2>2. QED BY <2>1
<1>3. QED BY <1>1, <1>2

\* Writing a row, in memory or over SQL.
LEMMA PutKeeps ==
  ASSUME NEW ns, NEW m, NEW acks, StoreInv(ns, m, acks), backend \in {"memory", "sql"},
         NEW key, NEW fields, NEW how, NEW v, NEW i, i # 0,
         NEW m2 \in Nat, DOMAIN ns \cup {i} \subseteq IdKey \cup 1..m2, i \in IdKey => i = key,
         v = Row(key, IF i \in DOMAIN ns THEN Over(ns[i].fields, fields) ELSE fields),
         backend = "memory" => \A j \in DOMAIN ns \ {i} : ns[j].key # key
  PROVE  LET s == Stored(Put(ns, i, v), m2, i)
         IN  StoreInv(s.nodes, s.made, Acked(acks, s, key, fields, how))
<1>. DEFINE s == Stored(Put(ns, i, v), m2, i)
            acks2 == Acked(acks, s, key, fields, how)
            ns2 == Put(ns, i, v)
<1>1. s.nodes = ns2 /\ s.made = m2 /\ s.id = i
  BY Stores
<1>2. Acknowledged(acks2, acks, i, key, fields, how)
  BY <1>1, AckedIs
<1>3. /\ DOMAIN ns2 = DOMAIN ns \cup {i} /\ ns2[i] = v /\ \A j \in DOMAIN ns \ {i} : ns2[j] = ns[j]
  BY DEF Put
<1>4. v.key = key /\ v.fields = IF i \in DOMAIN ns THEN Over(ns[i].fields, fields) ELSE fields
  BY Rows
<1>. HIDE DEF ns2, acks2, s
<1>5. backend # "mongo" OBVIOUS
<1>6. DOMAIN acks2 = DOMAIN ns2 /\ DOMAIN ns2 \subseteq IdKey \cup 1..m2
  BY <1>2, <1>3 DEF StoreInv, Acknowledged
<1>7. ASSUME NEW j \in DOMAIN ns2
      PROVE  /\ ns2[j].key = acks2[j].key /\ ns2[j].fields = acks2[j].fields
             /\ j \in IdKey => ns2[j].key = j
  BY <1>2, <1>3, <1>4 DEF StoreInv, Acknowledged
<1>8. backend = "memory" => \A j, k \in DOMAIN ns2 : ns2[j].key = ns2[k].key => j = k
  BY <1>3, <1>4 DEF StoreInv
<1>9. StoreInv(ns2, m2, acks2)
  BY <1>5, <1>6, <1>7, <1>8 DEF StoreInv
<1>10. QED BY <1>1, <1>9 DEF ns2, acks2, s

LEMMA MemoryUpsertKeeps ==
  ASSUME backend = "memory", NEW ns, NEW m, NEW acks, StoreInv(ns, m, acks),
         NEW key, NEW fields, NEW how, NEW s, s = MemoryUpsert(ns, m, key, fields), s.made <= MaxIds
  PROVE  StoreInv(s.nodes, s.made, Acked(acks, s, key, fields, how))
<1>1. /\ m \in Nat /\ DOMAIN ns \subseteq IdKey \cup 1..m
      /\ \A i \in DOMAIN ns : i \in IdKey => ns[i].key = i
  BY DEF StoreInv
<1>2. CASE Holding(ns, key) # {}
  <2>. DEFINE i == CHOOSE i \in Holding(ns, key) : TRUE
              v == Row(key, Over(ns[i].fields, fields))
  <2>1. i \in DOMAIN ns /\ ns[i].key = key BY <1>2 DEF Holding
  <2>2. s = Stored(Put(ns, i, v), m, i) BY <1>2 DEF MemoryUpsert
  <2>. HIDE DEF i
  <2>3. i # 0 /\ DOMAIN ns \cup {i} \subseteq IdKey \cup 1..m /\ (i \in IdKey => i = key)
    BY <1>1, <2>1
  <2>4. \A j \in DOMAIN ns \ {i} : ns[j].key # key
    BY <2>1 DEF StoreInv
  <2>5. v = Row(key, IF i \in DOMAIN ns THEN Over(ns[i].fields, fields) ELSE fields)
    BY <2>1
  <2>. HIDE DEF v
  <2>6. StoreInv(s.nodes, s.made, Acked(acks, s, key, fields, how))
    BY <1>1, <2>2, <2>3, <2>4, <2>5, PutKeeps
  <2>7. QED BY <1>1, <2>2, <2>6, Stores
<1>3. CASE Holding(ns, key) = {}
  <2>. DEFINE i == NewId(key, m)
              v == Row(key, fields)
  <2>1. s = Stored(Put(ns, i, v), Made(key, m), i) /\ s.made = Made(key, m)
    BY <1>3, Stores DEF MemoryUpsert
  <2>2. /\ i # 0 /\ Made(key, m) \in Nat /\ m <= Made(key, m)
        /\ DOMAIN ns \cup {i} \subseteq IdKey \cup 1..Made(key, m)
        /\ i \in IdKey => i = key
        /\ i \in DOMAIN ns => i \in IdKey
    BY <1>1, <2>1, NewIds
  <2>. HIDE DEF i
  <2>3. i \notin DOMAIN ns /\ \A j \in DOMAIN ns : ns[j].key # key
    BY <1>1, <1>3, <2>2 DEF Holding
  <2>4. v = Row(key, IF i \in DOMAIN ns THEN Over(ns[i].fields, fields) ELSE fields)
    BY <2>3
  <2>. HIDE DEF v
  <2>5. StoreInv(s.nodes, s.made, Acked(acks, s, key, fields, how))
    BY <2>1, <2>2, <2>3, <2>4, PutKeeps
  <2>6. QED BY <2>1, <2>2, <2>5
<1>4. QED BY <1>2, <1>3

LEMMA SqlUpsertKeeps ==
  ASSUME backend = "sql", NEW ns, NEW m, NEW acks, StoreInv(ns, m, acks),
         NEW key, NEW fields, NEW how, NEW s, s = SqlUpsert(ns, m, key, fields), s.made <= MaxIds
  PROVE  StoreInv(s.nodes, s.made, Acked(acks, s, key, fields, how))
<1>1. /\ m \in Nat /\ DOMAIN ns \subseteq IdKey \cup 1..m
      /\ \A i \in DOMAIN ns : i \in IdKey => ns[i].key = i
  BY DEF StoreInv
<1>. DEFINE i == NewId(key, m)
            v == IF i \in DOMAIN ns THEN Row(key, Over(ns[i].fields, fields)) ELSE Row(key, fields)
<1>2. s = Stored(Put(ns, i, v), Made(key, m), i) /\ s.made = Made(key, m)
  BY Stores DEF SqlUpsert
<1>3. /\ i # 0 /\ Made(key, m) \in Nat /\ m <= Made(key, m)
      /\ DOMAIN ns \cup {i} \subseteq IdKey \cup 1..Made(key, m)
      /\ i \in IdKey => i = key
  BY <1>1, <1>2, NewIds
<1>. HIDE DEF i
<1>4. v = Row(key, IF i \in DOMAIN ns THEN Over(ns[i].fields, fields) ELSE fields)
  OBVIOUS
<1>. HIDE DEF v
<1>5. StoreInv(s.nodes, s.made, Acked(acks, s, key, fields, how))
  BY <1>2, <1>3, <1>4, PutKeeps
<1>6. QED BY <1>2, <1>3, <1>5

\* The first insert is the only one that writes.
LEMMA MongoInsertKeeps ==
  ASSUME backend = "mongo", NEW ns, NEW m, NEW acks, StoreInv(ns, m, acks),
         NEW key, NEW fields, NEW how, NEW s, s = MongoInsert(ns, m, key, fields), s.made <= MaxIds
  PROVE  StoreInv(s.nodes, s.made, Acked(acks, s, key, fields, how))
<1>. DEFINE i == NewId(key, m)
            v == Row(key, fields)
            ns2 == Put(ns, i, v)
            acks2 == Acked(acks, s, key, fields, how)
<1>1. m \in Nat /\ DOMAIN ns \subseteq IdKey \cup 1..m /\ s.made = Made(key, m)
  BY Stores DEF StoreInv, MongoInsert
<1>2. /\ i # 0 /\ Made(key, m) \in Nat /\ m <= Made(key, m)
      /\ DOMAIN ns \cup {i} \subseteq IdKey \cup 1..Made(key, m)
  BY <1>1, NewIds
<1>3. CASE DOMAIN ns = {}
  <2>1. s.nodes = ns2 /\ s.id = i BY <1>3, Stores DEF MongoInsert
  <2>2. DOMAIN acks = {} BY <1>3 DEF StoreInv
  <2>3. DOMAIN acks2 = {i} /\ acks2[i].key = key /\ acks2[i].fields = fields
    <3>1. Acknowledged(acks2, acks, i, key, fields, how) BY <1>2, <2>1, AckedIs
    <3>. HIDE DEF acks2, i
    <3>2. QED BY <2>2, <3>1 DEF Acknowledged
  <2>4. DOMAIN ns2 = {i} /\ ns2[i].key = key /\ ns2[i].fields = fields
    <3>1. DOMAIN ns2 = {i} /\ ns2[i] = v BY <1>3 DEF Put
    <3>2. QED BY <3>1, Rows
  <2>. HIDE DEF ns2, acks2, i
  <2>5. StoreInv(ns2, s.made, acks2)
    BY <1>1, <1>2, <2>3, <2>4 DEF StoreInv
  <2>6. QED BY <1>1, <1>2, <2>1, <2>5 DEF acks2
<1>4. CASE DOMAIN ns # {}
  <2>1. s.nodes = ns /\ s.id = 0 BY <1>4, Stores DEF MongoInsert
  <2>2. Acked(acks, s, key, fields, how) = acks BY <2>1 DEF Acked
  <2>3. DOMAIN ns \subseteq IdKey \cup 1..s.made /\ s.made \in Nat BY <1>1, <1>2
  <2>4. StoreInv(ns, s.made, acks) BY <2>3 DEF StoreInv
  <2>5. QED BY <1>1, <1>2, <2>1, <2>2, <2>4
<1>5. QED BY <1>3, <1>4

\* An upsert takes its id out of what a batch acknowledged.
LEMMA MongoUpsertKeeps ==
  ASSUME backend = "mongo", NEW ns, NEW m, NEW acks, StoreInv(ns, m, acks),
         NEW key, NEW fields, NEW s, s = MongoUpsert(ns, m, key, fields), s.made <= MaxIds
  PROVE  StoreInv(s.nodes, s.made, Acked(acks, s, key, fields, "upsert"))
<1>. DEFINE i == NewId(key, m)
            acks2 == Acked(acks, s, key, fields, "upsert")
            v == Row(Missing, [f \in Field |-> Missing])
<1>1. CASE DOMAIN ns = {}
  BY <1>1, MongoInsertKeeps DEF MongoUpsert
<1>2. CASE DOMAIN ns # {}
  <2>1. /\ m \in Nat /\ DOMAIN ns \subseteq IdKey \cup 1..m /\ s.made = Made(key, m) /\ s.id = i
        /\ s.nodes = IF i \in DOMAIN ns THEN Put(ns, i, v) ELSE ns
    BY <1>2, Stores DEF StoreInv, MongoUpsert
  <2>2. /\ i # 0 /\ Made(key, m) \in Nat /\ m <= Made(key, m)
        /\ DOMAIN ns \cup {i} \subseteq IdKey \cup 1..Made(key, m)
    BY <2>1, NewIds
  <2>3. /\ DOMAIN acks2 = DOMAIN acks \cup {i} /\ acks2[i].how = "upsert"
        /\ \A j \in DOMAIN acks \ {i} : acks2[j] = acks[j]
    <3>1. Acknowledged(acks2, acks, i, key, fields, "upsert") BY <2>1, <2>2, AckedIs
    <3>. HIDE DEF acks2, i
    <3>2. QED BY <3>1 DEF Acknowledged
  <2>4. DOMAIN s.nodes = DOMAIN ns /\ \A j \in DOMAIN ns \ {i} : s.nodes[j] = ns[j]
    BY <2>1 DEF Put
  <2>. HIDE DEF acks2, i
  <2>5. ASSUME NEW j \in DOMAIN acks2, acks2[j].how = "batch"
        PROVE  j \in DOMAIN s.nodes /\ s.nodes[j].key = acks2[j].key /\ s.nodes[j].fields = acks2[j].fields
    BY <2>3, <2>4, <2>5 DEF StoreInv
  <2>6. StoreInv(s.nodes, s.made, acks2)
    BY <1>2, <2>1, <2>2, <2>4, <2>5 DEF StoreInv
  <2>7. QED BY <2>1, <2>2, <2>6 DEF acks2
<1>3. QED BY <1>1, <1>2

LEMMA MadeGrows ==
  ASSUME backend \in Backend, NEW ns, NEW m \in Nat, NEW key, NEW fields,
         NEW s, s \in {Upserted(ns, m, key, fields), BatchUpserted(ns, m, key, fields)}
  PROVE  s.made \in Nat /\ m <= s.made
<1>1. Made(key, m) \in Nat /\ m <= Made(key, m) BY DEF Made
<1>2. s.made \in {m, Made(key, m)}
  BY Stores DEF Backend, Upserted, BatchUpserted, MemoryUpsert, SqlUpsert, MongoUpsert, MongoInsert
<1>3. QED BY <1>1, <1>2

LEMMA UpsertKeeps ==
  ASSUME backend \in Backend, NEW ns, NEW m, NEW acks, StoreInv(ns, m, acks), NEW key, NEW fields
  PROVE  /\ LET s == Upserted(ns, m, key, fields)
            IN  s.made <= MaxIds =>
                  StoreInv(s.nodes, s.made, Acked(acks, s, key, fields, "upsert"))
         /\ LET s == BatchUpserted(ns, m, key, fields)
            IN  s.made <= MaxIds =>
                  StoreInv(s.nodes, s.made, Acked(acks, s, key, fields, "batch"))
<1>1. CASE backend = "memory"
  BY <1>1, MemoryUpsertKeeps DEF Upserted, BatchUpserted
<1>2. CASE backend = "sql"
  BY <1>2, SqlUpsertKeeps DEF Upserted, BatchUpserted
<1>3. CASE backend = "mongo"
  BY <1>3, MongoUpsertKeeps, MongoInsertKeeps DEF Upserted, BatchUpserted
<1>4. QED BY <1>1, <1>2, <1>3 DEF Backend

-----------------------------------------------------------------------------
(* Steps.                                                                    *)

LEMMA RepositoryStarts == RepositoryInit => RepositoryInv
<1>. SUFFICES ASSUME RepositoryInit PROVE RepositoryInv OBVIOUS
<1>1. DOMAIN rows = {} /\ DOMAIN ackedNodes = {} /\ idsMade = 0 /\ ackedEdges = {} /\ backend \in Backend
  BY DEF RepositoryInit, Backend
<1>2. QED BY <1>1 DEF RepositoryInv, StoreInv

LEMMA NodesStep ==
  ASSUME RepositoryInv, RepoUpsertNode \/ RepoUpsertNodesBatch
  PROVE  RepositoryInv'
<1>0. backend \in Backend /\ StoreInv(rows, idsMade, ackedNodes) /\ ackedEdges \subseteq links
  BY DEF RepositoryInv
<1>1. SUFFICES /\ UNCHANGED <<backend, links, ackedEdges>> /\ idsMade' <= MaxIds
               /\ StoreInv(rows', idsMade', ackedNodes')
  BY <1>0 DEF RepositoryInv, StoreInv, Backend
<1>2. CASE RepoUpsertNode
  <2>1. PICK key \in Identity, fields \in FieldMaps :
          LET s == Upserted(rows, idsMade, key, fields)
          IN  /\ s.made <= MaxIds
              /\ rows' = s.nodes /\ idsMade' = s.made
              /\ ackedNodes' = Acked(ackedNodes, s, key, fields, "upsert")
              /\ UNCHANGED <<backend, links, ackedEdges>>
    BY <1>2 DEF RepoUpsertNode
  <2>2. QED BY <1>0, <2>1, UpsertKeeps
<1>3. CASE RepoUpsertNodesBatch
  <2>1. PICK k1, k2 \in Identity, f1, f2 \in FieldMaps :
          LET s1 == BatchUpserted(rows, idsMade, k1, f1)
              s2 == BatchUpserted(s1.nodes, s1.made, k2, f2)
          IN  /\ s2.made <= MaxIds
              /\ rows' = s2.nodes /\ idsMade' = s2.made
              /\ ackedNodes' = Acked(Acked(ackedNodes, s1, k1, f1, "batch"), s2, k2, f2, "batch")
              /\ UNCHANGED <<backend, links, ackedEdges>>
    BY <1>3 DEF RepoUpsertNodesBatch
  <2>. DEFINE s1 == BatchUpserted(rows, idsMade, k1, f1)
              s2 == BatchUpserted(s1.nodes, s1.made, k2, f2)
              acks1 == Acked(ackedNodes, s1, k1, f1, "batch")
  <2>2. s1.made \in Nat /\ s2.made \in Nat /\ s1.made <= s2.made
    BY <1>0, MadeGrows DEF StoreInv
  <2>3. StoreInv(s1.nodes, s1.made, acks1)
    BY <1>0, <2>1, <2>2, UpsertKeeps
  <2>4. StoreInv(s2.nodes, s2.made, Acked(acks1, s2, k2, f2, "batch"))
    BY <1>0, <2>1, <2>3, UpsertKeeps
  <2>5. QED BY <2>1, <2>4
<1>4. QED BY <1>2, <1>3

LEMMA LinksStep ==
  ASSUME RepositoryInv, RepoLink \/ RepoLinkBatch
  PROVE  RepositoryInv'
<1>1. PICK from, to \in Ids, batch \in BOOLEAN : LinkEnds(from, to, batch)
  BY DEF RepoLink, RepoLinkBatch
<1>. DEFINE there == IF backend = "memory" THEN Between(links, from, to) ELSE {}
            new == IF Admits(from, to) /\ (batch \/ there = {}) THEN {NewEdge(from, to)} ELSE {}
<1>2. /\ idsMade < MaxIds /\ links' = links \cup new /\ ackedEdges' = ackedEdges \cup there \cup new
      /\ idsMade' = IF new = {} THEN idsMade ELSE idsMade + 1
      /\ UNCHANGED <<backend, rows, ackedNodes>>
  BY <1>1 DEF LinkEnds
<1>3. there \subseteq links BY DEF Between
<1>. HIDE DEF there, new
<1>4. idsMade \in Nat /\ idsMade' \in Nat /\ idsMade <= idsMade' /\ idsMade' <= MaxIds
  BY <1>2 DEF RepositoryInv, StoreInv
<1>5. 1..idsMade \subseteq 1..idsMade' BY <1>4
<1>6. StoreInv(rows', idsMade', ackedNodes')
  BY <1>2, <1>4, <1>5 DEF RepositoryInv, StoreInv
<1>7. StoreInv(rows, idsMade, ackedNodes)'
  BY <1>6, <1>2 DEF StoreInv
<1>8. QED BY <1>2, <1>3, <1>4, <1>7 DEF RepositoryInv

LEMMA RemovalsStep ==
  ASSUME RepositoryInv, RepoRemoveNodes \/ RepoRemoveEdges
  PROVE  RepositoryInv'
<1>1. CASE RepoRemoveNodes
  <2>1. PICK i \in DOMAIN rows :
          /\ backend = "memory"
          /\ rows' = Dropped(rows, i)
          /\ links' = {e \in links : i \notin {e.from, e.to}}
          /\ ackedNodes' = Dropped(ackedNodes, i)
          /\ ackedEdges' = {e \in ackedEdges : i \notin {e.from, e.to}}
          /\ UNCHANGED <<backend, idsMade>>
    BY <1>1 DEF RepoRemoveNodes
  <2>2. /\ DOMAIN rows' = DOMAIN rows \ {i} /\ \A j \in DOMAIN rows \ {i} : rows'[j] = rows[j]
        /\ DOMAIN ackedNodes' = DOMAIN ackedNodes \ {i}
        /\ \A j \in DOMAIN ackedNodes \ {i} : ackedNodes'[j] = ackedNodes[j]
    BY <2>1 DEF Dropped
  <2>3. StoreInv(rows, idsMade, ackedNodes)'
    BY <2>1, <2>2 DEF RepositoryInv, StoreInv
  <2>4. QED BY <2>1, <2>3 DEF RepositoryInv
<1>2. CASE RepoRemoveEdges
  BY <1>2 DEF RepoRemoveEdges, RepositoryInv, StoreInv
<1>3. QED BY <1>1, <1>2

LEMMA RepositoryStep == RepositoryInv /\ [RepositoryNext]_repositoryVars => RepositoryInv'
<1>. SUFFICES ASSUME RepositoryInv, [RepositoryNext]_repositoryVars PROVE RepositoryInv' OBVIOUS
<1>1. CASE UNCHANGED repositoryVars
  BY <1>1 DEF repositoryVars, RepositoryInv, StoreInv
<1>2. QED BY <1>1, NodesStep, LinksStep, RemovalsStep DEF RepositoryNext

\* What the other repositories hold (memory.go, sql.go, mongo.go): in memory and over SQL
\* exactly what they acknowledged, one node for an identity in memory; over MongoDB what
\* a batch inserted, until an upsert hits its id.
THEOREM RepositoryInvariance == RepositorySpec => []RepositoryInv
BY RepositoryStarts, RepositoryStep, PTL DEF RepositorySpec

\* What UpsertNode, UpsertNodesBatch, Link and LinkBatch of those repositories acknowledged
\* is found again, by id, by identity and from both ends of an edge, until it is removed
\* (not of mongo.go's UpsertNode and its reads by id).
THEOREM AcknowledgedIsFound == RepositorySpec => []AckedIsFound
<1>1. RepositoryInv => AckedIsFound
  <2>. SUFFICES ASSUME RepositoryInv PROVE AckedIsFound OBVIOUS
  <2>1. ASSUME NEW i \in DOMAIN ackedNodes, backend = "mongo" => ackedNodes[i].how = "batch"
        PROVE  i \in DOMAIN rows /\ rows[i].key = ackedNodes[i].key /\ rows[i].fields = ackedNodes[i].fields
    BY <2>1 DEF RepositoryInv, StoreInv, Backend
  <2>2. ASSUME NEW i \in DOMAIN ackedNodes, backend = "mongo" => ackedNodes[i].how = "batch"
        PROVE  /\ i \in RepoFindNodes(ackedNodes[i].key)
               /\ rows[i].fields = ackedNodes[i].fields
               /\ backend # "mongo" => RepoGetNode(i) = {rows[i]}
    BY <2>1, <2>2 DEF RepoFindNodes, Holding, RepoGetNode
  <2>3. ASSUME NEW e \in ackedEdges
        PROVE  /\ e \in links
               /\ backend # "mongo" /\ {e.from, e.to} \subseteq DOMAIN rows =>
                    e \in RepoNeighbors(e.from, "out") \cap RepoNeighbors(e.to, "in")
    BY DEF RepositoryInv, RepoNeighbors, Ahead, Behind, RepoGetNode
  <2>4. ASSUME backend = "memory", NEW k \in Identity PROVE Cardinality(RepoFindNodes(k)) <= 1
    <3>1. \A i, j \in RepoFindNodes(k) : i = j
      BY <2>4 DEF RepositoryInv, StoreInv, RepoFindNodes, Holding
    <3>2. CASE RepoFindNodes(k) = {} BY <3>2, FS_EmptySet
    <3>3. CASE RepoFindNodes(k) # {}
      <4>1. PICK i : RepoFindNodes(k) = {i} BY <3>1, <3>3
      <4>2. QED BY <4>1, FS_Singleton
    <3>4. QED BY <3>2, <3>3
  <2>5. QED BY <2>2, <2>3, <2>4 DEF AckedIsFound
<1>2. QED BY <1>1, RepositoryInvariance, PTL

HIDE RepositoryAssumption

-----------------------------------------------------------------------------
(***************************************************************************)
(* Self-update.  Wherever the updater dies, a whole program is installed   *)
(* or its backup is.                                                       *)
(***************************************************************************)
OneUpdater == \E u : Updater = {u}

UpdateSteps == {"idle", "create", "copy", "fetched", "verify", "backup", "replace", "clean"}
UpdateTypeOK ==
  /\ disk \in [InstallPath -> Inode \cup {NoFile}] /\ whole \subseteq Inode
  /\ data \in [Inode -> Nat] /\ DOMAIN writer = Inode /\ release \in Nat /\ failures \in Nat
  /\ updater \in [Updater -> [step : UpdateSteps, version : Nat, fd : Inode \cup {NoFile}]]

\* A path has a file of its own, and what is not being downloaded is complete.
UpdateDiskInv ==
  /\ \A p, q \in InstallPath : disk[p] = disk[q] /\ disk[p] # NoFile => p = q
  /\ \A p \in {"binary", "bak", "new"} : disk[p] # NoFile => disk[p] \in whole
  /\ disk["binary"] # NoFile \/ disk["bak"] # NoFile
  /\ disk["binary"] # NoFile \/ failures # 0 \/ \E u \in Updater : updater[u].step = "replace"

\* Where the command is.
AtStepInv ==
  \A u \in Updater :
    /\ updater[u].step \in {"create", "copy", "fetched", "verify", "backup", "clean"} => disk["binary"] # NoFile
    /\ updater[u].step = "copy" => /\ disk["tmp"] # NoFile /\ disk["tmp"] = updater[u].fd
                                   /\ writer[disk["tmp"]] = u
    /\ updater[u].step = "fetched" => disk["tmp"] \in whole
    /\ updater[u].step \in {"verify", "backup", "replace"} => disk["new"] # NoFile
    /\ updater[u].step = "replace" => disk["binary"] = NoFile /\ disk["bak"] # NoFile

UpdateInv == UpdateTypeOK /\ UpdateDiskInv /\ AtStepInv

LEMMA InodeNumbers == ASSUME OneUpdater PROVE Inode = 1..5
<1>1. PICK u : Updater = {u} BY DEF OneUpdater
<1>2. IsFiniteSet(Updater) /\ Cardinality(Updater) = 1
  BY <1>1, FS_Singleton
<1>3. IsFiniteSet({"binary", "bak"}) /\ Cardinality({"binary", "bak"}) = 2
  <2>1. {"binary", "bak"} = {"binary"} \cup {"bak"} /\ "bak" \notin {"binary"} OBVIOUS
  <2>2. IsFiniteSet({"binary"}) /\ Cardinality({"binary"}) = 1 BY FS_Singleton
  <2>3. QED BY <2>1, <2>2, FS_AddElement
<1>4. IsFiniteSet({"binary", "bak", "new"}) /\ Cardinality({"binary", "bak", "new"}) = 3
  <2>1. {"binary", "bak", "new"} = {"binary", "bak"} \cup {"new"} OBVIOUS
  <2>2. QED BY <1>3, <2>1, FS_AddElement
<1>5. Cardinality(InstallPath) = 4
  <2>1. InstallPath = {"binary", "bak", "new"} \cup {"tmp"} BY DEF InstallPath
  <2>2. QED BY <1>4, <2>1, FS_AddElement
<1>6. QED BY <1>2, <1>5 DEF Inode

LEMMA UpdateStarts == ASSUME OneUpdater, UpdateInit PROVE UpdateInv
<1>1. Installed \in Inode /\ NoFile \notin Inode /\ NoFile # Installed
  BY InodeNumbers DEF Installed, NoFile
<1>2. UpdateTypeOK
  BY <1>1 DEF UpdateInit, UpdateTypeOK, NotRunning, UpdateSteps
<1>3. QED BY <1>1, <1>2 DEF UpdateInit, UpdateInv, UpdateDiskInv, AtStepInv, NotRunning, InstallPath

\* There is a file that no path leads to and no command writes.
LEMMA FreshFile ==
  ASSUME OneUpdater, UpdateInv, NEW u \in Updater, disk["tmp"] = NoFile,
         NEW f, f = CHOOSE i \in Inode : i \notin {disk[p] : p \in InstallPath} \cup {updater[v].fd : v \in Updater}
  PROVE  f \in Inode /\ \A p \in InstallPath : disk[p] # f
<1>1. \A v \in Updater : v = u BY DEF OneUpdater
<1>2. PICK k \in Inode : k \notin {disk["binary"], disk["bak"], disk["new"], updater[u].fd}
  BY InodeNumbers
<1>3. k \notin {disk[p] : p \in InstallPath} \cup {updater[v].fd : v \in Updater}
  BY <1>1, <1>2, InodeNumbers DEF InstallPath, NoFile
<1>4. QED BY <1>3

LEMMA UpdateStep ==
  ASSUME OneUpdater, UpdateInv, [UpdateNext]_updateVars
  PROVE  UpdateInv'
<1>. USE DEF UpdateInv
<1>1. NoFile \notin Inode /\ \A p \in InstallPath : disk[p] \in Inode \cup {NoFile}
  BY InodeNumbers DEF NoFile, UpdateTypeOK
<1>2. CASE UNCHANGED updateVars
  BY <1>2 DEF updateVars, UpdateTypeOK, UpdateDiskInv, AtStepInv
<1>3. CASE NewRelease
  BY <1>3 DEF NewRelease, UpdateTypeOK, UpdateDiskInv, AtStepInv
<1>4. ASSUME NEW u \in Updater, CheckForUpdate(u) \/ InstallUpdate(u) \/ UpdateKilled(u)
      PROVE  UpdateInv'
  <2>. \A v \in Updater : v = u BY DEF OneUpdater
  <2>1. CASE CheckForUpdate(u)
    <3>1. UpdateTypeOK' BY <2>1 DEF CheckForUpdate, UpdateTypeOK, UpdateSteps
    <3>2. disk["binary"] # NoFile BY <1>1, <2>1 DEF CheckForUpdate, UpdateTypeOK
    <3>3. UpdateDiskInv' /\ AtStepInv'
      BY <2>1, <3>2 DEF CheckForUpdate, UpdateTypeOK, UpdateDiskInv, AtStepInv
    <3>4. QED BY <3>1, <3>3
  <2>2. CASE CreateTmp(u)
    <3>. DEFINE f == IF disk["tmp"] # NoFile THEN disk["tmp"]
                     ELSE CHOOSE i \in Inode : i \notin {disk[p] : p \in InstallPath} \cup {updater[v].fd : v \in Updater}
    <3>1. /\ disk' = [disk EXCEPT !["tmp"] = f]
          /\ data' = [data EXCEPT ![f] = updater[u].version]
          /\ whole' = whole \ {f} /\ writer' = [writer EXCEPT ![f] = u]
          /\ updater' = [updater EXCEPT ![u].step = "copy", ![u].fd = f]
          /\ UNCHANGED <<release, failures>> /\ updater[u].step = "create"
      BY <2>2 DEF CreateTmp
    <3>2. f \in Inode /\ \A p \in InstallPath \ {"tmp"} : disk[p] # f
      <4>1. CASE disk["tmp"] # NoFile
        BY <1>1, <4>1 DEF UpdateDiskInv, InstallPath
      <4>2. CASE disk["tmp"] = NoFile
        BY <4>2, FreshFile
      <4>3. QED BY <4>1, <4>2
    <3>. HIDE DEF f
    <3>3. UpdateTypeOK'
      <4>1. disk' \in [InstallPath -> Inode \cup {NoFile}] /\ whole' \subseteq Inode
        BY <3>1, <3>2 DEF UpdateTypeOK, InstallPath
      <4>2. data' \in [Inode -> Nat] /\ DOMAIN writer' = Inode /\ release' \in Nat /\ failures' \in Nat
        BY <3>1, <3>2 DEF UpdateTypeOK
      <4>3. updater' = [updater EXCEPT ![u] = [updater[u] EXCEPT !.step = "copy", !.fd = f]]
        BY <3>1 DEF UpdateTypeOK
      <4>4. [updater[u] EXCEPT !.step = "copy", !.fd = f] \in
              [step : UpdateSteps, version : Nat, fd : Inode \cup {NoFile}]
        BY <3>2 DEF UpdateTypeOK, UpdateSteps
      <4>5. QED BY <4>1, <4>2, <4>3, <4>4 DEF UpdateTypeOK
    <3>4. \A p \in InstallPath : disk'[p] = IF p = "tmp" THEN f ELSE disk[p]
      BY <3>1 DEF UpdateTypeOK
    <3>5. UpdateDiskInv'
      BY <1>1, <3>1, <3>2, <3>4 DEF UpdateDiskInv, AtStepInv, InstallPath
    <3>6. AtStepInv'
      BY <1>1, <3>1, <3>2, <3>4 DEF AtStepInv, UpdateTypeOK, InstallPath
    <3>7. QED BY <3>3, <3>5, <3>6
  <2>3. CASE Copy(u)
    <3>1. UpdateTypeOK'
      <4>1. updater[u].fd \in Inode BY <1>1, <2>3 DEF Copy, AtStepInv, UpdateTypeOK, InstallPath
      <4>2. whole' \subseteq Inode BY <2>3, <4>1 DEF Copy, UpdateTypeOK
      <4>3. QED BY <2>3, <4>2 DEF Copy, Step, UpdateTypeOK, UpdateSteps
    <3>2. QED BY <2>3, <3>1 DEF Copy, Step, UpdateTypeOK, UpdateDiskInv, AtStepInv, InstallPath
  <2>4. CASE CopyFails(u)
    <3>1. UpdateTypeOK'
      BY <2>4 DEF CopyFails, Fails, Leave, NotRunning, UpdateTypeOK, UpdateSteps, InstallPath
    <3>2. QED BY <2>4, <3>1 DEF CopyFails, Fails, Leave, NotRunning, UpdateTypeOK, UpdateDiskInv, AtStepInv, InstallPath
  <2>5. CASE RenameTmp(u)
    <3>1. disk["tmp"] # NoFile BY <1>1, <2>5 DEF RenameTmp, AtStepInv, UpdateTypeOK
    <3>2. /\ disk' = [disk EXCEPT !["new"] = disk["tmp"], !["tmp"] = NoFile]
          /\ updater' = [updater EXCEPT ![u].step = "verify"] /\ updater[u].step = "fetched"
          /\ UNCHANGED <<data, whole, writer, release, failures>>
      BY <2>5, <3>1 DEF RenameTmp, Move, Step
    <3>3. UpdateTypeOK' BY <3>2 DEF UpdateTypeOK, UpdateSteps, InstallPath
    <3>4. \A p \in InstallPath : disk'[p] = IF p = "tmp" THEN NoFile ELSE IF p = "new" THEN disk["tmp"] ELSE disk[p]
      BY <3>2 DEF UpdateTypeOK, InstallPath
    <3>5. QED BY <3>1, <3>2, <3>3, <3>4 DEF UpdateTypeOK, UpdateDiskInv, AtStepInv, InstallPath
  <2>6. CASE Verify(u)
    <3>1. UpdateTypeOK' BY <2>6 DEF Verify, Step, Leave, NotRunning, UpdateTypeOK, UpdateSteps
    <3>2. QED BY <2>6, <3>1 DEF Verify, Step, Leave, NotRunning, UpdateTypeOK, UpdateDiskInv, AtStepInv, InstallPath
  <2>7. CASE Backup(u)
    <3>1. updater[u].step = "backup" /\ disk["binary"] # NoFile /\ disk["new"] # NoFile
      BY <2>7 DEF Backup, AtStepInv
    <3>2. CASE /\ Move("binary", "bak") /\ Step(u, "replace")
               /\ UNCHANGED <<failures, data, whole, writer, release>>
      <4>1. UpdateTypeOK' BY <3>2 DEF Move, Step, UpdateTypeOK, UpdateSteps, InstallPath
      <4>2. \A p \in InstallPath : disk'[p] = IF p = "binary" THEN NoFile ELSE IF p = "bak" THEN disk["binary"] ELSE disk[p]
        BY <3>2 DEF Move, UpdateTypeOK, InstallPath
      <4>3. QED BY <3>1, <3>2, <4>1, <4>2 DEF Step, UpdateTypeOK, UpdateDiskInv, AtStepInv, InstallPath
    <3>3. CASE /\ Fails /\ disk' = [disk EXCEPT !["new"] = NoFile] /\ Leave(u)
               /\ UNCHANGED <<data, whole, writer, release>>
      <4>1. UpdateTypeOK' BY <3>3 DEF Fails, Leave, NotRunning, UpdateTypeOK, UpdateSteps, InstallPath
      <4>2. QED BY <3>1, <3>3, <4>1 DEF Fails, Leave, NotRunning, UpdateTypeOK, UpdateDiskInv, AtStepInv, InstallPath
    <3>4. QED BY <2>7, <3>1, <3>2, <3>3 DEF Backup
  <2>8. CASE Replace(u)
    <3>1. updater[u].step = "replace" /\ disk["binary"] = NoFile /\ disk["bak"] # NoFile /\ disk["new"] # NoFile
      BY <2>8 DEF Replace, AtStepInv
    <3>2. CASE /\ Move("new", "binary") /\ Step(u, "clean")
               /\ UNCHANGED <<failures, data, whole, writer, release>>
      <4>1. UpdateTypeOK' BY <3>2 DEF Move, Step, UpdateTypeOK, UpdateSteps, InstallPath
      <4>2. \A p \in InstallPath : disk'[p] = IF p = "new" THEN NoFile ELSE IF p = "binary" THEN disk["new"] ELSE disk[p]
        BY <3>2 DEF Move, UpdateTypeOK, InstallPath
      <4>3. QED BY <3>1, <3>2, <4>1, <4>2 DEF Step, UpdateTypeOK, UpdateDiskInv, AtStepInv, InstallPath
    <3>3. CASE /\ Fails /\ Move("bak", "binary") /\ Leave(u)
               /\ UNCHANGED <<data, whole, writer, release>>
      <4>1. UpdateTypeOK' BY <3>3 DEF Move, Fails, Leave, NotRunning, UpdateTypeOK, UpdateSteps, InstallPath
      <4>2. \A p \in InstallPath : disk'[p] = IF p = "bak" THEN NoFile ELSE IF p = "binary" THEN disk["bak"] ELSE disk[p]
        BY <3>3 DEF Move, UpdateTypeOK, InstallPath
      <4>3. QED BY <3>1, <3>3, <4>1, <4>2 DEF Fails, Leave, NotRunning, UpdateTypeOK, UpdateDiskInv, AtStepInv, InstallPath
    <3>4. QED BY <2>8, <3>1, <3>2, <3>3 DEF Replace
  <2>9. CASE Clean(u)
    <3>1. UpdateTypeOK' BY <2>9 DEF Clean, Leave, NotRunning, UpdateTypeOK, UpdateSteps, InstallPath
    <3>2. QED BY <2>9, <3>1 DEF Clean, Leave, NotRunning, UpdateTypeOK, UpdateDiskInv, AtStepInv, InstallPath
  <2>10. CASE UpdateKilled(u)
    <3>1. UpdateTypeOK' BY <2>10 DEF UpdateKilled, Fails, Leave, NotRunning, UpdateTypeOK, UpdateSteps
    <3>2. QED BY <2>10, <3>1 DEF UpdateKilled, Fails, Leave, NotRunning, UpdateTypeOK, UpdateDiskInv, AtStepInv, InstallPath
  <2>11. QED BY <1>4, <2>1, <2>2, <2>3, <2>4, <2>5, <2>6, <2>7, <2>8, <2>9, <2>10 DEF InstallUpdate
<1>5. QED BY <1>2, <1>3, <1>4 DEF UpdateNext

\* With one update command at a time, the paths of the installed program lead to files
\* of their own and only the download may be incomplete, at every step of InstallUpdate
\* (internal/selfupdate) and wherever it fails or is killed.
THEOREM UpdateInvariance == ASSUME OneUpdater PROVE UpdateSpec => []UpdateInv
BY UpdateStarts, UpdateStep, PTL DEF UpdateSpec

\* "Atomic binary replacement with backup" (README.md:82), with one update at a time:
\* a complete program is in its place or in the backup, whatever fails, and in its place
\* unless the command was killed between the two renames.
THEOREM ProgramAlwaysSurvives == ASSUME OneUpdater PROVE UpdateSpec => []ProgramSurvives
<1>1. ASSUME OneUpdater, UpdateInv PROVE ProgramSurvives
  BY <1>1 DEF UpdateInv, UpdateDiskInv, ProgramSurvives
<1>2. QED BY <1>1, UpdateInvariance, PTL

-----------------------------------------------------------------------------
(***************************************************************************)
(* Notes.  The tokens of lines are a sum; pack keeps to the budget, leaves *)
(* out only what does not fit, and repeats nothing; and a listing has each *)
(* record once.                                                            *)
(***************************************************************************)
USE NoteAssumption

CostOf == [t \in NoteTitle |-> Cost(t)]
Itself == [t \in NoteTitle |-> t]

LEMMA TokensAreSum ==
  ASSUME NEW S \in SUBSET NoteTitle, IsFiniteSet(S)
  PROVE  Counts(CostOf, Itself, S) /\ Tokens(S) = SumOf(CostOf, Itself, S)
<1> DEFINE Turn(f) == [T \in SUBSET S |-> IF T = {} THEN 0 ELSE Cost(AnyOf(T)) + f[T \ {AnyOf(T)}]]
           iter == CHOOSE f : f = Turn(f)
<1>1. Tokens(S) = iter[S]
  BY DEF Tokens, MapThenSumSet, MapThenFoldSet, AnyOf
<1>2. Counts(CostOf, Itself, S)
  BY DEF Counts, CostOf, Itself
<1>3. ASSUME NEW f PROVE Turn(f) = SumTurn(CostOf, Itself, S, f)
  <2>1. \A T \in SUBSET S : T # {} => AnyOf(T) \in NoteTitle
    BY DEF AnyOf
  <2>2. \A T \in SUBSET S : T # {} => CostOf[Itself[AnyOf(T)]] = Cost(AnyOf(T))
    BY <2>1 DEF CostOf, Itself
  <2> QED BY <2>2 DEF SumTurn
<1>4. PICK f : Solves(f, CostOf, Itself, S)
  BY <1>2, SumTurns
<1>5. f = Turn(f)
  BY <1>3, <1>4 DEF Solves
<1> HIDE DEF Turn
<1>6. iter = Turn(iter)
  BY <1>5
<1> HIDE DEF iter
<1>7. Solves(iter, CostOf, Itself, S)
  BY <1>2, <1>3, <1>6, SumTurns
<1>8. PICK e : Solves(e, CostOf, Itself, S) /\ SumOf(CostOf, Itself, S) = e[S]
  BY <1>2, SumRecursion DEF SumSolved
<1>9. iter[S] = e[S]
  <2>1. S \subseteq S /\ \A x \in S : CostOf[Itself[x]] = CostOf[Itself[x]]
    OBVIOUS
  <2>2. \A T \in SUBSET S : iter[T] = e[T]
    BY <1>7, <1>8, <2>1, SameTurns
  <2> QED BY <2>2
<1> QED BY <1>1, <1>2, <1>8, <1>9

\* What the proofs below use of Tokens.
LEMMA TokensFacts ==
  ASSUME NEW S \in SUBSET NoteTitle, IsFiniteSet(S)
  PROVE  /\ Tokens(S) \in Nat
         /\ \A x \in NoteTitle : x \notin S => Tokens(S \cup {x}) = Tokens(S) + Cost(x)
         /\ \A R \in SUBSET S : Tokens(R) \in Nat /\ Tokens(R) <= Tokens(S)
<1>1. ASSUME NEW R \in SUBSET NoteTitle, IsFiniteSet(R)
      PROVE  Tokens(R) \in Nat /\ Counts(CostOf, Itself, R) /\ Tokens(R) = SumOf(CostOf, Itself, R)
  BY <1>1, TokensAreSum, SumType
<1>2. ASSUME NEW x \in NoteTitle, x \notin S PROVE Tokens(S \cup {x}) = Tokens(S) + Cost(x)
  <2> DEFINE R == S \cup {x}
  <2>1. R \in SUBSET NoteTitle /\ IsFiniteSet(R) /\ x \in R /\ R \ {x} = S
    BY <1>2, FS_AddElement
  <2>2. CostOf[Itself[x]] = Cost(x) /\ Cost(x) \in Nat
    BY DEF CostOf, Itself
  <2> HIDE DEF R
  <2>3. Tokens(R) = SumOf(CostOf, Itself, R) /\ Tokens(S) = SumOf(CostOf, Itself, S)
        /\ Counts(CostOf, Itself, R) /\ Tokens(S) \in Nat
    BY <1>1, <2>1
  <2>4. SumOf(CostOf, Itself, R) = CostOf[Itself[x]] + SumOf(CostOf, Itself, R \ {x})
    BY <2>1, <2>3, SumRemove
  <2>5. Tokens(R) = Cost(x) + Tokens(S)
    BY <2>1, <2>2, <2>3, <2>4
  <2> QED BY <2>2, <2>3, <2>5 DEF R
<1>3. ASSUME NEW R \in SUBSET S PROVE Tokens(R) \in Nat /\ Tokens(R) <= Tokens(S)
  <2>1. R \in SUBSET NoteTitle /\ IsFiniteSet(R) /\ S \ R \in SUBSET NoteTitle /\ IsFiniteSet(S \ R)
    BY FS_Subset
  <2>2. /\ Tokens(R) \in Nat /\ Tokens(R) = SumOf(CostOf, Itself, R)
        /\ Tokens(S \ R) \in Nat /\ Tokens(S \ R) = SumOf(CostOf, Itself, S \ R)
        /\ Tokens(S) \in Nat /\ Tokens(S) = SumOf(CostOf, Itself, S) /\ Counts(CostOf, Itself, S)
    BY <1>1, <2>1
  <2>3. SumOf(CostOf, Itself, S) = SumOf(CostOf, Itself, R) + SumOf(CostOf, Itself, S \ R)
    BY <2>1, <2>2, SumSplit
  <2>4. Tokens(S) = Tokens(R) + Tokens(S \ R)
    BY <2>2, <2>3
  <2> QED BY <2>2, <2>4
<1> QED BY <1>1, <1>2, <1>3

\* Sequences without repetition, and what is in them up to a place.
Members(s) == {s[i] : i \in DOMAIN s}
Distinct(s) == \A i, j \in DOMAIN s : s[i] = s[j] => i = j
UpToPlace(s, k) == {s[i] : i \in {i \in DOMAIN s : i <= k}}

LEMMA MembersFinite ==
  ASSUME NEW T, NEW s \in Seq(T)
  PROVE  IsFiniteSet(Members(s)) /\ Members(s) \in SUBSET T
<1>1. Len(s) \in Nat /\ DOMAIN s = 1..Len(s) /\ \A i \in DOMAIN s : s[i] \in T
  OBVIOUS
<1>2. IsFiniteSet(DOMAIN s)
  <2>1. 1 \in Int /\ Len(s) \in Int
    BY <1>1
  <2>2. IsFiniteSet(1..Len(s))
    BY ONLY <2>1, FS_Interval
  <2> QED BY <1>1, <2>2
<1>3. s \in Surjection(DOMAIN s, Members(s))
  BY <1>1 DEF Surjection, Members
<1>4. IsFiniteSet(Members(s))
  BY <1>2, <1>3, FS_Surjection
<1> QED BY <1>1, <1>4 DEF Members

\* One more line of a sequence without repetition.
LEMMA AppendDistinct ==
  ASSUME NEW T, NEW s \in Seq(T), Distinct(s), NEW x \in T, x \notin Members(s)
  PROVE  /\ Append(s, x) \in Seq(T) /\ Distinct(Append(s, x))
         /\ Members(Append(s, x)) = Members(s) \cup {x}
<1> DEFINE a == Append(s, x)
<1>1. /\ a \in Seq(T) /\ DOMAIN a = 1..(Len(s) + 1) /\ DOMAIN s = 1..Len(s) /\ Len(s) \in Nat
      /\ \A i \in 1..Len(s) : a[i] = s[i]
      /\ a[Len(s) + 1] = x
  OBVIOUS
<1>2. \A i \in 1..Len(s) : s[i] # x
  BY <1>1 DEF Members
<1> HIDE DEF a
<1>3. ASSUME NEW i \in DOMAIN a, NEW j \in DOMAIN a, a[i] = a[j] PROVE i = j
  <2>1. CASE i \in 1..Len(s) /\ j \in 1..Len(s)
    BY <2>1, <1>1, <1>3 DEF Distinct
  <2>2. CASE i = Len(s) + 1 \/ j = Len(s) + 1
    BY <2>2, <1>1, <1>2, <1>3
  <2> QED BY <2>1, <2>2, <1>1
<1>4. ASSUME NEW y \in Members(s) \cup {x} PROVE y \in Members(a)
  <2>1. CASE y = x
    BY <2>1, <1>1 DEF Members
  <2>2. CASE y \in Members(s)
    <3>1. PICK i \in 1..Len(s) : s[i] = y
      BY <2>2, <1>1 DEF Members
    <3>2. i \in DOMAIN a /\ a[i] = y
      BY <3>1, <1>1
    <3> QED BY <3>2 DEF Members
  <2> QED BY <2>1, <2>2
<1>5. ASSUME NEW y \in Members(a) PROVE y \in Members(s) \cup {x}
  <2>1. PICK i \in DOMAIN a : a[i] = y
    BY DEF Members
  <2>2. CASE i \in 1..Len(s)
    BY <2>1, <2>2, <1>1 DEF Members
  <2>3. CASE i = Len(s) + 1
    BY <2>1, <2>3, <1>1
  <2> QED BY <2>2, <2>3, <1>1
<1> QED BY <1>1, <1>3, <1>4, <1>5 DEF Distinct, a

\* What pack has taken of the first i lines.
PackTurn(f, budget, used, lines) ==
  [i \in 0..Len(lines) |->
     IF i = 0 THEN [used |-> used, lines |-> <<>>]
     ELSE IF f[i - 1].used + Cost(lines[i]) <= budget
          THEN [used |-> f[i - 1].used + Cost(lines[i]), lines |-> Append(f[i - 1].lines, lines[i])]
          ELSE f[i - 1]]
PackIter(budget, used, lines) == CHOOSE f : f = PackTurn(f, budget, used, lines)

LEMMA PackRecursion ==
  ASSUME NEW budget \in Nat, NEW used \in Nat, NEW lines \in Seq(NoteTitle)
  PROVE  LET f == PackIter(budget, used, lines)
         IN  /\ f = PackTurn(f, budget, used, lines)
             /\ Pack(budget, used, lines) = f[Len(lines)].lines
<1> DEFINE V == [used : Nat, lines : Seq(NoteTitle)]
           n == Len(lines)
           base == [used |-> used, lines |-> <<>>]
           Turned(i, v) == IF v.used + Cost(lines[i]) <= budget
                           THEN [used |-> v.used + Cost(lines[i]), lines |-> Append(v.lines, lines[i])]
                           ELSE v
           step == [p \in (1..n) \X V |-> Turned(p[1], p[2])]
<1>1. n \in Nat /\ base \in V /\ \A i \in 1..n : lines[i] \in NoteTitle
  OBVIOUS
<1>2. ASSUME NEW i \in 1..n, NEW v \in V PROVE Turned(i, v) \in V
  <2>1. Cost(lines[i]) \in Nat /\ lines[i] \in NoteTitle /\ v.used \in Nat /\ v.lines \in Seq(NoteTitle)
    BY <1>1
  <2>2. v.used + Cost(lines[i]) \in Nat /\ Append(v.lines, lines[i]) \in Seq(NoteTitle)
    BY <2>1
  <2> QED BY <2>2
<1>3. step \in [(1..n) \X V -> V] /\ \A i \in 1..n : \A v \in V : step[<<i, v>>] = Turned(i, v)
  <2> HIDE DEF Turned, V
  <2> QED BY <1>2
<1> HIDE DEF V, base, step, n
<1>4. PICK f : Steps(f, n, V, base, step)
  <2>1. n \in Nat
    BY <1>1
  <2>2. base \in V
    BY <1>1
  <2>3. step \in [(1..n) \X V -> V]
    BY <1>3
  <2> QED BY ONLY <2>1, <2>2, <2>3, CountedRecursion
<1> HIDE DEF Turned
<1>5. \A i \in 1..n : f[i] = Turned(i, f[i - 1])
  <2>1. \A i \in 1..n : i - 1 \in 0..n
    BY <1>1
  <2> QED BY <1>3, <1>4, <2>1 DEF Steps
<1>6. f = PackTurn(f, budget, used, lines)
  <2> DEFINE g == PackTurn(f, budget, used, lines)
  <2>1. g = [i \in 0..n |-> IF i = 0 THEN base ELSE Turned(i, f[i - 1])]
    BY DEF PackTurn, Turned, base, n
  <2> HIDE DEF g
  <2>2. ASSUME NEW i \in 0..n PROVE f[i] = g[i]
    <3>1. CASE i = 0
      BY <1>4, <2>1, <3>1 DEF Steps
    <3>2. CASE i # 0
      <4>1. i \in 1..n
        BY <1>1, <3>2
      <4> QED BY <1>5, <2>1, <3>2, <4>1
    <3> QED BY <3>1, <3>2
  <2> QED BY <1>4, <2>1, <2>2 DEF g, Steps
<1>7. PackIter(budget, used, lines) = PackTurn(PackIter(budget, used, lines), budget, used, lines)
  BY <1>6 DEF PackIter
<1>8. Pack(budget, used, lines) = PackIter(budget, used, lines)[Len(lines)].lines
  BY DEF Pack, PackIter, PackTurn
<1> QED BY <1>7, <1>8

\* A place of the packing: what is taken of the first i lines, and why the others are not.
Packed(r, i, budget, used, lines) ==
  /\ r.used \in Nat /\ r.lines \in Seq(NoteTitle) /\ Distinct(r.lines)
  /\ Members(r.lines) \subseteq UpToPlace(lines, i)
  /\ r.used = used + Tokens(Members(r.lines))
  /\ used <= budget => r.used <= budget
  /\ \A j \in 1..i : lines[j] \notin Members(r.lines) =>
       used + Tokens(Members(r.lines) \cap UpToPlace(lines, j - 1)) + Cost(lines[j]) > budget

LEMMA PackedMore ==
  ASSUME NEW budget \in Nat, NEW used \in Nat, NEW lines \in Seq(NoteTitle), Distinct(lines),
         NEW i \in 1..Len(lines), NEW r, Packed(r, i - 1, budget, used, lines),
         r.used + Cost(lines[i]) <= budget
  PROVE  Packed([used |-> r.used + Cost(lines[i]), lines |-> Append(r.lines, lines[i])],
                i, budget, used, lines)
<1> DEFINE x == lines[i]
           more == Append(r.lines, x)
           now == [used |-> r.used + Cost(x), lines |-> more]
<1>1. /\ Len(lines) \in Nat /\ i \in Nat /\ i \in DOMAIN lines /\ DOMAIN lines = 1..Len(lines)
      /\ x \in NoteTitle /\ Cost(x) \in Nat /\ \A j \in 1..Len(lines) : lines[j] \in NoteTitle
  OBVIOUS
<1>2. x \notin UpToPlace(lines, i - 1)
  <2>1. SUFFICES ASSUME NEW k \in DOMAIN lines, k <= i - 1, lines[k] = lines[i] PROVE FALSE
    BY DEF UpToPlace
  <2>2. k = i
    BY <1>1, <2>1 DEF Distinct
  <2> QED BY <1>1, <2>1, <2>2
<1>3. UpToPlace(lines, i) = UpToPlace(lines, i - 1) \cup {x}
  <2>1. {k \in DOMAIN lines : k <= i} = {k \in DOMAIN lines : k <= i - 1} \cup {i}
    BY <1>1
  <2> QED BY <2>1 DEF UpToPlace
<1>0. r.used + Cost(x) <= budget
  OBVIOUS
<1>4. /\ r.used \in Nat /\ r.lines \in Seq(NoteTitle) /\ Distinct(r.lines)
      /\ Members(r.lines) \subseteq UpToPlace(lines, i - 1)
      /\ r.used = used + Tokens(Members(r.lines))
  BY DEF Packed
<1>5. more \in Seq(NoteTitle) /\ Distinct(more) /\ Members(more) = Members(r.lines) \cup {x}
  <2>1. x \notin Members(r.lines)
    BY <1>2, <1>4
  <2> HIDE DEF x
  <2> QED BY <1>1, <1>4, <2>1, AppendDistinct
<1>6. Tokens(Members(more)) = Tokens(Members(r.lines)) + Cost(x) /\ Tokens(Members(r.lines)) \in Nat
  <2>1. Members(r.lines) \in SUBSET NoteTitle /\ IsFiniteSet(Members(r.lines)) /\ x \notin Members(r.lines)
    BY <1>2, <1>4, MembersFinite
  <2> HIDE DEF x, more
  <2> QED BY <1>1, <1>5, <2>1, TokensFacts
<1> HIDE DEF x, more
<1>7. now.used = r.used + Cost(x) /\ now.lines = more
  OBVIOUS
<1>8. /\ now.used \in Nat /\ now.used = used + Tokens(Members(more)) /\ now.used <= budget
  <2> DEFINE now1 == now.used
             old == r.used
             cost == Cost(x)
             before == Tokens(Members(r.lines))
             after == Tokens(Members(more))
  <2>1. /\ now1 = old + cost /\ cost \in Nat /\ old \in Nat /\ old + cost <= budget
        /\ old = used + before /\ after = before + cost /\ before \in Nat
    BY <1>0, <1>1, <1>4, <1>6, <1>7
  <2> HIDE DEF now1, old, cost, before, after
  <2>2. now1 \in Nat /\ now1 = used + after /\ now1 <= budget
    BY ONLY <2>1, used \in Nat, budget \in Nat
  <2> QED BY <2>2 DEF now1, after
<1>9. ASSUME NEW j \in 1..i, lines[j] \notin Members(more)
      PROVE  used + Tokens(Members(more) \cap UpToPlace(lines, j - 1)) + Cost(lines[j]) > budget
  <2>1. j # i /\ j \in 1..(i - 1)
    <3>1. lines[i] \in Members(more)
      BY <1>5 DEF x
    <3>2. j # i
      BY <1>9, <3>1
    <3> QED BY <1>1, <3>2
  <2>2. lines[j] \notin Members(r.lines)
    BY <1>5, <1>9
  <2>3. x \notin UpToPlace(lines, j - 1)
    <3>1. UpToPlace(lines, j - 1) \subseteq UpToPlace(lines, i - 1)
      BY <1>1, <2>1 DEF UpToPlace
    <3> QED BY <1>2, <3>1
  <2>4. Members(more) \cap UpToPlace(lines, j - 1) = Members(r.lines) \cap UpToPlace(lines, j - 1)
    BY <1>5, <2>3
  <2> QED BY <2>1, <2>2, <2>4 DEF Packed
<1>10. Packed(now, i, budget, used, lines)
  <2>1. Members(more) \subseteq UpToPlace(lines, i)
    BY <1>3, <1>4, <1>5
  <2> HIDE DEF now
  <2> QED BY <1>5, <1>7, <1>8, <1>9, <2>1 DEF Packed
<1> QED BY <1>10 DEF x, more

LEMMA PackedSkip ==
  ASSUME NEW budget \in Nat, NEW used \in Nat, NEW lines \in Seq(NoteTitle),
         NEW i \in 1..Len(lines), NEW r, Packed(r, i - 1, budget, used, lines),
         ~ (r.used + Cost(lines[i]) <= budget)
  PROVE  Packed(r, i, budget, used, lines)
<1>1. /\ Len(lines) \in Nat /\ i \in Nat /\ DOMAIN lines = 1..Len(lines)
      /\ Cost(lines[i]) \in Nat
  OBVIOUS
<1>2. UpToPlace(lines, i - 1) \subseteq UpToPlace(lines, i)
  BY <1>1 DEF UpToPlace
<1>3. /\ r.used \in Nat /\ Members(r.lines) \subseteq UpToPlace(lines, i - 1)
      /\ r.used = used + Tokens(Members(r.lines))
  BY DEF Packed
<1>4. ASSUME NEW j \in 1..i, lines[j] \notin Members(r.lines)
      PROVE  used + Tokens(Members(r.lines) \cap UpToPlace(lines, j - 1)) + Cost(lines[j]) > budget
  <2>1. CASE j = i
    <3>1. Members(r.lines) \cap UpToPlace(lines, j - 1) = Members(r.lines)
      BY <1>3, <2>1
    <3>2. used + Tokens(Members(r.lines) \cap UpToPlace(lines, j - 1)) = r.used
      BY <1>3, <3>1
    <3>3. r.used + Cost(lines[i]) > budget
      BY <1>1, <1>3
    <3> QED BY <2>1, <3>2, <3>3
  <2>2. CASE j # i
    <3>1. j \in 1..(i - 1)
      BY <1>1, <2>2
    <3> QED BY <1>4, <3>1 DEF Packed
  <2> QED BY <2>1, <2>2
<1> QED BY <1>2, <1>3, <1>4 DEF Packed

LEMMA PackIs ==
  ASSUME NEW budget \in Nat, NEW used \in Nat, NEW lines \in Seq(NoteTitle), Distinct(lines)
  PROVE  \E r : Packed(r, Len(lines), budget, used, lines) /\ Pack(budget, used, lines) = r.lines
<1> DEFINE f == PackIter(budget, used, lines)
           n == Len(lines)
           P == {i \in 0..n : Packed(f[i], i, budget, used, lines)}
<1>0. n \in Nat
  OBVIOUS
<1>1. f = PackTurn(f, budget, used, lines) /\ Pack(budget, used, lines) = f[n].lines
  BY PackRecursion
<1> HIDE DEF f
<1>2. f[0] = [used |-> used, lines |-> <<>>]
  <2>1. 0 \in 0..n
    BY <1>0
  <2> QED BY <1>1, <2>1 DEF PackTurn
<1>3. ASSUME NEW i \in 1..n
      PROVE  f[i] = IF f[i - 1].used + Cost(lines[i]) <= budget
                    THEN [used |-> f[i - 1].used + Cost(lines[i]), lines |-> Append(f[i - 1].lines, lines[i])]
                    ELSE f[i - 1]
  <2>1. i \in 0..n /\ i # 0
    BY <1>0
  <2> QED BY <1>1, <2>1 DEF PackTurn
<1>4. 0 \in P
  <2>1. Members(<<>>) = {} /\ Distinct(<<>>) /\ <<>> \in Seq(NoteTitle)
    BY DEF Members, Distinct
  <2>2. Tokens({}) = 0
    <3>1. {} \in SUBSET NoteTitle /\ IsFiniteSet({})
      BY FS_EmptySet
    <3>2. Tokens({}) = SumOf(CostOf, Itself, {})
      BY <3>1, TokensAreSum
    <3> QED BY <3>2, SumEmpty
  <2>3. 1..0 = {}
    OBVIOUS
  <2>4. Packed([used |-> used, lines |-> <<>>], 0, budget, used, lines)
    <3> DEFINE none == [used |-> used, lines |-> <<>>]
    <3>1. none.used = used /\ none.lines = <<>>
      OBVIOUS
    <3> HIDE DEF none
    <3>2. none.used = used + Tokens(Members(none.lines))
      <4>1. Tokens(Members(none.lines)) = Tokens({})
        BY <2>1, <3>1
      <4>2. used + Tokens(Members(none.lines)) = used
        BY <2>2, <4>1
      <4> QED BY <3>1, <4>2
    <3>3. Packed(none, 0, budget, used, lines)
      BY <2>1, <2>3, <3>1, <3>2 DEF Packed
    <3> QED BY <3>3 DEF none
  <2> QED BY <1>0, <1>2, <2>4
<1>5. ASSUME NEW i \in 0..(n - 1), i \in P PROVE i + 1 \in P
  <2>1. i + 1 \in 1..n /\ i + 1 \in 0..n /\ (i + 1) - 1 = i
    BY <1>0
  <2>2. Packed(f[(i + 1) - 1], (i + 1) - 1, budget, used, lines)
    BY <1>5, <2>1
  <2> DEFINE k == i + 1
  <2>3. k \in 1..Len(lines) /\ Packed(f[k - 1], k - 1, budget, used, lines) /\ k \in 0..n
    BY <2>1, <2>2
  <2> HIDE DEF k
  <2>4. Packed(f[k], k, budget, used, lines)
    <3>1. CASE f[k - 1].used + Cost(lines[k]) <= budget
      BY <1>3, <2>3, <3>1, PackedMore
    <3>2. CASE ~ (f[k - 1].used + Cost(lines[k]) <= budget)
      BY <1>3, <2>3, <3>2, PackedSkip
    <3> QED BY <3>1, <3>2
  <2> QED BY <2>3, <2>4 DEF k
<1> HIDE DEF P
<1>6. \A i \in 0..n : i \in P
  BY <1>0, <1>4, <1>5, UpTo
<1>7. n \in P
  BY <1>0, <1>6
<1> QED BY <1>1, <1>7 DEF P

\* An ordering of a finite set has each of its elements once.
LEMMA OrderingIs ==
  ASSUME NEW T, IsFiniteSet(T), NEW order \in SetToSeqs(T)
  PROVE  order \in Seq(T) /\ Distinct(order) /\ Members(order) = T
<1> DEFINE n == Cardinality(T)
<1>1. n \in Nat /\ IsFiniteSet(1..n) /\ Cardinality(1..n) = n
  <2>1. n \in Nat
    BY FS_CardinalityType
  <2> HIDE DEF n
  <2>2. 1 \in Int /\ n \in Int
    BY <2>1
  <2>3. IsFiniteSet(1..n) /\ Cardinality(1..n) = IF 1 > n THEN 0 ELSE n - 1 + 1
    BY <2>2, FS_Interval
  <2> QED BY <2>1, <2>3
<1>2. order \in [1..n -> T] /\ \A i, j \in 1..n : i # j => order[i] # order[j]
  BY DEF SetToSeqs
<1> HIDE DEF n
<1>3. order \in Seq(T) /\ DOMAIN order = 1..n
  BY <1>1, <1>2
<1>4. Distinct(order)
  BY <1>2, <1>3 DEF Distinct
<1>5. order \in Injection(1..n, T)
  BY <1>2 DEF Injection, IsInjective
<1>6. order \in Surjection(1..n, T)
  BY <1>1, <1>5, FS_Injection DEF n
<1>7. \A t \in T : \E i \in 1..n : order[i] = t
  BY <1>6 DEF Surjection
<1>8. Members(order) = T
  BY <1>2, <1>3, <1>7 DEF Members
<1> QED BY <1>3, <1>4, <1>8

\* Records with numbers of their own can be put in the order of these, the highest first.
LEMMA RankedOrder ==
  ASSUME NEW T, IsFiniteSet(T), NEW id \in [T -> Nat],
         \A t, u \in T : id[t] = id[u] => t = u
  PROVE  \E order \in SetToSeqs(T) : \A i, j \in DOMAIN order : i < j => id[order[i]] > id[order[j]]
<1> DEFINE n == Cardinality(T)
           Above(t) == {u \in T : id[u] >= id[t]}
           rank == [t \in T |-> Cardinality(Above(t))]
<1>1. n \in Nat /\ IsFiniteSet(1..n) /\ Cardinality(1..n) = n
  <2>1. n \in Nat
    BY FS_CardinalityType
  <2> HIDE DEF n
  <2>2. 1 \in Int /\ n \in Int
    BY <2>1
  <2>3. IsFiniteSet(1..n) /\ Cardinality(1..n) = IF 1 > n THEN 0 ELSE n - 1 + 1
    BY <2>2, FS_Interval
  <2> QED BY <2>1, <2>3
<1>2. ASSUME NEW t \in T
      PROVE  IsFiniteSet(Above(t)) /\ rank[t] \in 1..n /\ t \in Above(t)
  <2>1. t \in Above(t) /\ Above(t) \subseteq T
    OBVIOUS
  <2> HIDE DEF Above
  <2>2. IsFiniteSet(Above(t)) /\ Cardinality(Above(t)) <= n /\ Cardinality(Above(t)) \in Nat
    BY <2>1, FS_Subset, FS_CardinalityType
  <2>3. Cardinality(Above(t)) # 0
    BY <2>1, <2>2, FS_EmptySet
  <2> QED BY <1>1, <2>1, <2>2, <2>3
<1>3. ASSUME NEW t \in T, NEW u \in T, id[t] > id[u] PROVE rank[t] < rank[u]
  <2>1. Above(t) \subseteq Above(u) /\ u \in Above(u) /\ u \notin Above(t)
    BY <1>3
  <2>2. IsFiniteSet(Above(u)) /\ IsFiniteSet(Above(t))
    BY <1>2
  <2> HIDE DEF Above
  <2>3. /\ Cardinality(Above(t)) <= Cardinality(Above(u))
        /\ Cardinality(Above(t)) = Cardinality(Above(u)) => Above(t) = Above(u)
        /\ Cardinality(Above(t)) \in Nat /\ Cardinality(Above(u)) \in Nat
    BY <2>1, <2>2, FS_Subset, FS_CardinalityType
  <2> QED BY <2>1, <2>3
<1>4. \A t, u \in T : rank[t] = rank[u] => t = u
  <2>1. ASSUME NEW t \in T, NEW u \in T, t # u PROVE rank[t] # rank[u]
    <3>1. id[t] > id[u] \/ id[u] > id[t]
      BY <2>1
    <3>2. rank[t] \in Nat /\ rank[u] \in Nat
      <4>1. rank[t] \in 1..n /\ rank[u] \in 1..n
        BY <1>2
      <4> HIDE DEF rank, n
      <4> QED BY <1>1, <4>1
    <3> HIDE DEF rank
    <3> QED BY <1>3, <3>1, <3>2
  <2> QED BY <2>1
<1>5. rank \in [T -> 1..n]
  BY <1>2
<1> HIDE DEF rank, n
<1>6. rank \in Injection(T, 1..n)
  BY <1>4, <1>5 DEF Injection, IsInjective
<1>7. rank \in Surjection(T, 1..n)
  BY <1>1, <1>6, FS_Injection DEF n
<1>8. \A i \in 1..n : \E t \in T : rank[t] = i
  BY <1>7 DEF Surjection
<1> DEFINE order == [i \in 1..n |-> CHOOSE t \in T : rank[t] = i]
<1>9. \A i \in 1..n : order[i] \in T /\ rank[order[i]] = i
  BY <1>8
<1>10. order \in [1..n -> T] /\ DOMAIN order = 1..n
  BY <1>9
<1> HIDE DEF order
<1>11. order \in SetToSeqs(T)
  <2>1. \A i, j \in 1..n : i # j => order[i] # order[j]
    BY <1>9
  <2> QED BY <1>10, <2>1 DEF SetToSeqs, n
<1>12. ASSUME NEW i \in DOMAIN order, NEW j \in DOMAIN order, i < j
       PROVE  id[order[i]] > id[order[j]]
  <2>1. order[i] \in T /\ order[j] \in T /\ rank[order[i]] = i /\ rank[order[j]] = j
        /\ i \in 1..n /\ j \in 1..n
    BY <1>9, <1>10
  <2>2. order[i] # order[j]
    BY <1>12, <2>1
  <2>3. id[order[i]] # id[order[j]] /\ id[order[i]] \in Nat /\ id[order[j]] \in Nat
    BY <2>1, <2>2
  <2>4. ~ (id[order[j]] > id[order[i]])
    <3>1. SUFFICES ASSUME id[order[j]] > id[order[i]] PROVE FALSE
      OBVIOUS
    <3>2. rank[order[j]] < rank[order[i]]
      BY <1>3, <2>1, <3>1
    <3> QED BY <1>1, <1>12, <2>1, <3>2
  <2> QED BY <2>3, <2>4
<1> QED BY <1>11, <1>12

\* One sequence after another.
LEMMA ConcatDistinct ==
  ASSUME NEW T, NEW a \in Seq(T), NEW b \in Seq(T), Distinct(a), Distinct(b),
         Members(a) \cap Members(b) = {}
  PROVE  /\ a \o b \in Seq(T) /\ Distinct(a \o b) /\ Members(a \o b) = Members(a) \cup Members(b)
         /\ \A i \in DOMAIN a : i \in DOMAIN (a \o b) /\ (a \o b)[i] = a[i]
<1> DEFINE c == a \o b
           m == Len(a)
<1>1. /\ c \in Seq(T) /\ m \in Nat /\ Len(b) \in Nat
      /\ DOMAIN a = 1..m /\ DOMAIN b = 1..Len(b) /\ DOMAIN c = 1..(m + Len(b))
  OBVIOUS
<1>2. \A i \in 1..m : i \in DOMAIN c /\ c[i] = a[i]
  OBVIOUS
<1>3. \A i \in DOMAIN c : i \notin 1..m => i - m \in DOMAIN b /\ c[i] = b[i - m]
  OBVIOUS
<1>4. \A i \in DOMAIN b : m + i \in DOMAIN c /\ c[m + i] = b[i]
  OBVIOUS
<1> HIDE DEF c, m
<1>5. \A i \in 1..m : a[i] \in Members(a)
  BY <1>1 DEF Members
<1>6. \A i \in DOMAIN b : b[i] \in Members(b)
  BY DEF Members
<1>7. ASSUME NEW i \in DOMAIN c, NEW j \in DOMAIN c, c[i] = c[j] PROVE i = j
  <2>1. CASE i \in 1..m /\ j \in 1..m
    <3>1. a[i] = a[j]
      BY <1>2, <1>7, <2>1
    <3> QED BY <1>1, <2>1, <3>1 DEF Distinct
  <2>2. CASE i \notin 1..m /\ j \notin 1..m
    <3>1. i - m \in DOMAIN b /\ j - m \in DOMAIN b /\ b[i - m] = b[j - m]
      BY <1>3, <1>7, <2>2
    <3>2. i - m = j - m
      BY <3>1 DEF Distinct
    <3> QED BY <1>1, <3>2
  <2>3. CASE i \in 1..m /\ j \notin 1..m
    <3>1. c[i] \in Members(a) /\ c[j] \in Members(b)
      BY <1>2, <1>3, <1>5, <1>6, <2>3
    <3> QED BY <1>7, <3>1
  <2>4. CASE i \notin 1..m /\ j \in 1..m
    <3>1. c[j] \in Members(a) /\ c[i] \in Members(b)
      BY <1>2, <1>3, <1>5, <1>6, <2>4
    <3> QED BY <1>7, <3>1
  <2> QED BY <2>1, <2>2, <2>3, <2>4
<1>8. ASSUME NEW x \in Members(c) PROVE x \in Members(a) \cup Members(b)
  <2>1. PICK i \in DOMAIN c : c[i] = x
    BY DEF Members
  <2> QED BY <1>2, <1>3, <1>5, <1>6, <2>1
<1>9. Members(a) \subseteq Members(c)
  BY <1>1, <1>2 DEF Members
<1>10. ASSUME NEW x \in Members(b) PROVE x \in Members(c)
  <2>1. PICK i \in DOMAIN b : b[i] = x
    BY DEF Members
  <2>2. m + i \in DOMAIN c /\ c[m + i] = x
    BY <1>4, <2>1
  <2> QED BY <2>2 DEF Members
<1>11. Distinct(c)
  BY <1>7 DEF Distinct
<1> QED BY <1>1, <1>2, <1>8, <1>9, <1>10, <1>11 DEF c

\* The records: each has a number of its own among those given out.
NotesType ==
  /\ notes \in [NoteTitle -> Note \cup {NoNote}] /\ made \in 0..MaxNotes
  /\ \A t \in NoteTitle : notes[t] # NoNote => notes[t].id <= made
  /\ \A t, u \in NoteTitle :
       notes[t] # NoNote /\ notes[u] # NoNote /\ notes[t].id = notes[u].id => t = u

\* The titles with a record are finitely many.
LEMMA RecordsFinite ==
  ASSUME NotesType, NEW T \in SUBSET NoteTitle, \A t \in T : notes[t] # NoNote
  PROVE  /\ IsFiniteSet(T)
         /\ \A t \in T : notes[t] \in Note /\ notes[t].id \in 1..MaxNotes
         /\ \A t, u \in T : notes[t].id = notes[u].id => t = u
<1> DEFINE id == [t \in T |-> notes[t].id]
<1>1. \A t \in T : notes[t] \in Note /\ notes[t].id \in 1..MaxNotes
  BY DEF NotesType, Note
<1>2. \A t, u \in T : notes[t].id = notes[u].id => t = u
  BY DEF NotesType
<1>3. id \in [T -> 1..MaxNotes] /\ \A t, u \in T : id[t] = id[u] => t = u
  BY <1>1, <1>2
<1> HIDE DEF id
<1>4. id \in Injection(T, 1..MaxNotes)
  BY <1>3 DEF Injection, IsInjective
<1>5. IsFiniteSet(1..MaxNotes)
  <2>1. 1 \in Int /\ MaxNotes \in Int
    BY DEF NoteAssumption
  <2> QED BY <2>1, FS_Interval
<1>6. IsFiniteSet(T)
  BY <1>4, <1>5, FS_Injection
<1> QED BY <1>1, <1>2, <1>6

\* A listing has the records it is of, each once.
Listed(S) == {t \in S : notes[t] # NoNote /\ ~ notes[t].archived}
LEMMA ListingIs ==
  ASSUME NotesType, NEW S \in SUBSET NoteTitle
  PROVE  /\ Listing(S) \in Seq(NoteTitle) /\ Distinct(Listing(S))
         /\ Members(Listing(S)) = Listed(S) /\ IsFiniteSet(Listed(S))
<1> DEFINE T == Listed(S)
           id == [t \in T |-> notes[t].id]
<1>1. T \in SUBSET NoteTitle /\ \A t \in T : notes[t] # NoNote
  BY DEF Listed
<1>2. Listing(S) = CHOOSE order \in SetToSeqs(T) : Newest(order)
  BY DEF Listing, Listed
<1> HIDE DEF T
<1>3. /\ IsFiniteSet(T) /\ \A t \in T : notes[t] \in Note /\ notes[t].id \in 1..MaxNotes
      /\ \A t, u \in T : notes[t].id = notes[u].id => t = u
  BY <1>1, RecordsFinite
<1>4. id \in [T -> Nat] /\ \A t, u \in T : id[t] = id[u] => t = u
  BY <1>3
<1>5. \A t \in T : id[t] = notes[t].id
  OBVIOUS
<1> HIDE DEF id
<1>6. PICK order \in SetToSeqs(T) : \A i, j \in DOMAIN order : i < j => id[order[i]] > id[order[j]]
  BY <1>3, <1>4, RankedOrder
<1>7. \A i \in DOMAIN order : order[i] \in T
  BY <1>3, OrderingIs DEF Members
<1>8. Newest(order)
  BY <1>5, <1>6, <1>7 DEF Newest
<1>9. Listing(S) \in SetToSeqs(T)
  BY <1>2, <1>8
<1>10. Listing(S) \in Seq(T) /\ Distinct(Listing(S)) /\ Members(Listing(S)) = T
  BY <1>3, <1>9, OrderingIs
<1>11. Listing(S) \in Seq(NoteTitle)
  BY <1>1, <1>10
<1> QED BY <1>3, <1>10, <1>11 DEF T

\* What a hook holds, what was printed, and what the files tell.
HookState == [at : {"idle", "loaded", "picked", "saved"}, seen : SUBSET (1..MaxNotes),
              picked : Seq(1..MaxNotes), prompts : 0..MaxPrompts]
HookType ==
  /\ seenFile \in [Chat -> SUBSET (1..MaxNotes)] /\ lost \in [Chat -> BOOLEAN]
  /\ hook \in [Chat -> HookState]
  /\ shown \in [Chat -> Seq(1..MaxNotes)]
  /\ started \in [Chat -> [lines : Seq(NoteTitle), pinned : SUBSET NoteTitle]]

\* While the file could be written: it tells all that was shown, a hook has read it as it
\* still is, and what a hook is about to show was not shown and, once saved, is in the file.
HookInv(h, file, printed) ==
  /\ Distinct(printed) /\ Members(printed) \subseteq file
  /\ h.at \in {"loaded", "picked"} => h.seen = file
  /\ h.at \in {"picked", "saved"} => Distinct(h.picked) /\ Members(h.picked) \cap Members(printed) = {}
  /\ h.at = "saved" => Members(h.picked) \subseteq file

DigestInv(digest) ==
  LET here == Members(digest.lines)
      free == sessionBudget - headerCost - profileCost
  IN  /\ Tokens(here) <= free
      /\ \A t \in digest.pinned \ here : Tokens(here \cap digest.pinned) + Cost(t) > free

NotesInv ==
  /\ NotesType /\ HookType
  /\ \A s \in Chat : ~ lost[s] => HookInv(hook[s], seenFile[s], shown[s])
  /\ \A s \in Chat : DigestInv(started[s])

\* The lines a session starts with: a pinned record is left out only for pinned ones.
LEMMA DigestIs ==
  ASSUME NotesType
  PROVE  LET pinned == Group(TRUE, FALSE)
             lines == pinned \o Group(FALSE, TRUE) \o Group(FALSE, FALSE)
             digest == [lines |-> Pack(sessionBudget, headerCost + profileCost, lines),
                        pinned |-> Range(pinned)]
         IN  digest \in [lines : Seq(NoteTitle), pinned : SUBSET NoteTitle] /\ DigestInv(digest)
<1> DEFINE Of(pinned, decision) ==
             {t \in NoteTitle : notes[t] # NoNote => notes[t].pinned = pinned /\ (pinned \/ notes[t].decision = decision)}
           g1 == Group(TRUE, FALSE)
           g2 == Group(FALSE, TRUE)
           g3 == Group(FALSE, FALSE)
           two == g1 \o g2
           lines == two \o g3
           base == headerCost + profileCost
           packed == Pack(sessionBudget, base, lines)
           digest == [lines |-> packed, pinned |-> Range(g1)]
<1>1. /\ g1 = Listing(Of(TRUE, FALSE)) /\ g2 = Listing(Of(FALSE, TRUE)) /\ g3 = Listing(Of(FALSE, FALSE))
      /\ Of(TRUE, FALSE) \in SUBSET NoteTitle /\ Of(FALSE, TRUE) \in SUBSET NoteTitle
      /\ Of(FALSE, FALSE) \in SUBSET NoteTitle
  BY DEF Group
<1>2. /\ Listed(Of(TRUE, FALSE)) \cap Listed(Of(FALSE, TRUE)) = {}
      /\ Listed(Of(TRUE, FALSE)) \cap Listed(Of(FALSE, FALSE)) = {}
      /\ Listed(Of(FALSE, TRUE)) \cap Listed(Of(FALSE, FALSE)) = {}
  BY DEF Listed
<1> HIDE DEF Of, g1, g2, g3
<1>3. /\ g1 \in Seq(NoteTitle) /\ Distinct(g1) /\ Members(g1) = Listed(Of(TRUE, FALSE))
      /\ g2 \in Seq(NoteTitle) /\ Distinct(g2) /\ Members(g2) = Listed(Of(FALSE, TRUE))
      /\ g3 \in Seq(NoteTitle) /\ Distinct(g3) /\ Members(g3) = Listed(Of(FALSE, FALSE))
  BY <1>1, ListingIs
<1>4. /\ two \in Seq(NoteTitle) /\ Distinct(two) /\ Members(two) = Members(g1) \cup Members(g2)
      /\ \A i \in DOMAIN g1 : i \in DOMAIN two /\ two[i] = g1[i]
  <2>1. Members(g1) \cap Members(g2) = {}
    BY <1>2, <1>3
  <2>2. g1 \in Seq(NoteTitle) /\ Distinct(g1) /\ g2 \in Seq(NoteTitle) /\ Distinct(g2)
    BY <1>3
  <2> QED BY ONLY <2>1, <2>2, ConcatDistinct
<1> HIDE DEF two
<1>5. /\ lines \in Seq(NoteTitle) /\ Distinct(lines)
      /\ \A i \in DOMAIN two : i \in DOMAIN lines /\ lines[i] = two[i]
  <2>1. Members(two) \cap Members(g3) = {}
    BY <1>2, <1>3, <1>4
  <2>2. two \in Seq(NoteTitle) /\ Distinct(two) /\ g3 \in Seq(NoteTitle) /\ Distinct(g3)
    BY <1>3, <1>4
  <2> QED BY ONLY <2>1, <2>2, ConcatDistinct
<1>6. /\ sessionBudget \in Nat /\ base \in Nat /\ base <= sessionBudget
      /\ headerCost \in Nat /\ profileCost \in Nat
  BY DEF NoteAssumption
<1>7. PICK r : Packed(r, Len(lines), sessionBudget, base, lines) /\ packed = r.lines
  <2> HIDE DEF base, lines
  <2> QED BY <1>5, <1>6, PackIs
<1> DEFINE here == Members(packed)
           pinned == Members(g1)
           free == sessionBudget - headerCost - profileCost
<1>8. Range(g1) = pinned
  BY DEF Range, Members
<1> HIDE DEF packed, lines
<1>9. /\ packed \in Seq(NoteTitle) /\ base + Tokens(here) <= sessionBudget
      /\ \A j \in 1..Len(lines) : lines[j] \notin here =>
           base + Tokens(here \cap UpToPlace(lines, j - 1)) + Cost(lines[j]) > sessionBudget
  <2> HIDE DEF base
  <2> QED BY <1>6, <1>7 DEF Packed
<1>10. here \in SUBSET NoteTitle /\ IsFiniteSet(here) /\ pinned \in SUBSET NoteTitle
  BY <1>3, <1>9, MembersFinite
<1>11. Tokens(here) \in Nat
  <2> HIDE DEF here
  <2> QED BY <1>10, TokensFacts
<1>12. Tokens(here) <= free
  <2> DEFINE k == Tokens(here)
  <2>1. k \in Nat /\ base + k <= sessionBudget
    BY <1>9, <1>11
  <2> HIDE DEF k
  <2>2. k <= free
    BY <1>6, <2>1
  <2> QED BY <2>2 DEF k
<1>13. ASSUME NEW t \in pinned \ here PROVE Tokens(here \cap pinned) + Cost(t) > free
  <2>1. PICK j \in DOMAIN g1 : g1[j] = t
    BY DEF Members
  <2>2. j \in DOMAIN lines /\ lines[j] = t /\ j \in 1..Len(lines)
    <3>1. j \in DOMAIN lines /\ lines[j] = t
      BY <1>4, <1>5, <2>1
    <3> QED BY <1>5, <3>1
  <2> DEFINE before == here \cap UpToPlace(lines, j - 1)
  <2>3. base + Tokens(before) + Cost(t) > sessionBudget
    BY <1>9, <2>2
  <2>4. before \subseteq here \cap pinned
    <3>1. ASSUME NEW i \in DOMAIN lines, i <= j - 1 PROVE lines[i] \in pinned
      <4>1. DOMAIN g1 = 1..Len(g1) /\ Len(g1) \in Nat
        BY <1>3
      <4>0. DOMAIN lines = 1..Len(lines) /\ Len(lines) \in Nat
        BY <1>5
      <4>2. i \in DOMAIN g1
        BY <2>1, <3>1, <4>0, <4>1
      <4>3. lines[i] = g1[i]
        BY <1>4, <1>5, <4>2
      <4> QED BY <4>2, <4>3 DEF Members
    <3> QED BY <3>1 DEF UpToPlace
  <2>5. /\ IsFiniteSet(here \cap pinned) /\ here \cap pinned \in SUBSET NoteTitle
    BY <1>10, FS_Subset
  <2> HIDE DEF before, here, pinned
  <2>6. /\ Tokens(before) \in Nat /\ Tokens(before) <= Tokens(here \cap pinned)
        /\ Tokens(here \cap pinned) \in Nat
    BY <2>4, <2>5, TokensFacts
  <2>7. Cost(t) \in Nat
    BY <1>10 DEF NoteAssumption, pinned
  <2> DEFINE a == Tokens(before)
             b == Tokens(here \cap pinned)
             c == Cost(t)
  <2>8. /\ a \in Nat /\ b \in Nat /\ c \in Nat /\ a <= b /\ base + a + c > sessionBudget
    BY <2>3, <2>6, <2>7
  <2> HIDE DEF a, b, c
  <2>9. b + c > free
    BY <1>6, <2>8
  <2> QED BY <2>9 DEF b, c
<1>14. DigestInv(digest)
  <2>1. digest.lines = packed /\ digest.pinned = pinned
    BY <1>8
  <2> HIDE DEF digest, pinned
  <2> QED BY <1>12, <1>13, <2>1 DEF DigestInv
<1>15. digest \in [lines : Seq(NoteTitle), pinned : SUBSET NoteTitle]
  <2> HIDE DEF pinned
  <2> QED BY <1>8, <1>9, <1>10
<1> QED BY <1>14, <1>15 DEF packed, lines, two, g1, g2, g3

\* What a prompt picks: records that are there, each once, and none of those seen.
LEMMA PickIs ==
  ASSUME NotesType, HookType, NEW s \in Chat, NEW p \in Prompt, NEW hits \in SetToSeqs(Candidates(s, p))
  PROVE  LET picked == Pack(promptBudget, headerCost, hits)
             ids == [i \in DOMAIN picked |-> notes[picked[i]].id]
         IN  ids \in Seq(1..MaxNotes) /\ Distinct(ids) /\ Members(ids) \cap hook[s].seen = {}
<1> DEFINE T == Candidates(s, p)
           picked == Pack(promptBudget, headerCost, hits)
           ids == [i \in DOMAIN picked |-> notes[picked[i]].id]
<1>1. /\ T \in SUBSET NoteTitle
      /\ \A t \in T : notes[t] # NoNote /\ notes[t].id \notin hook[s].seen
  BY DEF Candidates, NoteAssumption
<1>2. /\ IsFiniteSet(T) /\ \A t \in T : notes[t].id \in 1..MaxNotes
      /\ \A t, u \in T : notes[t].id = notes[u].id => t = u
  <2> HIDE DEF T
  <2> QED BY <1>1, RecordsFinite
<1>3. hits \in Seq(T) /\ Distinct(hits) /\ Members(hits) = T
  BY <1>2, OrderingIs
<1> HIDE DEF T
<1>4. hits \in Seq(NoteTitle) /\ promptBudget \in Nat /\ headerCost \in Nat
  BY <1>1, <1>3 DEF NoteAssumption
<1>5. PICK r : Packed(r, Len(hits), promptBudget, headerCost, hits) /\ picked = r.lines
  BY <1>3, <1>4, PackIs
<1> HIDE DEF picked
<1>6. picked \in Seq(NoteTitle) /\ Distinct(picked) /\ Members(picked) \subseteq T
  <2>1. UpToPlace(hits, Len(hits)) \subseteq Members(hits)
    BY DEF UpToPlace, Members
  <2> QED BY <1>3, <1>5, <2>1 DEF Packed
<1>7. \A i \in DOMAIN picked : picked[i] \in T
  BY <1>6 DEF Members
<1>8. DOMAIN ids = DOMAIN picked /\ \A i \in DOMAIN ids : ids[i] = notes[picked[i]].id
  OBVIOUS
<1>9. ids \in Seq(1..MaxNotes)
  <2>1. DOMAIN picked = 1..Len(picked) /\ Len(picked) \in Nat
    BY <1>6
  <2>2. ids \in [1..Len(picked) -> 1..MaxNotes]
    BY <1>2, <1>7, <2>1
  <2> HIDE DEF ids
  <2> QED BY <2>1, <2>2
<1> HIDE DEF ids
<1>10. Distinct(ids)
  <2>1. SUFFICES ASSUME NEW i \in DOMAIN ids, NEW j \in DOMAIN ids, ids[i] = ids[j] PROVE i = j
    BY DEF Distinct
  <2>2. picked[i] = picked[j]
    BY <1>2, <1>7, <1>8, <2>1
  <2> QED BY <1>6, <1>8, <2>1, <2>2 DEF Distinct
<1>11. Members(ids) \cap hook[s].seen = {}
  BY <1>1, <1>7, <1>8 DEF Members
<1> QED BY <1>9, <1>10, <1>11 DEF ids, picked

\* What the hooks know of what was shown is so in every reachable state (NotesInv;
\* internal/ctxstore, cmd/codergag/hook.go).
THEOREM NotesInvariance == NotesSpec => []NotesInv
<1>1. NotesInit => NotesInv
  <2>1. SUFFICES ASSUME NotesInit PROVE NotesInv
    OBVIOUS
  <2>2. MaxNotes \in Nat /\ MaxPrompts \in Nat /\ 0 \in 0..MaxNotes /\ 0 \in 0..MaxPrompts
    BY DEF NoteAssumption
  <2>3. NotesType
    BY <2>1, <2>2 DEF NotesInit, NotesType
  <2>4. HookType
    BY <2>1, <2>2 DEF NotesInit, HookType, HookState, Asleep
  <2>5. Members(<<>>) = {} /\ Distinct(<<>>)
    BY DEF Members, Distinct
  <2>6. \A s \in Chat : HookInv(hook[s], seenFile[s], shown[s])
    BY <2>1, <2>5 DEF NotesInit, HookInv, Asleep
  <2>7. Tokens({}) = 0
    <3>1. {} \in SUBSET NoteTitle /\ IsFiniteSet({})
      BY FS_EmptySet
    <3>2. Tokens({}) = SumOf(CostOf, Itself, {})
      BY <3>1, TokensAreSum
    <3> QED BY <3>2, SumEmpty
  <2>8. 0 <= sessionBudget - headerCost - profileCost
    BY DEF NoteAssumption
  <2>9. ASSUME NEW s \in Chat PROVE DigestInv(started[s])
    <3>1. started[s].lines = <<>> /\ started[s].pinned = {}
      BY <2>1 DEF NotesInit
    <3>2. Members(started[s].lines) = {}
      BY <2>5, <3>1
    <3>3. Tokens(Members(started[s].lines)) <= sessionBudget - headerCost - profileCost
      BY <2>7, <2>8, <3>2
    <3> QED BY <3>1, <3>3 DEF DigestInv
  <2> QED BY <2>3, <2>4, <2>6, <2>9 DEF NotesInv
<1>2. NotesInv /\ [NotesNext]_noteVars => NotesInv'
  <2> SUFFICES ASSUME NotesInv, [NotesNext]_noteVars PROVE NotesInv'
    OBVIOUS
  <2>0. /\ NotesType /\ HookType /\ \A s \in Chat : DigestInv(started[s])
        /\ \A s \in Chat : ~ lost[s] => HookInv(hook[s], seenFile[s], shown[s])
    BY DEF NotesInv
  <2>01. MaxNotes \in Nat /\ MaxPrompts \in Nat /\ made \in Nat /\ made <= MaxNotes
    BY <2>0 DEF NoteAssumption, NotesType
  <2>02. ASSUME KeepHooks, NotesType' PROVE NotesInv'
    BY <2>0, <2>02 DEF KeepHooks, NotesInv, HookType
  <2>03. ASSUME UNCHANGED <<notes, made>> PROVE NotesType'
    BY <2>0, <2>03 DEF NotesType
  \* one session's hook moves
  <2>04. ASSUME NEW s \in Chat, UNCHANGED <<notes, made, started>>, HookType',
                \A c \in Chat \ {s} : hook'[c] = hook[c] /\ seenFile'[c] = seenFile[c]
                                      /\ shown'[c] = shown[c] /\ lost'[c] = lost[c],
                ~ lost'[s] => HookInv(hook'[s], seenFile'[s], shown'[s])
         PROVE  NotesInv'
    <3>1. NotesType'
      BY <2>03, <2>04
    <3>2. \A c \in Chat : DigestInv(started'[c])
      BY <2>0, <2>04
    <3>3. ASSUME NEW c \in Chat, ~ lost'[c] PROVE HookInv(hook'[c], seenFile'[c], shown'[c])
      BY <2>0, <2>04, <3>3
    <3> QED BY <2>04, <3>1, <3>2, <3>3 DEF NotesInv
  <2>1. ASSUME NEW t \in NoteTitle, NEW d \in BOOLEAN, NEW pin \in BOOLEAN, Add(t, d, pin) PROVE NotesInv'
    <3>1. CASE notes[t] = NoNote
      <4> DEFINE new == [id |-> made + 1, decision |-> d, pinned |-> pin, archived |-> FALSE]
      <4>1. made + 1 \in 1..MaxNotes /\ made' = made + 1 /\ made' \in 0..MaxNotes
            /\ notes' = [notes EXCEPT ![t] = new] /\ KeepHooks
        BY <2>1, <3>1, <2>01 DEF Add
      <4>2. new \in Note /\ new # NoNote /\ new.id = made + 1
        <5>1. new \in Note
          BY <4>1, Zenon DEF Note
        <5> QED BY <5>1, NoteValueAssumption
      <4> HIDE DEF new
      <4>3. notes'[t] = new /\ \A u \in NoteTitle \ {t} : notes'[u] = notes[u]
        BY <2>0, <4>1 DEF NotesType
      <4>4. \A u \in NoteTitle : notes[u] # NoNote => notes[u].id \in Nat /\ notes[u].id <= made
        BY <2>0 DEF NotesType, Note
      <4>5. notes' \in [NoteTitle -> Note \cup {NoNote}]
        BY <2>0, <4>1, <4>2 DEF NotesType
      <4>6. \A u \in NoteTitle : notes'[u] # NoNote => notes'[u].id <= made'
        BY <2>01, <4>1, <4>2, <4>3, <4>4
      <4>7. ASSUME NEW u \in NoteTitle, NEW v \in NoteTitle, notes'[u] # NoNote, notes'[v] # NoNote,
                   notes'[u].id = notes'[v].id
            PROVE  u = v
        <5>1. CASE u # t /\ v # t
          BY <2>0, <4>3, <4>7, <5>1 DEF NotesType
        <5>2. CASE u = t /\ v # t
          BY <2>01, <4>2, <4>3, <4>4, <4>7, <5>2
        <5>3. CASE u # t /\ v = t
          BY <2>01, <4>2, <4>3, <4>4, <4>7, <5>3
        <5> QED BY <5>1, <5>2, <5>3
      <4> QED BY <2>02, <4>1, <4>5, <4>6, <4>7 DEF NotesType
    <3>2. CASE notes[t] # NoNote
      <4> DEFINE new == [notes[t] EXCEPT !.decision = d, !.pinned = @ \/ pin, !.archived = FALSE]
      <4>1. made' = made /\ KeepHooks /\ notes' = [notes EXCEPT ![t] = new]
        BY <2>1, <3>2 DEF Add
      <4>2. notes[t] \in Note
        BY <2>0, <3>2 DEF NotesType
      <4>3. new \in Note /\ new.id = notes[t].id
        BY <4>2 DEF Note
      <4> HIDE DEF new
      <4>4. \A u \in NoteTitle : /\ notes'[u] # NoNote => notes[u] # NoNote /\ notes'[u].id = notes[u].id
        BY <2>0, <3>2, <4>1, <4>3 DEF NotesType
      <4>5. notes' \in [NoteTitle -> Note \cup {NoNote}]
        BY <2>0, <4>1, <4>3 DEF NotesType
      <4>6. NotesType'
        BY <2>0, <4>1, <4>4, <4>5 DEF NotesType
      <4> QED BY <2>02, <4>1, <4>6
    <3> QED BY <3>1, <3>2
  <2>2. ASSUME NEW t \in NoteTitle, Archive(t) PROVE NotesInv'
    <3> DEFINE new == [notes[t] EXCEPT !.archived = TRUE]
    <3>1. made' = made /\ KeepHooks /\ notes' = [notes EXCEPT ![t] = new] /\ notes[t] # NoNote
      BY <2>2 DEF Archive
    <3>2. notes[t] \in Note
      BY <2>0, <3>1 DEF NotesType
    <3>3. new \in Note /\ new.id = notes[t].id
      BY <3>2 DEF Note
    <3> HIDE DEF new
    <3>4. \A u \in NoteTitle : notes'[u] # NoNote => notes[u] # NoNote /\ notes'[u].id = notes[u].id
      BY <2>0, <3>1, <3>3 DEF NotesType
    <3>5. notes' \in [NoteTitle -> Note \cup {NoNote}]
      BY <2>0, <3>1, <3>3 DEF NotesType
    <3>6. NotesType'
      BY <2>0, <3>1, <3>4, <3>5 DEF NotesType
    <3> QED BY <2>02, <3>1, <3>6
  <2>3. CASE Reset
    <3>1. NotesType'
      BY <2>0, <2>3 DEF Reset, NotesType
    <3> QED BY <2>02, <2>3, <3>1 DEF Reset
  <2>4. ASSUME NEW s \in Chat, SessionStart(s) PROVE NotesInv'
    <3> DEFINE pinned == Group(TRUE, FALSE)
               lines == pinned \o Group(FALSE, TRUE) \o Group(FALSE, FALSE)
               digest == [lines |-> Pack(sessionBudget, headerCost + profileCost, lines),
                          pinned |-> Range(pinned)]
    <3>1. /\ started' = [started EXCEPT ![s] = digest]
          /\ UNCHANGED <<notes, made, seenFile, hook, shown, lost>>
      BY <2>4 DEF SessionStart
    <3>2. digest \in [lines : Seq(NoteTitle), pinned : SUBSET NoteTitle] /\ DigestInv(digest)
      BY <2>0, DigestIs
    <3> HIDE DEF digest
    <3>3. NotesType'
      BY <2>03, <3>1
    <3>4. HookType'
      BY <2>0, <3>1, <3>2 DEF HookType
    <3>5. ASSUME NEW c \in Chat PROVE DigestInv(started'[c])
      <4>1. CASE c = s
        <5>1. started'[c] = digest
          BY <2>0, <3>1, <4>1 DEF HookType
        <5> QED BY <3>2, <5>1
      <4>2. CASE c # s
        <5>1. started'[c] = started[c]
          BY <2>0, <3>1, <4>2 DEF HookType
        <5> QED BY <2>0, <5>1
      <4> QED BY <4>1, <4>2
    <3>6. \A c \in Chat : ~ lost'[c] => HookInv(hook'[c], seenFile'[c], shown'[c])
      BY <2>0, <3>1
    <3> QED BY <3>3, <3>4, <3>5, <3>6 DEF NotesInv
  <2>5. ASSUME NEW s \in Chat, LoadSeen(s) PROVE NotesInv'
    <3>1. /\ hook' = [hook EXCEPT ![s].at = "loaded", ![s].seen = seenFile[s], ![s].prompts = @ + 1]
          /\ UNCHANGED <<notes, made, seenFile, started, shown, lost>> /\ hook[s].prompts < MaxPrompts
      BY <2>5 DEF LoadSeen
    <3>2. HookType'
      <4> DEFINE h == [hook[s] EXCEPT !.at = "loaded", !.seen = seenFile[s], !.prompts = @ + 1]
      <4>1. hook[s] \in HookState /\ seenFile[s] \in SUBSET (1..MaxNotes)
        BY <2>0 DEF HookType
      <4>2. hook[s].prompts + 1 \in 0..MaxPrompts
        BY <2>01, <3>1, <4>1 DEF HookState
      <4>3. h \in HookState
        BY <4>1, <4>2 DEF HookState
      <4>4. hook' = [hook EXCEPT ![s] = h]
        BY <2>0, <3>1 DEF HookType
      <4> HIDE DEF h
      <4> QED BY <2>0, <3>1, <4>3, <4>4 DEF HookType
    <3>3. /\ hook'[s].at = "loaded" /\ hook'[s].seen = seenFile[s]
          /\ \A c \in Chat \ {s} : hook'[c] = hook[c]
      BY <2>0, <3>1 DEF HookType
    <3>4. ~ lost'[s] => HookInv(hook'[s], seenFile'[s], shown'[s])
      BY <2>0, <3>1, <3>3 DEF HookInv
    <3> QED BY <2>04, <3>1, <3>2, <3>3, <3>4
  <2>6. ASSUME NEW s \in Chat, PromptDigest(s) PROVE NotesInv'
    <3> DEFINE Picking(p, hits) ==
                 LET picked == Pack(promptBudget, headerCost, hits)
                 IN  hook' = [hook EXCEPT ![s].at = IF picked = <<>> THEN "idle" ELSE "picked",
                                          ![s].picked = [i \in DOMAIN picked |-> notes[picked[i]].id],
                                          ![s].seen = IF picked = <<>> THEN {} ELSE @]
    <3>0. PICK p \in Prompt : \E hits \in SetToSeqs(Candidates(s, p)) : Picking(p, hits)
      BY <2>6 DEF PromptDigest
    <3>1. PICK hits \in SetToSeqs(Candidates(s, p)) : Picking(p, hits)
      BY <3>0
    <3>2. UNCHANGED <<notes, made, seenFile, started, shown, lost>> /\ hook[s].at = "loaded"
      BY <2>6 DEF PromptDigest
    <3> DEFINE picked == Pack(promptBudget, headerCost, hits)
               ids == [i \in DOMAIN picked |-> notes[picked[i]].id]
    <3>3. ids \in Seq(1..MaxNotes) /\ Distinct(ids) /\ Members(ids) \cap hook[s].seen = {}
      BY <2>0, PickIs
    <3>4. hook' = [hook EXCEPT ![s].at = IF picked = <<>> THEN "idle" ELSE "picked",
                               ![s].picked = ids,
                               ![s].seen = IF picked = <<>> THEN {} ELSE @]
      BY <3>1
    <3> HIDE DEF picked, ids
    <3>5. HookType'
      <4> DEFINE at1 == IF picked = <<>> THEN "idle" ELSE "picked"
                 seen1 == IF picked = <<>> THEN {} ELSE hook[s].seen
                 h == [hook[s] EXCEPT !.at = at1, !.picked = ids, !.seen = seen1]
      <4>1. hook[s] \in HookState /\ at1 \in {"idle", "picked"}
        BY <2>0 DEF HookType
      <4>2. seen1 \in SUBSET (1..MaxNotes)
        BY <4>1 DEF HookState
      <4>4. hook' = [hook EXCEPT ![s] = h]
        BY <2>0, <3>4 DEF HookType
      <4> HIDE DEF at1, seen1
      <4>3. h \in HookState
        BY <3>3, <4>1, <4>2 DEF HookState
      <4> HIDE DEF h
      <4> QED BY <2>0, <3>2, <4>3, <4>4 DEF HookType
    <3>6. /\ hook'[s].at \in {"idle", "picked"} /\ hook'[s].picked = ids
          /\ hook'[s].at = "picked" => hook'[s].seen = hook[s].seen
          /\ \A c \in Chat \ {s} : hook'[c] = hook[c]
      BY <2>0, <3>4 DEF HookType
    <3>7. ~ lost'[s] => HookInv(hook'[s], seenFile'[s], shown'[s])
      BY <2>0, <3>2, <3>3, <3>6 DEF HookInv
    <3> QED BY <2>04, <3>2, <3>5, <3>6, <3>7
  <2>7. ASSUME NEW s \in Chat, SaveSeen(s) PROVE NotesInv'
    <3>1. /\ hook[s].at = "picked"
          /\ seenFile' = [seenFile EXCEPT ![s] = hook[s].seen \cup Range(hook[s].picked)]
          /\ hook' = [hook EXCEPT ![s].at = "saved"]
          /\ UNCHANGED <<notes, made, started, shown, lost>>
      BY <2>7 DEF SaveSeen
    <3>2. Range(hook[s].picked) = Members(hook[s].picked)
      BY DEF Range, Members
    <3>3. hook[s].picked \in Seq(1..MaxNotes) /\ hook[s].seen \in SUBSET (1..MaxNotes)
      BY <2>0 DEF HookType, HookState
    <3>4. Members(hook[s].picked) \in SUBSET (1..MaxNotes)
      BY <3>3, MembersFinite
    <3>5. HookType'
      BY <2>0, <3>1, <3>2, <3>3, <3>4 DEF HookType, HookState
    <3>6. /\ hook'[s].at = "saved" /\ hook'[s].picked = hook[s].picked
          /\ seenFile'[s] = hook[s].seen \cup Members(hook[s].picked)
          /\ \A c \in Chat \ {s} : hook'[c] = hook[c] /\ seenFile'[c] = seenFile[c]
      BY <2>0, <3>1, <3>2 DEF HookType
    <3>7. ~ lost'[s] => HookInv(hook'[s], seenFile'[s], shown'[s])
      BY <2>0, <3>1, <3>6 DEF HookInv
    <3> QED BY <2>04, <3>1, <3>5, <3>6, <3>7
  <2>8. ASSUME NEW s \in Chat, SaveSeenFails(s) PROVE NotesInv'
    <3>1. /\ lost' = [lost EXCEPT ![s] = TRUE] /\ hook' = [hook EXCEPT ![s].at = "saved"]
          /\ UNCHANGED <<notes, made, seenFile, started, shown>>
      BY <2>8 DEF SaveSeenFails
    <3>2. HookType'
      BY <2>0, <3>1 DEF HookType, HookState
    <3>3. lost'[s] /\ \A c \in Chat \ {s} : hook'[c] = hook[c] /\ lost'[c] = lost[c]
      BY <2>0, <3>1 DEF HookType
    <3> QED BY <2>04, <3>1, <3>2, <3>3
  <2>9. ASSUME NEW s \in Chat, PrintDigest(s) PROVE NotesInv'
    <3>1. /\ hook[s].at = "saved" /\ shown' = [shown EXCEPT ![s] = @ \o hook[s].picked]
          /\ hook' = [hook EXCEPT ![s] = [Asleep EXCEPT !.prompts = hook[s].prompts]]
          /\ UNCHANGED <<notes, made, seenFile, started, lost>>
      BY <2>9 DEF PrintDigest
    <3>2. shown[s] \in Seq(1..MaxNotes) /\ hook[s].picked \in Seq(1..MaxNotes)
          /\ hook[s].prompts \in 0..MaxPrompts
      BY <2>0 DEF HookType, HookState
    <3>3. shown[s] \o hook[s].picked \in Seq(1..MaxNotes)
      BY <3>2
    <3>4. HookType'
      <4>1. [Asleep EXCEPT !.prompts = hook[s].prompts] \in HookState
        <5>1. Asleep \in HookState
          BY <2>01 DEF Asleep, HookState
        <5> QED BY <3>2, <5>1 DEF HookState
      <4> QED BY <2>0, <3>1, <3>3, <4>1 DEF HookType
    <3>5. /\ hook'[s].at = "idle" /\ shown'[s] = shown[s] \o hook[s].picked
          /\ \A c \in Chat \ {s} : hook'[c] = hook[c] /\ shown'[c] = shown[c]
      BY <2>0, <3>1 DEF HookType, Asleep
    <3>6. ASSUME ~ lost'[s] PROVE HookInv(hook'[s], seenFile'[s], shown'[s])
      <4>1. HookInv(hook[s], seenFile[s], shown[s])
        BY <2>0, <3>1, <3>6
      <4>2. /\ Distinct(shown[s]) /\ Members(shown[s]) \subseteq seenFile[s]
            /\ Distinct(hook[s].picked) /\ Members(shown[s]) \cap Members(hook[s].picked) = {}
            /\ Members(hook[s].picked) \subseteq seenFile[s]
        BY <3>1, <4>1 DEF HookInv
      <4>3. /\ Distinct(shown[s] \o hook[s].picked)
            /\ Members(shown[s] \o hook[s].picked) = Members(shown[s]) \cup Members(hook[s].picked)
        BY <3>2, <4>2, ConcatDistinct
      <4> QED BY <3>1, <3>5, <4>2, <4>3 DEF HookInv
    <3> QED BY <2>04, <3>1, <3>4, <3>5, <3>6
  <2>10. ASSUME NEW s \in Chat, HookKilled(s) PROVE NotesInv'
    <3>1. /\ hook' = [hook EXCEPT ![s] = [Asleep EXCEPT !.prompts = hook[s].prompts]]
          /\ UNCHANGED <<notes, made, seenFile, started, shown, lost>>
      BY <2>10 DEF HookKilled
    <3>2. hook[s].prompts \in 0..MaxPrompts
      BY <2>0 DEF HookType, HookState
    <3>3. HookType'
      <4>1. [Asleep EXCEPT !.prompts = hook[s].prompts] \in HookState
        <5>1. Asleep \in HookState
          BY <2>01 DEF Asleep, HookState
        <5> QED BY <3>2, <5>1 DEF HookState
      <4> QED BY <2>0, <3>1, <4>1 DEF HookType
    <3>4. hook'[s].at = "idle" /\ \A c \in Chat \ {s} : hook'[c] = hook[c]
      BY <2>0, <3>1 DEF HookType, Asleep
    <3>5. ~ lost'[s] => HookInv(hook'[s], seenFile'[s], shown'[s])
      BY <2>0, <3>1, <3>4 DEF HookInv
    <3> QED BY <2>04, <3>1, <3>3, <3>4, <3>5
  <2>11. CASE UNCHANGED noteVars
    BY <2>0, <2>02, <2>03, <2>11 DEF noteVars, KeepHooks
  <2> QED BY <2>1, <2>2, <2>3, <2>4, <2>5, <2>6, <2>7, <2>8, <2>9, <2>10, <2>11 DEF NotesNext
<1> QED BY <1>1, <1>2, PTL DEF NotesSpec

\* A session's prompts print a record once, and what a session starts with keeps to its budget
\* and leaves a pinned record out only for other pinned ones.
THEOREM RemindedOnlyOnce == NotesSpec => []RemindedOnce
<1>1. NotesInv => RemindedOnce
  <2>1. SUFFICES ASSUME NotesInv PROVE RemindedOnce
    OBVIOUS
  <2>2. \A f : Range(f) = Members(f)
    BY DEF Range, Members
  <2>3. \A f : Distinct(f) => IsInjective(f)
    BY DEF Distinct, IsInjective
  <2>4. \A s \in Chat : /\ ~ lost[s] => Distinct(shown[s]) /\ Members(shown[s]) \subseteq seenFile[s]
                        /\ DigestInv(started[s])
    BY <2>1 DEF NotesInv, HookInv
  <2> QED BY <2>2, <2>3, <2>4 DEF RemindedOnce, DigestInv
<1> QED BY <1>1, NotesInvariance, PTL

HIDE NoteAssumption
-----------------------------------------------------------------------------
(***************************************************************************)
(* Graphify.  The commonest label exists, a round of labels leaves them    *)
(* inside every set that no edge leaves, a pass keeps its edges between    *)
(* its nodes, and alone it counts its own files.                           *)
(***************************************************************************)
USE GraphifyAssumption

Relation3 == {"defines", "references", "imports"}
Joining(joins, R) == \A e \in joins : e \in R \X R \X Relation3
Cut(joins, S) == \A e \in joins : e[1] \in S <=> e[2] \in S
Inside(ls, S) == \A n \in S : ls[n] \in S

LEMMA LinksFinite ==
  ASSUME NEW R, IsFiniteSet(R), NEW joins, Joining(joins, R)
  PROVE  IsFiniteSet(joins)
<1> DEFINE T == (R \X R) \X Relation3
           f == [e \in joins |-> <<<<e[1], e[2]>>, e[3]>>]
<1>1. IsFiniteSet(Relation3)
  <2>1. IsFiniteSet({"defines"}) /\ IsFiniteSet({"references"}) /\ IsFiniteSet({"imports"})
    BY FS_Singleton
  <2>2. IsFiniteSet({"defines"} \cup {"references"})
    BY <2>1, FS_Union
  <2>3. IsFiniteSet(({"defines"} \cup {"references"}) \cup {"imports"})
    BY <2>1, <2>2, FS_Union
  <2>4. Relation3 = ({"defines"} \cup {"references"}) \cup {"imports"}
    BY DEF Relation3
  <2> QED BY <2>3, <2>4
<1>2. IsFiniteSet(R \X R)
  BY FS_Product
<1>3. IsFiniteSet(T)
  BY <1>1, <1>2, FS_Product
<1>4. \A e \in joins : /\ e = <<e[1], e[2], e[3]>> /\ e[1] \in R /\ e[2] \in R /\ e[3] \in Relation3
  BY DEF Joining
<1>5. f \in [joins -> T]
  BY <1>4
<1>6. ASSUME NEW d \in joins, NEW e \in joins, f[d] = f[e] PROVE d = e
  <2>1. d[1] = e[1] /\ d[2] = e[2] /\ d[3] = e[3]
    BY <1>6
  <2> QED BY <1>4, <2>1
<1> HIDE DEF f, T
<1>7. f \in Injection(joins, T)
  BY <1>5, <1>6 DEF Injection, IsInjective
<1> QED BY <1>3, <1>7, FS_Injection

\* Of labels with votes there is one with most votes, the smallest of these.
LEMMA CommonestLabel ==
  ASSUME NEW near \in SUBSET Nat, near # {}, NEW votes \in [near -> Nat], NEW most \in Nat,
         \A l \in near : votes[l] <= most
  PROVE  \E l \in near : \A m \in near : votes[l] > votes[m] \/ (votes[l] = votes[m] /\ l <= m)
<1> DEFINE short == {most - votes[l] : l \in near}
<1>0. ASSUME NEW l \in near PROVE most - votes[l] \in Nat
  <2>1. votes[l] \in Nat /\ votes[l] <= most
    OBVIOUS
  <2> QED BY <2>1
<1>1. short \in SUBSET Nat /\ short # {}
  BY <1>0
<1> HIDE DEF short
<1>2. PICK s \in short : \A t \in short : s <= t
  BY <1>1, LeastNumber
<1>3. PICK k \in near : s = most - votes[k]
  BY <1>2 DEF short
<1>4. \A m \in near : votes[k] >= votes[m]
  <2>1. ASSUME NEW m \in near PROVE votes[k] >= votes[m]
    <3>1. most - votes[m] \in short
      BY DEF short
    <3>2. s <= most - votes[m]
      BY <1>2, <3>1
    <3>3. votes[k] \in Nat /\ votes[m] \in Nat
      OBVIOUS
    <3> QED BY <1>3, <3>2, <3>3
  <2> QED BY <2>1
<1> DEFINE best == {l \in near : votes[l] = votes[k]}
<1>5. best \in SUBSET Nat /\ best # {}
  BY <1>3
<1> HIDE DEF best
<1>6. PICK l \in best : \A m \in best : l <= m
  BY <1>5, LeastNumber
<1>7. l \in near /\ votes[l] = votes[k]
  BY <1>6 DEF best
<1>8. ASSUME NEW m \in near PROVE votes[l] > votes[m] \/ (votes[l] = votes[m] /\ l <= m)
  <2>1. votes[m] \in Nat /\ votes[k] \in Nat /\ votes[k] >= votes[m]
    BY <1>4
  <2>2. CASE votes[m] = votes[k]
    <3>1. m \in best
      BY <2>2 DEF best
    <3> QED BY <1>6, <1>7, <2>2, <3>1
  <2>3. CASE votes[m] # votes[k]
    <3>1. votes[k] > votes[m]
      BY <2>1, <2>3
    <3>2. votes[l] > votes[m]
      BY ONLY <1>7, <3>1
    <3> QED BY <3>2
  <2> QED BY <2>2, <2>3
<1> QED BY <1>7, <1>8

\* The next label of a node is one of its neighbours', or its own.
LEMMA NextLabelIs ==
  ASSUME NEW R \in SUBSET Nat, IsFiniteSet(R), NEW joins, Joining(joins, R),
         NEW ls \in [R -> R], NEW n \in R
  PROVE  /\ NextLabel(joins, ls, n) \in R
         /\ \A S \in SUBSET R : Cut(joins, S) /\ Inside(ls, S) /\ n \in S => NextLabel(joins, ls, n) \in S
<1> DEFINE near == {ls[e[2]] : e \in {e \in joins : e[1] = n}}
                     \cup {ls[e[1]] : e \in {e \in joins : e[2] = n}}
           Best(l) == \A m \in near : \/ Votes(joins, ls, n, l) > Votes(joins, ls, n, m)
                                      \/ Votes(joins, ls, n, l) = Votes(joins, ls, n, m) /\ l <= m
<1>1. \A e \in joins : e[1] \in R /\ e[2] \in R
  BY DEF Joining
<1>2. near \in SUBSET R
  BY <1>1
<1>3. ASSUME NEW S \in SUBSET R, Cut(joins, S), Inside(ls, S), n \in S PROVE near \subseteq S
  BY <1>3 DEF Cut, Inside
<1>4. near = {} => NextLabel(joins, ls, n) = ls[n]
  BY DEF NextLabel
<1>5. near # {} => NextLabel(joins, ls, n) = CHOOSE l \in near : Best(l)
  BY DEF NextLabel
<1>6. near # {} => \E l \in near : Best(l)
  <2> DEFINE votes == [l \in near |-> Votes(joins, ls, n, l)]
             most == Cardinality(joins) + Cardinality(joins)
  <2>1. IsFiniteSet(joins) /\ Cardinality(joins) \in Nat
    BY LinksFinite, FS_CardinalityType
  <2>2. \A T \in SUBSET joins : Cardinality(T) \in Nat /\ Cardinality(T) <= Cardinality(joins)
    <3>1. ASSUME NEW T \in SUBSET joins PROVE Cardinality(T) \in Nat /\ Cardinality(T) <= Cardinality(joins)
      <4>1. T \subseteq joins
        OBVIOUS
      <4>2. IsFiniteSet(T) /\ Cardinality(T) <= Cardinality(joins)
        BY <2>1, <4>1, FS_Subset
      <4> QED BY <4>2, FS_CardinalityType
    <3> QED BY <3>1
  <2>3. \A l \in near : Votes(joins, ls, n, l) \in Nat /\ Votes(joins, ls, n, l) <= most
    <3>1. ASSUME NEW l \in near PROVE Votes(joins, ls, n, l) \in Nat /\ Votes(joins, ls, n, l) <= most
      <4> DEFINE a == {e \in joins : e[1] = n /\ ls[e[2]] = l}
                 b == {e \in joins : e[2] = n /\ ls[e[1]] = l}
      <4>1. a \in SUBSET joins /\ b \in SUBSET joins
        OBVIOUS
      <4>2. Votes(joins, ls, n, l) = Cardinality(a) + Cardinality(b)
        BY DEF Votes
      <4> HIDE DEF a, b
      <4> QED BY <2>1, <2>2, <4>1, <4>2
    <3> QED BY <3>1
  <2>4. votes \in [near -> Nat] /\ most \in Nat /\ \A l \in near : votes[l] <= most
    BY <2>1, <2>3
  <2>5. \A l \in near : votes[l] = Votes(joins, ls, n, l)
    OBVIOUS
  <2>6. near \in SUBSET Nat
    BY <1>2
  <2> HIDE DEF votes, most, near
  <2>7. ASSUME near # {} PROVE \E l \in near : \A m \in near : votes[l] > votes[m] \/ (votes[l] = votes[m] /\ l <= m)
    BY <2>4, <2>6, <2>7, CommonestLabel
  <2> QED BY <2>5, <2>7
<1> HIDE DEF near, Best
<1>7. near # {} => NextLabel(joins, ls, n) \in near
  BY <1>5, <1>6
<1>8. NextLabel(joins, ls, n) \in R
  BY <1>2, <1>4, <1>7
<1>9. ASSUME NEW S \in SUBSET R, Cut(joins, S), Inside(ls, S), n \in S PROVE NextLabel(joins, ls, n) \in S
  <2>1. ls[n] \in S
    BY <1>9 DEF Inside
  <2> QED BY <1>3, <1>4, <1>7, <1>9, <2>1
<1> QED BY <1>8, <1>9

\* A round gives each node in turn its next label.
RoundTurn(f, nodes, joins, labels) ==
  [i \in 0..Len(nodes) |-> IF i = 0 THEN labels
                           ELSE [f[i - 1] EXCEPT ![nodes[i]] = NextLabel(joins, f[i - 1], nodes[i])]]

LEMMA RoundIs ==
  ASSUME NEW R \in SUBSET Nat, IsFiniteSet(R), NEW joins, Joining(joins, R),
         NEW ls \in [R -> R], NEW nodes \in Seq(R)
  PROVE  /\ Round(nodes, joins, ls) \in [R -> R]
         /\ \A S \in SUBSET R : Cut(joins, S) /\ Inside(ls, S) => Inside(Round(nodes, joins, ls), S)
<1> DEFINE n == Len(nodes)
           V == [R -> R]
           Given(i, v) == [v EXCEPT ![nodes[i]] = NextLabel(joins, v, nodes[i])]
           step == [p \in (1..n) \X V |-> Given(p[1], p[2])]
           iter == CHOOSE f : f = RoundTurn(f, nodes, joins, ls)
           Keeps(v) == \A S \in SUBSET R : Cut(joins, S) /\ Inside(ls, S) => Inside(v, S)
           P == {i \in 0..n : iter[i] \in V /\ Keeps(iter[i])}
<1>1. n \in Nat /\ \A i \in 1..n : nodes[i] \in R
  OBVIOUS
<1>2. ASSUME NEW i \in 1..n, NEW v \in V PROVE Given(i, v) \in V
  <2>1. nodes[i] \in R /\ NextLabel(joins, v, nodes[i]) \in R
    BY <1>1, NextLabelIs
  <2> QED BY <2>1
<1>3. step \in [(1..n) \X V -> V] /\ \A i \in 1..n : \A v \in V : step[<<i, v>>] = Given(i, v)
  <2> HIDE DEF Given, V
  <2> QED BY <1>2
<1>4. ls \in V
  OBVIOUS
<1> HIDE DEF V, step, n
<1>5. PICK f : Steps(f, n, V, ls, step)
  <2>1. n \in Nat
    BY <1>1
  <2>2. step \in [(1..n) \X V -> V]
    BY <1>3
  <2> QED BY ONLY <1>4, <2>1, <2>2, CountedRecursion
<1> HIDE DEF Given
<1>6. f = RoundTurn(f, nodes, joins, ls)
  <2> DEFINE g == RoundTurn(f, nodes, joins, ls)
  <2>1. g = [i \in 0..n |-> IF i = 0 THEN ls ELSE Given(i, f[i - 1])]
    BY DEF RoundTurn, Given, n
  <2> HIDE DEF g
  <2>2. ASSUME NEW i \in 0..n PROVE f[i] = g[i]
    <3>1. CASE i = 0
      BY <1>5, <2>1, <3>1 DEF Steps
    <3>2. CASE i # 0
      <4>1. i \in 1..n /\ i - 1 \in 0..n
        BY <1>1, <3>2
      <4>2. f[i] = Given(i, f[i - 1])
        BY <1>3, <1>5, <4>1 DEF Steps
      <4> QED BY <2>1, <3>2, <4>2
    <3> QED BY <3>1, <3>2
  <2> QED BY <1>5, <2>1, <2>2 DEF g, Steps
<1>7. iter = RoundTurn(iter, nodes, joins, ls)
  BY <1>6
<1>8. Round(nodes, joins, ls) = iter[n]
  BY DEF Round, RoundTurn, n
<1> HIDE DEF iter
<1>9. iter[0] = ls
  <2>1. 0 \in 0..n
    BY <1>1
  <2> QED BY <1>7, <2>1 DEF RoundTurn, n
<1>10. \A i \in 1..n : iter[i] = [iter[i - 1] EXCEPT ![nodes[i]] = NextLabel(joins, iter[i - 1], nodes[i])]
  <2>1. \A i \in 1..n : i \in 0..n /\ i # 0
    BY <1>1
  <2> QED BY <1>7, <2>1 DEF RoundTurn, n
<1>11. 0 \in P
  BY <1>1, <1>4, <1>9
<1>12. ASSUME NEW i \in 0..(n - 1), i \in P PROVE i + 1 \in P
  <2> DEFINE k == i + 1
             v == iter[i]
             x == nodes[k]
             l == NextLabel(joins, v, x)
  <2>1. k \in 1..n /\ k \in 0..n /\ k - 1 = i /\ x \in R
    BY <1>1
  <2>2. v \in [R -> R] /\ Keeps(v)
    BY <1>12 DEF V
  <2>3. iter[k] = [v EXCEPT ![x] = l]
    BY <1>10, <2>1
  <2> HIDE DEF k, v, x
  <2>4. l \in R /\ \A S \in SUBSET R : Cut(joins, S) /\ Inside(v, S) /\ x \in S => l \in S
    BY <2>1, <2>2, NextLabelIs
  <2> HIDE DEF l
  <2>5. iter[k] \in V
    BY <2>1, <2>2, <2>3, <2>4 DEF V
  <2>6. ASSUME NEW S \in SUBSET R, Cut(joins, S), Inside(ls, S) PROVE Inside(iter[k], S)
    <3>1. Inside(v, S)
      BY <2>2, <2>6
    <3> QED BY <2>2, <2>3, <2>4, <2>6, <3>1 DEF Inside
  <2> QED BY <2>1, <2>5, <2>6 DEF k
<1> HIDE DEF P
<1>13. \A i \in 0..n : i \in P
  BY <1>1, <1>11, <1>12, UpTo
<1>14. n \in P
  BY <1>1, <1>13
<1> QED BY <1>8, <1>14 DEF P, V

\* So does labelPropagate, from labels that are the nodes themselves.
RoundsTurn(f, nodes, joins) ==
  [i \in 0..maxRounds |-> IF i = 0 THEN [n \in Range(nodes) |-> n] ELSE Round(nodes, joins, f[i - 1])]

LEMMA LabelsAreInside ==
  ASSUME NEW nodes \in Seq(Nat), NEW joins, Joining(joins, Range(nodes))
  PROVE  /\ labelPropagate(nodes, joins) \in [Range(nodes) -> Range(nodes)]
         /\ \A S \in SUBSET Range(nodes) : Cut(joins, S) => Inside(labelPropagate(nodes, joins), S)
<1> DEFINE R == Range(nodes)
           V == [R -> R]
           self == [n \in R |-> n]
           step == [p \in (1..maxRounds) \X V |-> Round(nodes, joins, p[2])]
           iter == CHOOSE f : f = RoundsTurn(f, nodes, joins)
           Keeps(v) == \A S \in SUBSET R : Cut(joins, S) => Inside(v, S)
           P == {i \in 0..maxRounds : iter[i] \in V /\ Keeps(iter[i])}
<1>1. maxRounds \in Nat
  BY DEF GraphifyAssumption
<1>2. R \in SUBSET Nat /\ nodes \in Seq(R) /\ IsFiniteSet(R)
  <2>1. DOMAIN nodes = 1..Len(nodes) /\ Len(nodes) \in Nat /\ \A i \in 1..Len(nodes) : nodes[i] \in Nat
    OBVIOUS
  <2>2. R = {nodes[i] : i \in 1..Len(nodes)}
    BY <2>1 DEF Range
  <2>3. nodes \in [1..Len(nodes) -> R] /\ nodes \in Surjection(1..Len(nodes), R)
    <3>1. \A i \in 1..Len(nodes) : nodes[i] \in R
      BY <2>2
    <3> HIDE DEF R
    <3>2. nodes \in [1..Len(nodes) -> R]
      BY <2>1, <3>1
    <3>3. \A t \in R : \E s \in 1..Len(nodes) : nodes[s] = t
      BY <2>2
    <3> QED BY <3>2, <3>3 DEF Surjection
  <2> HIDE DEF R
  <2>4. IsFiniteSet(1..Len(nodes))
    <3>1. 1 \in Int /\ Len(nodes) \in Int
      BY <2>1
    <3> QED BY ONLY <3>1, FS_Interval
  <2>5. IsFiniteSet(R)
    BY <2>3, <2>4, FS_Surjection
  <2>6. nodes \in Seq(R)
    BY <2>1, <2>3
  <2> QED BY <2>1, <2>2, <2>5, <2>6
<1>3. self \in V /\ \A S \in SUBSET R : Inside(self, S)
  BY DEF Inside
<1>4. Joining(joins, R)
  OBVIOUS
<1> HIDE DEF R, self
<1>5. ASSUME NEW v \in V
      PROVE  /\ Round(nodes, joins, v) \in V
             /\ \A S \in SUBSET R : Cut(joins, S) /\ Inside(v, S) => Inside(Round(nodes, joins, v), S)
  BY <1>2, <1>4, RoundIs
<1>6. step \in [(1..maxRounds) \X V -> V]
      /\ \A i \in 1..maxRounds : \A v \in V : step[<<i, v>>] = Round(nodes, joins, v)
  <2> HIDE DEF V
  <2> QED BY <1>5
<1> HIDE DEF V, step
<1>7. PICK f : Steps(f, maxRounds, V, self, step)
  <2>1. step \in [(1..maxRounds) \X V -> V]
    BY <1>6
  <2>2. self \in V
    BY <1>3
  <2> QED BY ONLY <1>1, <2>1, <2>2, CountedRecursion
<1>8. f = RoundsTurn(f, nodes, joins)
  <2> DEFINE g == RoundsTurn(f, nodes, joins)
  <2>1. g = [i \in 0..maxRounds |-> IF i = 0 THEN self ELSE Round(nodes, joins, f[i - 1])]
    BY DEF RoundsTurn, self, R
  <2> HIDE DEF g
  <2>2. ASSUME NEW i \in 0..maxRounds PROVE f[i] = g[i]
    <3>1. CASE i = 0
      BY <1>7, <2>1, <3>1 DEF Steps
    <3>2. CASE i # 0
      <4>1. i \in 1..maxRounds /\ i - 1 \in 0..maxRounds
        BY <1>1, <3>2
      <4>2. f[i] = Round(nodes, joins, f[i - 1])
        BY <1>6, <1>7, <4>1 DEF Steps
      <4> QED BY <2>1, <3>2, <4>2
    <3> QED BY <3>1, <3>2
  <2> QED BY <1>7, <2>1, <2>2 DEF g, Steps
<1>9. iter = RoundsTurn(iter, nodes, joins)
  BY <1>8
<1>10. labelPropagate(nodes, joins) = iter[maxRounds]
  BY DEF labelPropagate, RoundsTurn
<1> HIDE DEF iter
<1>11. iter[0] = self
  <2>1. 0 \in 0..maxRounds
    BY <1>1
  <2> QED BY <1>9, <2>1 DEF RoundsTurn, self, R
<1>12. \A i \in 1..maxRounds : iter[i] = Round(nodes, joins, iter[i - 1])
  <2>1. \A i \in 1..maxRounds : i \in 0..maxRounds /\ i # 0
    BY <1>1
  <2> QED BY <1>9, <2>1 DEF RoundsTurn
<1>13. 0 \in P
  BY <1>1, <1>3, <1>11
<1>14. ASSUME NEW i \in 0..(maxRounds - 1), i \in P PROVE i + 1 \in P
  <2> DEFINE k == i + 1
             v == iter[i]
  <2>1. k \in 1..maxRounds /\ k \in 0..maxRounds /\ k - 1 = i
    BY <1>1
  <2>2. v \in V /\ Keeps(v)
    BY <1>14
  <2>3. iter[k] = Round(nodes, joins, v)
    BY <1>12, <2>1
  <2> HIDE DEF k, v
  <2>4. iter[k] \in V /\ Keeps(iter[k])
    BY <1>5, <2>2, <2>3
  <2> QED BY <2>1, <2>4 DEF k
<1> HIDE DEF P
<1>15. \A i \in 0..maxRounds : i \in P
  BY <1>1, <1>13, <1>14, UpTo
<1>16. maxRounds \in P
  BY <1>1, <1>15
<1> QED BY <1>10, <1>16 DEF P, V, R

\* The files of a walk are among those under the root.
WalkTurn(f, g) ==
  [i \in 0..Len(WalkOrder[g]) |->
     IF i = 0 THEN <<>>
     ELSE IF WalkOrder[g][i] \in Range(OutFile[g]) \ Range(onDisk[g]) THEN f[i - 1]
     ELSE Append(f[i - 1], WalkOrder[g][i])]

LEMMA FilesUnderIs ==
  ASSUME NEW g \in Root
  PROVE  FilesUnder(g) \in Seq(Range(WalkOrder[g]))
<1> DEFINE walk == WalkOrder[g]
           n == Len(walk)
           V == Seq(Range(walk))
           Given(i, v) == IF walk[i] \in Range(OutFile[g]) \ Range(onDisk[g]) THEN v ELSE Append(v, walk[i])
           step == [p \in (1..n) \X V |-> Given(p[1], p[2])]
           iter == CHOOSE f : f = WalkTurn(f, g)
           P == {i \in 0..n : iter[i] \in V}
<1>1. n \in Nat /\ \A i \in 1..n : walk[i] \in Range(walk)
  <2>1. walk \in Seq(Nat)
    BY DEF GraphifyAssumption
  <2> HIDE DEF walk
  <2>2. n \in Nat /\ DOMAIN walk = 1..n
    BY <2>1
  <2> QED BY <2>2 DEF Range
<1>2. ASSUME NEW i \in 1..n, NEW v \in V PROVE Given(i, v) \in V
  <2>1. walk[i] \in Range(walk)
    BY <1>1
  <2> HIDE DEF walk
  <2> QED BY <2>1
<1>3. step \in [(1..n) \X V -> V] /\ \A i \in 1..n : \A v \in V : step[<<i, v>>] = Given(i, v)
  <2> HIDE DEF Given, V
  <2> QED BY <1>2
<1>4. <<>> \in V
  OBVIOUS
<1> HIDE DEF V, step, n
<1>5. PICK f : Steps(f, n, V, <<>>, step)
  <2>1. n \in Nat
    BY <1>1
  <2>2. step \in [(1..n) \X V -> V]
    BY <1>3
  <2> QED BY ONLY <1>4, <2>1, <2>2, CountedRecursion
<1> HIDE DEF Given
<1>6. f = WalkTurn(f, g)
  <2> DEFINE h == WalkTurn(f, g)
  <2>1. h = [i \in 0..n |-> IF i = 0 THEN <<>> ELSE Given(i, f[i - 1])]
    BY DEF WalkTurn, Given, n
  <2> HIDE DEF h
  <2>2. ASSUME NEW i \in 0..n PROVE f[i] = h[i]
    <3>1. CASE i = 0
      BY <1>5, <2>1, <3>1 DEF Steps
    <3>2. CASE i # 0
      <4>1. i \in 1..n /\ i - 1 \in 0..n
        BY <1>1, <3>2
      <4>2. f[i] = Given(i, f[i - 1])
        BY <1>3, <1>5, <4>1 DEF Steps
      <4> QED BY <2>1, <3>2, <4>2
    <3> QED BY <3>1, <3>2
  <2> QED BY <1>5, <2>1, <2>2 DEF h, Steps
<1>7. iter = WalkTurn(iter, g)
  BY <1>6
<1>8. FilesUnder(g) = iter[n]
  BY DEF FilesUnder, WalkTurn, n
<1> HIDE DEF iter
<1>9. 0 \in P
  <2>1. 0 \in 0..n
    BY <1>1
  <2>2. iter[0] = <<>>
    BY <1>7, <2>1 DEF WalkTurn, n
  <2> QED BY <1>4, <2>1, <2>2
<1>10. ASSUME NEW i \in 0..(n - 1), i \in P PROVE i + 1 \in P
  <2> DEFINE k == i + 1
             v == iter[i]
  <2>1. k \in 1..n /\ k \in 0..n /\ k # 0 /\ k - 1 = i
    BY <1>1
  <2> HIDE DEF k
  <2>2. iter[k] = Given(k, iter[k - 1])
    BY <1>7, <2>1 DEF WalkTurn, Given, n
  <2>3. iter[k] = Given(k, v)
    BY <2>1, <2>2
  <2>4. v \in V
    BY <1>10
  <2> HIDE DEF v
  <2> QED BY <1>2, <2>1, <2>3, <2>4 DEF k
<1> HIDE DEF P
<1>11. \A i \in 0..n : i \in P
  BY <1>1, <1>9, <1>10, UpTo
<1>12. n \in P
  BY <1>1, <1>11
<1> QED BY <1>8, <1>12 DEF P, V

\* Nodes with one more, and with more.
LEMMA WithNodeIs ==
  ASSUME NEW nodes \in Seq(Nat), NEW n \in Nat
  PROVE  /\ WithNode(nodes, n) \in Seq(Nat) /\ n \in Range(WithNode(nodes, n))
         /\ Range(nodes) \subseteq Range(WithNode(nodes, n))
<1>1. CASE n \in Range(nodes)
  BY <1>1 DEF WithNode
<1>2. CASE n \notin Range(nodes)
  <2> DEFINE more == Append(nodes, n)
  <2>1. /\ more \in Seq(Nat) /\ DOMAIN nodes = 1..Len(nodes) /\ DOMAIN more = 1..(Len(nodes) + 1)
        /\ Len(nodes) \in Nat /\ more[Len(nodes) + 1] = n
        /\ \A i \in 1..Len(nodes) : more[i] = nodes[i]
    OBVIOUS
  <2> HIDE DEF more
  <2>2. n \in Range(more)
    BY <2>1 DEF Range
  <2>3. ASSUME NEW i \in DOMAIN nodes PROVE nodes[i] \in Range(more)
    <3>1. i \in DOMAIN more /\ more[i] = nodes[i]
      BY <2>1
    <3> QED BY <3>1 DEF Range
  <2>4. Range(nodes) \subseteq Range(more)
    BY <2>3 DEF Range
  <2>5. WithNode(nodes, n) = more
    BY <1>2 DEF WithNode, more
  <2> QED BY <2>1, <2>2, <2>4, <2>5
<1> QED BY <1>1, <1>2

WithTurn(f, nodes, ns) == [i \in 0..Len(ns) |-> IF i = 0 THEN nodes ELSE WithNode(f[i - 1], ns[i])]

LEMMA WithNodesIs ==
  ASSUME NEW nodes \in Seq(Nat), NEW ns \in Seq(Nat)
  PROVE  /\ WithNodes(nodes, ns) \in Seq(Nat)
         /\ Range(nodes) \subseteq Range(WithNodes(nodes, ns)) /\ Range(ns) \subseteq Range(WithNodes(nodes, ns))
<1> DEFINE n == Len(ns)
           V == Seq(Nat)
           step == [p \in (1..n) \X V |-> WithNode(p[2], ns[p[1]])]
           iter == CHOOSE f : f = WithTurn(f, nodes, ns)
           Has(i, v) == Range(nodes) \subseteq Range(v) /\ \A j \in 1..i : ns[j] \in Range(v)
           P == {i \in 0..n : iter[i] \in V /\ Has(i, iter[i])}
<1>1. n \in Nat /\ DOMAIN ns = 1..n /\ \A i \in 1..n : ns[i] \in Nat
  OBVIOUS
<1>2. ASSUME NEW i \in 1..n, NEW v \in V PROVE WithNode(v, ns[i]) \in V
  BY <1>1, WithNodeIs
<1>3. step \in [(1..n) \X V -> V] /\ \A i \in 1..n : \A v \in V : step[<<i, v>>] = WithNode(v, ns[i])
  <2> HIDE DEF V
  <2> QED BY <1>2
<1>4. nodes \in V
  OBVIOUS
<1> HIDE DEF V, step, n
<1>5. PICK f : Steps(f, n, V, nodes, step)
  <2>1. n \in Nat
    BY <1>1
  <2>2. step \in [(1..n) \X V -> V]
    BY <1>3
  <2> QED BY ONLY <1>4, <2>1, <2>2, CountedRecursion
<1>6. f = WithTurn(f, nodes, ns)
  <2> DEFINE h == WithTurn(f, nodes, ns)
  <2>1. h = [i \in 0..n |-> IF i = 0 THEN nodes ELSE WithNode(f[i - 1], ns[i])]
    BY DEF WithTurn, n
  <2> HIDE DEF h
  <2>2. ASSUME NEW i \in 0..n PROVE f[i] = h[i]
    <3>1. CASE i = 0
      BY <1>5, <2>1, <3>1 DEF Steps
    <3>2. CASE i # 0
      <4>1. i \in 1..n /\ i - 1 \in 0..n
        BY <1>1, <3>2
      <4>2. f[i] = WithNode(f[i - 1], ns[i])
        BY <1>3, <1>5, <4>1 DEF Steps
      <4> QED BY <2>1, <3>2, <4>2
    <3> QED BY <3>1, <3>2
  <2> QED BY <1>5, <2>1, <2>2 DEF h, Steps
<1>7. iter = WithTurn(iter, nodes, ns)
  BY <1>6
<1>8. WithNodes(nodes, ns) = iter[n]
  BY DEF WithNodes, WithTurn, n
<1> HIDE DEF iter
<1>9. 0 \in P
  <2>1. 0 \in 0..n /\ 1..0 = {}
    BY <1>1
  <2>2. iter[0] = nodes
    BY <1>7, <2>1 DEF WithTurn, n
  <2> QED BY <1>4, <2>1, <2>2
<1>10. ASSUME NEW i \in 0..(n - 1), i \in P PROVE i + 1 \in P
  <2> DEFINE k == i + 1
             v == iter[i]
             x == ns[k]
  <2>1. k \in 1..n /\ k \in 0..n /\ k # 0 /\ k - 1 = i /\ x \in Nat
    BY <1>1
  <2>2. v \in Seq(Nat) /\ Has(i, v)
    BY <1>10 DEF V
  <2>3. iter[k] = WithNode(v, x)
    <3> HIDE DEF k
    <3>1. iter[k] = WithNode(iter[k - 1], ns[k])
      BY <1>7, <2>1 DEF WithTurn, n
    <3> QED BY <2>1, <3>1
  <2> HIDE DEF v, x
  <2>4. /\ iter[k] \in Seq(Nat) /\ x \in Range(iter[k]) /\ Range(v) \subseteq Range(iter[k])
    BY <2>1, <2>2, <2>3, WithNodeIs
  <2>5. ASSUME NEW j \in 1..k PROVE ns[j] \in Range(iter[k])
    <3>1. CASE j = k
      BY <2>4, <3>1 DEF x
    <3>2. CASE j # k
      <4>1. j \in 1..i
        BY <1>1, <3>2
      <4> QED BY <2>2, <2>4, <4>1
    <3> QED BY <3>1, <3>2
  <2> HIDE DEF k
  <2>6. Has(k, iter[k])
    BY <2>2, <2>4, <2>5
  <2> QED BY <2>1, <2>4, <2>6 DEF k, V
<1> HIDE DEF P
<1>11. \A i \in 0..n : i \in P
  BY <1>1, <1>9, <1>10, UpTo
<1>12. iter[n] \in Seq(Nat) /\ Has(n, iter[n])
  <2>1. n \in P
    BY <1>1, <1>11
  <2> QED BY <2>1 DEF P, V
<1>13. Range(ns) \subseteq Range(iter[n])
  BY <1>1, <1>12 DEF Range
<1> QED BY <1>8, <1>12, <1>13

\* What a pass holds.  Its edges join its nodes; while it is alone the progress record counts
\* its files; once it has looked at the limits for the last time, one of them stopped it or
\* no file was left; and labels stay inside every set that no edge leaves.
PassFields == {"stage", "todo", "nodes", "edges", "taken", "labels"}
Running == {"look", "take", "label", "write", "done"}
PassType(g, p) ==
  \/ p.stage = "none"
  \/ /\ DOMAIN p = PassFields /\ p.stage \in Running \cup {"failed", "stored"}
     /\ p.nodes \in Seq(Nat) /\ p.taken \in Seq(Nat) /\ p.todo \in Seq(Range(WalkOrder[g]))
     /\ p.stage = "take" => p.todo # <<>>
     /\ Joining(p.edges, Range(p.nodes))
Filled(p) == Len(p.nodes) >= graphifyMaxNodes \/ Cardinality(p.edges) >= graphifyMaxEdges
LabelsKept(p) ==
  p.stage \in {"write", "done", "stored"} =>
    /\ DOMAIN p.labels = Range(p.nodes)
    /\ \A S \in SUBSET Range(p.nodes) : Cut(p.edges, S) => Inside(p.labels, S)
Works(p) == p.stage \in Running \ {"done"}
CountKept(p, seen) ==
  p.stage \in Running =>
    /\ Len(p.taken) = seen /\ Len(p.taken) <= graphifyMaxFiles
    /\ p.stage = "take" => Len(p.taken) < graphifyMaxFiles
StopKept(p) ==
  p.stage \in {"label", "write", "done", "stored"} =>
    /\ Len(p.taken) <= graphifyMaxFiles
    /\ Len(p.taken) < graphifyMaxFiles => p.todo = <<>> \/ Filled(p)
GfyInv ==
  /\ DOMAIN progress = {"seen", "nodes", "edges", "communities", "done"} /\ progress.seen \in Nat
  /\ passes \in Nat /\ DOMAIN pass = Root /\ alone \in [Root -> BOOLEAN]
  /\ \A g \in Root :
       /\ PassType(g, pass[g]) /\ LabelsKept(pass[g])
       /\ alone[g] => StopKept(pass[g])
       /\ alone[g] /\ PassRuns(g) => /\ CountKept(pass[g], progress.seen)
                                     /\ \A h \in Root : h # g => ~PassRuns(h)
  /\ passes > 0 => progress.done = TRUE \/ \E g \in Root : Works(pass[g])

LEMMA GfyStarts == GraphifyInit => GfyInv
BY DEF GraphifyInit, GfyInv, NoProgress, NoPass, PassType, LabelsKept, StopKept, CountKept, PassRuns, Running

LEMMA GfyStarted ==
  ASSUME GfyInv, NEW g \in Root, StartPass(g)
  PROVE  GfyInv'
<1> DEFINE q == [stage |-> "look", todo |-> FilesUnder(g), nodes |-> <<>>,
                 edges |-> {}, taken |-> <<>>, labels |-> <<>>]
           seq == FilesUnder(g)
<1>1. /\ ~PassRuns(g) /\ progress' = NoProgress /\ passes' = passes + 1
      /\ pass' = [pass EXCEPT ![g] = q]
      /\ alone' = [h \in Root |-> IF h = g THEN \A k \in Root : ~PassRuns(k) ELSE alone[h] /\ ~PassRuns(h)]
  BY DEF StartPass, BeginPass
<1>2. seq \in Seq(Range(WalkOrder[g]))
  BY ONLY g \in Root, FilesUnderIs, GraphifyAssumption
<1>3. PassType(g, q) /\ LabelsKept(q) /\ StopKept(q) /\ CountKept(q, 0) /\ Works(q)
  <2> HIDE DEF seq
  <2>1. q = [stage |-> "look", todo |-> seq, nodes |-> <<>>, edges |-> {}, taken |-> <<>>, labels |-> <<>>]
    BY DEF seq
  <2> HIDE DEF q
  <2>2. DOMAIN q = PassFields /\ q.stage = "look" /\ q.todo = seq /\ q.nodes = <<>> /\ q.edges = {} /\ q.taken = <<>>
    BY <2>1 DEF PassFields
  <2>3. <<>> \in Seq(Nat) /\ Len(<<>>) = 0
    OBVIOUS
  <2>4. PassType(g, q)
    BY <1>2, <2>2, <2>3 DEF PassType, Joining, Running
  <2>5. CountKept(q, 0)
    BY <2>2, <2>3 DEF CountKept, GraphifyAssumption
  <2> QED BY <2>2, <2>4, <2>5 DEF LabelsKept, StopKept, Works, Running
<1> HIDE DEF q, seq
<1>4. /\ DOMAIN progress' = {"seen", "nodes", "edges", "communities", "done"} /\ progress'.seen = 0
  BY <1>1 DEF NoProgress
<1>5. passes' \in Nat /\ DOMAIN pass' = Root /\ alone' \in [Root -> BOOLEAN] /\ pass'[g] = q
  <2>1. passes' \in Nat /\ DOMAIN pass' = Root /\ pass'[g] = q
    BY <1>1 DEF GfyInv
  <2>2. \A h \in Root : (IF h = g THEN \A k \in Root : ~PassRuns(k) ELSE alone[h] /\ ~PassRuns(h)) \in BOOLEAN
    OBVIOUS
  <2>3. alone' \in [Root -> BOOLEAN]
    BY <1>1, <2>2, Zenon
  <2> QED BY <2>1, <2>3
<1>6. \A h \in Root : h # g => pass'[h] = pass[h]
  BY <1>1 DEF GfyInv
<1>7. ASSUME NEW h \in Root
      PROVE  /\ PassType(h, pass'[h]) /\ LabelsKept(pass'[h])
             /\ alone'[h] => StopKept(pass'[h])
             /\ alone'[h] /\ PassRuns(h)' => /\ CountKept(pass'[h], progress'.seen)
                                             /\ \A k \in Root : k # h => ~PassRuns(k)'
  <2>1. CASE h = g
    <3>1. alone'[h] => \A k \in Root : ~PassRuns(k)
      BY <1>1, <2>1
    <3>2. \A k \in Root : k # h => (PassRuns(k)' <=> PassRuns(k))
      BY <1>6, <2>1 DEF PassRuns
    <3> QED BY <1>3, <1>4, <1>5, <2>1, <3>1, <3>2
  <2>2. CASE h # g
    <3>1. pass'[h] = pass[h] /\ (PassRuns(h)' <=> PassRuns(h))
      BY <1>6, <2>2 DEF PassRuns
    <3>2. alone'[h] => alone[h] /\ ~PassRuns(h)
      BY <1>1, <2>2
    <3> QED BY <3>1, <3>2 DEF GfyInv
  <2> QED BY <2>1, <2>2
<1>8. \E h \in Root : Works(pass'[h])
  BY <1>3, <1>5
<1> QED BY <1>4, <1>5, <1>7, <1>8 DEF GfyInv

\* A step of a pass that runs.
LEMMA GfyKept ==
  ASSUME GfyInv, NEW g \in Root, PassRuns(g), NEW q,
         pass' = [pass EXCEPT ![g] = q], UNCHANGED <<alone, passes>>,
         DOMAIN progress' = {"seen", "nodes", "edges", "communities", "done"}, progress'.seen \in Nat,
         PassType(g, q), LabelsKept(q), alone[g] => StopKept(q), alone[g] => CountKept(q, progress'.seen),
         \/ progress'.done = TRUE \/ Works(q)
         \/ ~Works(pass[g]) /\ progress'.done = progress.done
  PROVE  GfyInv'
<1>1. DOMAIN pass' = Root /\ pass'[g] = q /\ \A h \in Root : h # g => pass'[h] = pass[h]
  BY DEF GfyInv
<1>2. ASSUME NEW h \in Root
      PROVE  /\ PassType(h, pass'[h]) /\ LabelsKept(pass'[h])
             /\ alone[h] => StopKept(pass'[h])
             /\ alone[h] /\ PassRuns(h)' => /\ CountKept(pass'[h], progress'.seen)
                                            /\ \A k \in Root : k # h => ~PassRuns(k)'
  <2>1. CASE h = g
    <3>1. \A k \in Root : k # h => (PassRuns(k)' <=> PassRuns(k))
      BY <1>1, <2>1 DEF PassRuns
    <3>2. alone[h] => \A k \in Root : k # h => ~PassRuns(k)
      BY <2>1 DEF GfyInv
    <3> QED BY <1>1, <2>1, <3>1, <3>2
  <2>2. CASE h # g
    <3>1. pass'[h] = pass[h] /\ (PassRuns(h)' <=> PassRuns(h))
      BY <1>1, <2>2 DEF PassRuns
    <3>2. ~ (alone[h] /\ PassRuns(h))
      BY <2>2 DEF GfyInv
    <3> QED BY <3>1, <3>2 DEF GfyInv
  <2> QED BY <2>1, <2>2
<1>3. passes > 0 => progress'.done = TRUE \/ \E h \in Root : Works(pass'[h])
  <2>1. CASE progress'.done = TRUE \/ Works(q)
    BY <1>1, <2>1
  <2>2. CASE ~Works(pass[g]) /\ progress'.done = progress.done
    <3>1. ASSUME NEW h \in Root, Works(pass[h]) PROVE Works(pass'[h])
      BY <1>1, <2>2, <3>1
    <3> QED BY <2>2, <3>1 DEF GfyInv
  <2> QED BY <2>1, <2>2
<1> QED BY <1>1, <1>2, <1>3 DEF GfyInv

\* A pass as a record, and what a change of its stage leaves.
LEMMA GfyRunning ==
  ASSUME GfyInv, NEW g \in Root, PassRuns(g)
  PROVE  /\ DOMAIN pass[g] = PassFields /\ pass[g].stage \in Running
         /\ pass[g].nodes \in Seq(Nat) /\ pass[g].taken \in Seq(Nat)
         /\ pass[g].todo \in Seq(Range(WalkOrder[g]))
         /\ pass[g].stage = "take" => pass[g].todo # <<>>
         /\ Joining(pass[g].edges, Range(pass[g].nodes))
         /\ LabelsKept(pass[g])
         /\ alone[g] => StopKept(pass[g]) /\ CountKept(pass[g], progress.seen)
<1>1. PassType(g, pass[g]) /\ pass[g].stage # "none" /\ pass[g].stage \in Running
  BY DEF GfyInv, PassRuns, Running
<1> QED BY <1>1 DEF GfyInv, PassType

LEMMA StageSet ==
  ASSUME NEW p, DOMAIN p = PassFields, NEW s, NEW q, q = [p EXCEPT !.stage = s]
  PROVE  /\ DOMAIN q = PassFields /\ q.stage = s /\ q.todo = p.todo /\ q.nodes = p.nodes
         /\ q.edges = p.edges /\ q.taken = p.taken /\ q.labels = p.labels
BY DEF PassFields

LEMMA GfyLooked ==
  ASSUME GfyInv, NEW g \in Root, Look(g)
  PROVE  GfyInv'
<1> DEFINE p == pass[g]
           full == \/ progress.seen >= graphifyMaxFiles
                   \/ Len(p.nodes) >= graphifyMaxNodes \/ Cardinality(p.edges) >= graphifyMaxEdges
           s == IF p.todo = <<>> \/ full THEN "label" ELSE "take"
           q == [p EXCEPT !.stage = s]
<1>1. p.stage = "look" /\ PassRuns(g)
  BY DEF Look, PassRuns
<1>2. pass' = [pass EXCEPT ![g] = q] /\ UNCHANGED <<progress, alone, passes>>
  BY DEF Look, GfyInv
<1>3. /\ DOMAIN p = PassFields /\ p.nodes \in Seq(Nat) /\ p.taken \in Seq(Nat)
      /\ p.todo \in Seq(Range(WalkOrder[g])) /\ Joining(p.edges, Range(p.nodes))
      /\ alone[g] => CountKept(p, progress.seen)
  BY <1>1, GfyRunning
<1>4. progress.seen \in Nat
  BY DEF GfyInv
<1>5. s = "take" => p.todo # <<>> /\ ~ full
  OBVIOUS
<1>6. s # "take" => s = "label" /\ (p.todo = <<>> \/ progress.seen >= graphifyMaxFiles \/ Filled(p))
  BY DEF Filled
<1>7. s = "take" => ~(progress.seen >= graphifyMaxFiles)
  OBVIOUS
<1>8. s \in {"label", "take"}
  OBVIOUS
<1> HIDE DEF s, p, full
<1>9. /\ DOMAIN q = PassFields /\ q.stage = s /\ q.todo = p.todo /\ q.nodes = p.nodes
      /\ q.edges = p.edges /\ q.taken = p.taken
  BY <1>3, StageSet
<1> HIDE DEF q
<1>10. PassType(g, q)
  BY <1>3, <1>5, <1>8, <1>9 DEF PassType, Running
<1>11. LabelsKept(q) /\ Works(q)
  BY <1>8, <1>9 DEF LabelsKept, Works, Running
<1>12. Len(p.taken) \in Nat
  BY <1>3
<1>13. alone[g] => StopKept(q)
  <2>1. ASSUME alone[g], q.stage = "label" PROVE StopKept(q)
    <3>1. Len(p.taken) = progress.seen /\ Len(p.taken) <= graphifyMaxFiles
      BY <1>1, <1>3, <2>1 DEF CountKept, p, Running
    <3>2. p.todo = <<>> \/ progress.seen >= graphifyMaxFiles \/ Filled(p)
      BY <1>6, <1>9, <2>1
    <3>3. Filled(q) <=> Filled(p)
      BY <1>9 DEF Filled
    <3> QED BY <1>4, <1>9, <3>1, <3>2, <3>3 DEF StopKept, GraphifyAssumption
  <2>2. q.stage # "label" => StopKept(q)
    BY <1>8, <1>9 DEF StopKept
  <2> QED BY <2>1, <2>2
<1>14. alone[g] => CountKept(q, progress.seen)
  <2>1. ASSUME alone[g] PROVE CountKept(q, progress.seen)
    <3>1. Len(p.taken) = progress.seen /\ Len(p.taken) <= graphifyMaxFiles
      BY <1>1, <1>3, <2>1 DEF CountKept, p, Running
    <3>2. s = "take" => Len(p.taken) < graphifyMaxFiles
      BY <1>4, <1>7, <3>1 DEF GraphifyAssumption
    <3> QED BY <1>9, <3>1, <3>2 DEF CountKept
  <2> QED BY <2>1
<1>15. DOMAIN progress' = {"seen", "nodes", "edges", "communities", "done"} /\ progress'.seen \in Nat
  BY <1>2 DEF GfyInv
<1> QED BY <1>1, <1>2, <1>10, <1>11, <1>13, <1>14, <1>15, GfyKept

LEMMA GfyTaken ==
  ASSUME GfyInv, NEW g \in Root, TakeFile(g)
  PROVE  GfyInv'
<1> DEFINE p == pass[g]
           f == Head(p.todo)
           concepts == SubSeq(ConceptsIn[f], 1, Fewest(Len(ConceptsIn[f]), graphifyMaxConceptsPerFile))
           nodes == WithNodes(WithNode(p.nodes, f), concepts)
           imports == {c \in ImportsIn[f] : c \in Range(nodes)}
           edges == p.edges \cup {<<f, c, "defines">> : c \in Range(concepts)}
                      \cup ConceptPairs(concepts) \cup {<<f, c, "imports">> : c \in imports}
           q == [p EXCEPT !.stage = "look", !.todo = Tail(p.todo), !.taken = Append(p.taken, f),
                          !.nodes = nodes, !.edges = edges]
<1>1. p.stage = "take" /\ PassRuns(g) /\ UNCHANGED <<alone, passes>>
  BY DEF TakeFile, PassRuns
<1>2. /\ DOMAIN p = PassFields /\ p.nodes \in Seq(Nat) /\ p.taken \in Seq(Nat)
      /\ p.todo \in Seq(Range(WalkOrder[g])) /\ p.todo # <<>> /\ Joining(p.edges, Range(p.nodes))
      /\ alone[g] => CountKept(p, progress.seen)
  BY <1>1, GfyRunning
<1>3. /\ progress' = [progress EXCEPT !.seen = progress.seen + 1]
  BY DEF TakeFile
<1>4. pass' = [pass EXCEPT ![g] = q]
  BY DEF TakeFile
<1>5. q.stage = "look" /\ q.todo = Tail(p.todo) /\ q.taken = Append(p.taken, f) /\ q.nodes = nodes
      /\ q.edges = edges /\ DOMAIN q = PassFields
  <2> HIDE DEF nodes, edges, f
  <2> QED BY <1>2 DEF PassFields
<1>6. f \in Range(WalkOrder[g]) /\ Tail(p.todo) \in Seq(Range(WalkOrder[g]))
  <2> DEFINE V == Range(WalkOrder[g])
             todo == p.todo
  <2>1. todo \in Seq(V) /\ todo # <<>>
    BY <1>2
  <2> HIDE DEF V, todo
  <2>2. Head(todo) \in V /\ Tail(todo) \in Seq(V)
    BY <2>1
  <2> QED BY <2>2 DEF V, todo
<1>7. f \in Nat /\ ConceptsIn[f] \in Seq(Nat)
  <2> HIDE DEF f, p
  <2>1. ConceptsIn[f] \in Seq(Nat) /\ WalkOrder[g] \in Seq(Nat)
    BY <1>6 DEF GraphifyAssumption
  <2> QED BY <1>6, <2>1 DEF Range
<1>8. concepts \in Seq(Nat)
  <2> HIDE DEF f
  <2>1. Fewest(Len(ConceptsIn[f]), graphifyMaxConceptsPerFile) \in Nat
    BY <1>7 DEF Fewest, GraphifyAssumption
  <2>2. Fewest(Len(ConceptsIn[f]), graphifyMaxConceptsPerFile) <= Len(ConceptsIn[f])
    BY <1>7 DEF Fewest, GraphifyAssumption
  <2> QED BY <1>7, <2>1, <2>2
<1>9. /\ nodes \in Seq(Nat) /\ Range(p.nodes) \subseteq Range(nodes) /\ f \in Range(nodes)
      /\ Range(concepts) \subseteq Range(nodes)
  <2> HIDE DEF p, f, concepts
  <2>1. WithNode(p.nodes, f) \in Seq(Nat) /\ f \in Range(WithNode(p.nodes, f))
        /\ Range(p.nodes) \subseteq Range(WithNode(p.nodes, f))
    BY <1>2, <1>7, WithNodeIs
  <2> QED BY <1>8, <2>1, WithNodesIs
<1>10. Joining(edges, Range(nodes))
  <2> DEFINE R == Range(nodes)
  <2>1. \A i \in DOMAIN concepts : concepts[i] \in R
    BY <1>9 DEF Range
  <2> HIDE DEF p, f, concepts, nodes
  <2>2. ASSUME NEW e \in p.edges PROVE e \in R \X R \X Relation3
    <3>1. e \in Range(p.nodes) \X Range(p.nodes) \X Relation3
      BY <1>2 DEF Joining
    <3> HIDE DEF R
    <3>2. Range(p.nodes) \subseteq R
      BY <1>9 DEF R
    <3> QED BY <3>1, <3>2
  <2>3. ASSUME NEW e \in ConceptPairs(concepts) PROVE e \in R \X R \X Relation3
    <3>1. PICK i \in DOMAIN concepts : \E j \in i + 1..Len(concepts) : e = <<concepts[i], concepts[j], "references">>
      BY DEF ConceptPairs
    <3>2. PICK j \in i + 1..Len(concepts) : e = <<concepts[i], concepts[j], "references">>
      BY <3>1
    <3>3. j \in DOMAIN concepts
      BY <1>8
    <3> QED BY <2>1, <3>2, <3>3 DEF Relation3
  <2>4. ASSUME NEW c \in R PROVE <<f, c, "defines">> \in R \X R \X Relation3 /\ <<f, c, "imports">> \in R \X R \X Relation3
    BY <1>9 DEF Relation3
  <2>5. ASSUME NEW e \in edges PROVE e \in R \X R \X Relation3
    <3>1. CASE e \in p.edges
      BY <2>2, <3>1
    <3>2. CASE e \in ConceptPairs(concepts)
      BY <2>3, <3>2
    <3>3. CASE e \in {<<f, c, "defines">> : c \in Range(concepts)}
      BY <1>9, <2>4, <3>3
    <3>4. CASE e \in {<<f, c, "imports">> : c \in imports}
      BY <2>4, <3>4
    <3> QED BY <3>1, <3>2, <3>3, <3>4
  <2> QED BY <2>5 DEF Joining
<1> HIDE DEF q, edges, nodes, imports, concepts
<1>11. Append(p.taken, f) \in Seq(Nat) /\ Len(Append(p.taken, f)) = Len(p.taken) + 1 /\ Len(p.taken) \in Nat
  <2> HIDE DEF p, f
  <2> QED BY <1>2, <1>7
<1> HIDE DEF f
<1>12. PassType(g, q) /\ LabelsKept(q) /\ StopKept(q) /\ Works(q)
  BY <1>5, <1>6, <1>9, <1>10, <1>11 DEF PassType, LabelsKept, StopKept, Works, Running
<1>13. /\ DOMAIN progress' = {"seen", "nodes", "edges", "communities", "done"} /\ progress'.seen = progress.seen + 1
       /\ progress.seen \in Nat
  BY <1>3 DEF GfyInv
<1>14. alone[g] => CountKept(q, progress'.seen)
  <2>1. ASSUME alone[g] PROVE CountKept(q, progress'.seen)
    <3>1. Len(p.taken) = progress.seen /\ Len(p.taken) < graphifyMaxFiles
      BY <1>1, <1>2, <2>1 DEF CountKept, Running
    <3> QED BY <1>5, <1>11, <1>13, <3>1 DEF CountKept, GraphifyAssumption
  <2> QED BY <2>1
<1>15. progress'.seen \in Nat
  BY <1>13
<1> HIDE DEF p
<1> QED BY <1>1, <1>4, <1>12, <1>13, <1>14, <1>15, GfyKept

LEMMA GfyLabelled ==
  ASSUME GfyInv, NEW g \in Root, Label(g)
  PROVE  GfyInv'
<1> DEFINE p == pass[g]
           labels == labelPropagate(p.nodes, p.edges)
           fields == {"seen", "nodes", "edges", "communities", "done"}
<1>1. p.stage = "label" /\ PassRuns(g) /\ UNCHANGED <<alone, passes>>
  BY DEF Label, PassRuns
<1>2. /\ DOMAIN p = PassFields /\ p.nodes \in Seq(Nat) /\ p.taken \in Seq(Nat)
      /\ p.todo \in Seq(Range(WalkOrder[g])) /\ Joining(p.edges, Range(p.nodes))
      /\ alone[g] => StopKept(p) /\ CountKept(p, progress.seen)
  BY <1>1, GfyRunning
<1>3. DOMAIN progress = fields /\ progress.seen \in Nat
  BY DEF GfyInv
<1>4. CASE p.nodes = <<>>
  <2> DEFINE q == [p EXCEPT !.stage = "failed"]
  <2>1. pass' = [pass EXCEPT ![g] = q] /\ progress' = [progress EXCEPT !.done = TRUE]
    BY <1>4 DEF Label
  <2>2. /\ DOMAIN q = PassFields /\ q.stage = "failed" /\ q.todo = p.todo /\ q.nodes = p.nodes
        /\ q.edges = p.edges /\ q.taken = p.taken
    BY <1>2, StageSet
  <2> HIDE DEF q, p
  <2>3. PassType(g, q) /\ LabelsKept(q) /\ StopKept(q) /\ CountKept(q, progress'.seen)
    BY <1>2, <2>2 DEF PassType, LabelsKept, StopKept, CountKept, Running
  <2>4. DOMAIN progress' = fields /\ progress'.seen \in Nat /\ progress'.done = TRUE
    BY <1>3, <2>1
  <2> QED BY <1>1, <2>1, <2>3, <2>4, GfyKept
<1>5. CASE p.nodes # <<>>
  <2> DEFINE q == [p EXCEPT !.stage = "write", !.labels = labels]
  <2>1. /\ pass' = [pass EXCEPT ![g] = q]
        /\ progress' = [progress EXCEPT !.nodes = Len(p.nodes), !.edges = Cardinality(p.edges),
                                        !.communities = Cardinality(Range(labels))]
    BY <1>5 DEF Label
  <2>2. /\ labels \in [Range(p.nodes) -> Range(p.nodes)]
        /\ \A S \in SUBSET Range(p.nodes) : Cut(p.edges, S) => Inside(labels, S)
    <3> HIDE DEF p
    <3> QED BY <1>2, LabelsAreInside
  <2> HIDE DEF labels
  <2>3. /\ DOMAIN q = PassFields /\ q.stage = "write" /\ q.todo = p.todo /\ q.nodes = p.nodes
        /\ q.edges = p.edges /\ q.taken = p.taken /\ q.labels = labels
    BY <1>2 DEF PassFields
  <2>4. DOMAIN progress' = fields /\ progress'.seen = progress.seen
    BY <1>3, <2>1
  <2> HIDE DEF q, p
  <2>5. PassType(g, q) /\ Works(q)
    BY <1>2, <2>3 DEF PassType, Works, Running
  <2>6. LabelsKept(q)
    BY <2>2, <2>3 DEF LabelsKept
  <2>7. alone[g] => StopKept(q) /\ CountKept(q, progress'.seen)
    BY <1>1, <1>2, <2>3, <2>4 DEF StopKept, CountKept, Filled, Running, p
  <2>8. progress'.seen \in Nat
    BY <1>3, <2>4
  <2> QED BY <1>1, <2>1, <2>4, <2>5, <2>6, <2>7, <2>8, GfyKept
<1> QED BY <1>4, <1>5

LEMMA GfyWritten ==
  ASSUME GfyInv, NEW g \in Root, WriteOut(g) \/ WriteFails(g) \/ Store(g)
  PROVE  GfyInv'
<1> DEFINE p == pass[g]
           fields == {"seen", "nodes", "edges", "communities", "done"}
<1>1. p.stage \in {"write", "done"} /\ PassRuns(g) /\ UNCHANGED <<alone, passes>>
  BY DEF WriteOut, WriteFails, Store, PassRuns
<1>2. /\ DOMAIN p = PassFields /\ p.nodes \in Seq(Nat) /\ p.taken \in Seq(Nat)
      /\ p.todo \in Seq(Range(WalkOrder[g])) /\ Joining(p.edges, Range(p.nodes)) /\ LabelsKept(p)
      /\ alone[g] => StopKept(p) /\ CountKept(p, progress.seen)
  BY <1>1, GfyRunning
<1>3. DOMAIN progress = fields /\ progress.seen \in Nat
  BY DEF GfyInv
<1>4. \/ UNCHANGED <<pass, progress>>
      \/ \E s \in {"done", "failed"} : /\ pass' = [pass EXCEPT ![g] = [p EXCEPT !.stage = s]]
                                       /\ progress' = [progress EXCEPT !.done = TRUE]
      \/ /\ pass' = [pass EXCEPT ![g] = [p EXCEPT !.stage = "stored"]]
         /\ progress' = progress /\ p.stage = "done"
  <2>1. CASE WriteOut(g)
    BY <2>1 DEF WriteOut
  <2>2. CASE WriteFails(g)
    BY <2>2 DEF WriteFails
  <2>3. CASE Store(g)
    BY <2>3 DEF Store
  <2> QED BY <2>1, <2>2, <2>3
<1>5. ASSUME NEW s \in {"done", "failed", "stored"}
      PROVE  LET q == [p EXCEPT !.stage = s]
             IN  /\ PassType(g, q) /\ LabelsKept(q)
                 /\ alone[g] => StopKept(q) /\ CountKept(q, progress.seen)
  <2> DEFINE q == [p EXCEPT !.stage = s]
  <2>1. /\ DOMAIN q = PassFields /\ q.stage = s /\ q.todo = p.todo /\ q.nodes = p.nodes
        /\ q.edges = p.edges /\ q.taken = p.taken /\ q.labels = p.labels
    BY <1>2, StageSet
  <2> HIDE DEF q
  <2>2. p.stage \in Running /\ p.stage \in {"write", "done", "stored"}
    BY <1>1 DEF Running
  <2> HIDE DEF p
  <2>3. PassType(g, q)
    BY <1>2, <2>1 DEF PassType, Running
  <2>4. LabelsKept(q)
    BY <1>2, <2>1, <2>2 DEF LabelsKept
  <2>5. alone[g] => StopKept(q) /\ CountKept(q, progress.seen)
    BY <1>2, <2>1, <2>2 DEF StopKept, CountKept, Filled, Running
  <2> QED BY <2>3, <2>4, <2>5 DEF q
<1>6. CASE UNCHANGED <<pass, progress>>
  BY <1>1, <1>6 DEF GfyInv, PassRuns
<1>7. CASE \E s \in {"done", "failed"} : /\ pass' = [pass EXCEPT ![g] = [p EXCEPT !.stage = s]]
                                         /\ progress' = [progress EXCEPT !.done = TRUE]
  <2>1. PICK s \in {"done", "failed"} : /\ pass' = [pass EXCEPT ![g] = [p EXCEPT !.stage = s]]
                                        /\ progress' = [progress EXCEPT !.done = TRUE]
    BY <1>7
  <2> DEFINE q == [p EXCEPT !.stage = s]
  <2>2. DOMAIN progress' = fields /\ progress'.seen = progress.seen /\ progress'.done = TRUE
    BY <1>3, <2>1
  <2>3. /\ PassType(g, q) /\ LabelsKept(q)
        /\ alone[g] => StopKept(q) /\ CountKept(q, progress'.seen)
    BY <1>5, <2>2
  <2>4. pass' = [pass EXCEPT ![g] = q]
    BY <2>1
  <2> HIDE DEF q, p
  <2> QED BY <1>1, <1>3, <2>2, <2>3, <2>4, GfyKept
<1>8. CASE /\ pass' = [pass EXCEPT ![g] = [p EXCEPT !.stage = "stored"]]
           /\ progress' = progress /\ p.stage = "done"
  <2> DEFINE q == [p EXCEPT !.stage = "stored"]
  <2>1. /\ PassType(g, q) /\ LabelsKept(q)
        /\ alone[g] => StopKept(q) /\ CountKept(q, progress'.seen)
    BY <1>5, <1>8
  <2>2. pass' = [pass EXCEPT ![g] = q] /\ ~Works(pass[g])
    BY <1>8 DEF Works
  <2>3. progress'.done = progress.done /\ progress'.seen \in Nat /\ DOMAIN progress' = fields
    BY <1>3, <1>8
  <2> HIDE DEF q, p
  <2> QED BY <1>1, <2>1, <2>2, <2>3, GfyKept
<1> QED BY <1>4, <1>6, <1>7, <1>8

\* Inductive: what GfyInv says of every pass, whichever one makes a step.
THEOREM GraphifyInvariance == GraphifySpec => []GfyInv
<1>1. ASSUME GfyInv, [GraphifyNext]_graphifyVars PROVE GfyInv'
  <2>1. CASE GraphifyNext
    <3>1. PICK g \in Root : \/ StartPass(g) \/ Look(g) \/ TakeFile(g) \/ Label(g)
                            \/ WriteOut(g) \/ WriteFails(g) \/ Store(g)
      BY <2>1 DEF GraphifyNext
    <3> QED BY <1>1, <3>1, GfyStarted, GfyLooked, GfyTaken, GfyLabelled, GfyWritten
  <2>2. CASE UNCHANGED graphifyVars
    BY <1>1, <2>2 DEF graphifyVars, GfyInv, PassRuns
  <2> QED BY <1>1, <2>1, <2>2
<1> QED BY <1>1, GfyStarts, PTL DEF GraphifySpec

\* GraphifySound, for any folders, concepts and limits: a pass that was alone stopped at the
\* limit of files or at the end of the walk, no edge lacks an end, no community joins what
\* nothing connects, and once no pass runs the progress record says so (Graphify.Run).
THEOREM CommunitiesAreSound == GraphifySpec => []GraphifySound
<1>1. ASSUME GfyInv PROVE GraphifySound
  <2>1. ASSUME NEW g \in Root, pass[g].stage = "stored"
        PROVE  LET p == pass[g]
                   full == Len(p.nodes) >= graphifyMaxNodes \/ Cardinality(p.edges) >= graphifyMaxEdges
               IN  /\ alone[g] => /\ Len(p.taken) <= graphifyMaxFiles
                                  /\ Len(p.taken) < graphifyMaxFiles => p.todo = <<>> \/ full
                   /\ \A e \in p.edges : {e[1], e[2]} \subseteq Range(p.nodes)
                   /\ DOMAIN p.labels = Range(p.nodes)
                   /\ \A S \in SUBSET Range(p.nodes) : Apart(p, S) => \A n \in S : p.labels[n] \in S
    <3>1. PassType(g, pass[g]) /\ LabelsKept(pass[g]) /\ (alone[g] => StopKept(pass[g]))
      BY <1>1 DEF GfyInv
    <3>2. alone[g] => /\ Len(pass[g].taken) <= graphifyMaxFiles
                      /\ Len(pass[g].taken) < graphifyMaxFiles => pass[g].todo = <<>> \/ Filled(pass[g])
      BY <2>1, <3>1 DEF StopKept
    <3>3. Joining(pass[g].edges, Range(pass[g].nodes))
      BY <2>1, <3>1 DEF PassType
    <3>4. \A e \in pass[g].edges : {e[1], e[2]} \subseteq Range(pass[g].nodes)
      BY <3>3 DEF Joining
    <3>5. /\ DOMAIN pass[g].labels = Range(pass[g].nodes)
          /\ \A S \in SUBSET Range(pass[g].nodes) : Cut(pass[g].edges, S) => Inside(pass[g].labels, S)
      BY <2>1, <3>1 DEF LabelsKept
    <3>6. \A S \in SUBSET Range(pass[g].nodes) : Apart(pass[g], S) => \A n \in S : pass[g].labels[n] \in S
      BY <3>5 DEF Cut, Inside, Apart
    <3> QED BY <3>2, <3>4, <3>5, <3>6 DEF Filled
  <2>2. (passes > 0 /\ \A g \in Root : ~PassRuns(g)) => progress.done
    <3>1. \A g \in Root : Works(pass[g]) => PassRuns(g)
      BY DEF Works, PassRuns, Running
    <3> QED BY <1>1, <3>1 DEF GfyInv
  <2> QED BY <2>1, <2>2 DEF GraphifySound
<1> QED BY <1>1, GraphifyInvariance, PTL

HIDE GraphifyAssumption

-----------------------------------------------------------------------------
(***************************************************************************)
(* The user's files.  While nobody has raced or broken a block, the hooks  *)
(* of the settings, and of what is about to replace them, are those of the *)
(* user and ours, and the project's text is lines of the user around at    *)
(* most one whole block.                                                   *)
(***************************************************************************)
Marker == {"begin", "body", "end"}
SomeHook == UserHook \cup {Ours}
Settings == [HookEvent -> SUBSET SUBSET SomeHook]

\* A block stands at place i of s, and all else is lines of the user.
BlockAt(s, i) ==
  /\ i \in 1..(Len(s) - 2) /\ s[i] = "begin" /\ s[i + 1] = "body" /\ s[i + 2] = "end"
  /\ \A j \in DOMAIN s : j \notin {i, i + 1, i + 2} => s[j] \in UserLine
OnlyLines(s) == \A j \in DOMAIN s : s[j] \in UserLine
Sane(s) == s \in Seq(UserLine \cup Marker) /\ (OnlyLines(s) \/ \E i \in Nat : BlockAt(s, i))
Holds(s, own) == \A u \in own : \E i \in DOMAIN s : s[i] = u

UserTypes ==
  /\ settings \in Settings /\ update \in [at : {"idle", "rename"}, out : Settings]
  /\ DOMAIN text = {"global", "project"} /\ DOMAIN ownLines = {"global", "project"}
  /\ ownHooks \in [HookEvent -> SUBSET UserHook]
HooksKept(s) == \A ev \in HookEvent : HooksIn(s, ev) = ownHooks[ev]
LinesKept(s, own) == Sane(s) /\ own \in SUBSET UserLine /\ Holds(s, own)
UserInv ==
  /\ UserTypes
  /\ ~ raced => HooksKept(settings) /\ (update.at = "rename" => HooksKept(update.out))
  /\ "project" \notin tampered => LinesKept(text["project"], ownLines["project"])

USE UserFilesAssumption

LEMMA UserFilesStart == UserFilesInit => UserInv
<1> SUFFICES ASSUME UserFilesInit PROVE UserInv
  OBVIOUS
<1>1. UserTypes
  BY DEF UserFilesInit, UserTypes, NoUpdate, NoSettings, Settings
<1>2. HooksKept(settings) /\ update.at # "rename"
  BY DEF UserFilesInit, HooksKept, HooksIn, NoUpdate, NoSettings
<1>3. LinesKept(text["project"], ownLines["project"])
  BY DEF UserFilesInit, LinesKept, Sane, OnlyLines, Holds
<1> QED BY <1>1, <1>2, <1>3 DEF UserInv

\* Our hooks go in and out of settings without touching another.
LEMMA MergeKeepsHooks ==
  ASSUME NEW s \in Settings
  PROVE  mergeHooks(s) \in Settings /\ \A ev \in HookEvent : HooksIn(mergeHooks(s), ev) = HooksIn(s, ev)
<1> DEFINE Ev(ev) == mergeHooks(s)[ev]
<1>1. ASSUME NEW ev \in HookEvent
      PROVE  Ev(ev) \in SUBSET SUBSET SomeHook /\ HooksIn(mergeHooks(s), ev) = HooksIn(s, ev)
  <2>1. Ev(ev) = s[ev] \/ Ev(ev) = s[ev] \cup {{Ours}}
    BY DEF mergeHooks
  <2>2. s[ev] \in SUBSET SUBSET SomeHook
    BY DEF Settings
  <2>3. (UNION (s[ev] \cup {{Ours}})) \ {Ours} = (UNION s[ev]) \ {Ours}
    OBVIOUS
  <2> QED BY <2>1, <2>2, <2>3 DEF HooksIn, SomeHook
<1>2. mergeHooks(s) = [ev \in HookEvent |-> Ev(ev)]
  BY DEF mergeHooks
<1> QED BY <1>1, <1>2 DEF Settings

LEMMA RemoveKeepsHooks ==
  ASSUME NEW s \in Settings
  PROVE  removeHooks(s) \in Settings /\ \A ev \in HookEvent : HooksIn(removeHooks(s), ev) = HooksIn(s, ev)
<1> DEFINE Ev(ev) == removeHooks(s)[ev]
<1>1. ASSUME NEW ev \in HookEvent
      PROVE  Ev(ev) \in SUBSET SUBSET SomeHook /\ HooksIn(removeHooks(s), ev) = HooksIn(s, ev)
  <2>1. Ev(ev) = {entry \ {Ours} : entry \in s[ev] \ {{Ours}}}
    BY DEF removeHooks
  <2>2. s[ev] \in SUBSET SUBSET SomeHook
    BY DEF Settings
  <2>3. ASSUME NEW x \in (UNION s[ev]) \ {Ours} PROVE x \in (UNION Ev(ev)) \ {Ours}
    <3>1. PICK entry \in s[ev] : x \in entry
      OBVIOUS
    <3>2. entry \ {Ours} \in Ev(ev) /\ x \in entry \ {Ours}
      BY <2>1, <3>1
    <3> QED BY <3>2
  <2>4. ASSUME NEW x \in (UNION Ev(ev)) \ {Ours} PROVE x \in (UNION s[ev]) \ {Ours}
    BY <2>1
  <2>5. Ev(ev) \in SUBSET SUBSET SomeHook
    BY <2>1, <2>2
  <2> QED BY <2>3, <2>4, <2>5 DEF HooksIn
<1>2. removeHooks(s) = [ev \in HookEvent |-> Ev(ev)]
  BY DEF removeHooks
<1> QED BY <1>1, <1>2 DEF Settings

\* A line of the user put at place k of a text.
Inserted(t, s, k, u) ==
  /\ Len(t) = Len(s) + 1
  /\ \A j \in 1..(Len(s) + 1) : t[j] = IF j < k THEN s[j] ELSE IF j = k THEN u ELSE s[j - 1]
LEMMA InsertedLine ==
  ASSUME NEW L, NEW s \in Seq(L), NEW k \in 1..(Len(s) + 1), NEW u \in L
  PROVE  Seqs!InsertAt(s, k, u) \in Seq(L) /\ Inserted(Seqs!InsertAt(s, k, u), s, k, u)
<1> DEFINE n == Len(s)
           a == SubSeq(s, 1, k - 1)
           b == SubSeq(s, k, n)
           c == a \o <<u>>
<1>0. n \in Nat /\ k \in Nat /\ 1 <= k /\ k <= n + 1 /\ \A i \in 1..n : s[i] \in L
  OBVIOUS
<1>1. a \in Seq(L) /\ Len(a) = k - 1 /\ \A i \in 1..(k - 1) : a[i] = s[i]
  <2>1. \A i \in 1..(k - 1) : s[i] \in L
    BY <1>0
  <2>2. 1 \in Int /\ k - 1 \in Int
    BY <1>0
  <2> HIDE DEF n
  <2>3. a \in Seq(L) /\ Len(a) = (IF 1 <= k - 1 THEN k - 1 - 1 + 1 ELSE 0)
        /\ \A i \in 1..(k - 1 - 1 + 1) : a[i] = s[1 + i - 1]
    BY <2>1, <2>2, SubSeqProperties
  <2> HIDE DEF a
  <2> QED BY <2>3, <1>0
<1>2. b \in Seq(L) /\ Len(b) = n - k + 1 /\ \A i \in 1..(n - k + 1) : b[i] = s[k + i - 1]
  <2>1. \A i \in k..n : s[i] \in L
    BY <1>0
  <2> HIDE DEF n
  <2>3. b \in Seq(L) /\ Len(b) = (IF k <= n THEN n - k + 1 ELSE 0)
        /\ \A i \in 1..(n - k + 1) : b[i] = s[k + i - 1]
    BY <2>1, <1>0, SubSeqProperties
  <2> HIDE DEF b
  <2> QED BY <2>3, <1>0
<1> HIDE DEF a, b, n
<1>3. c \in Seq(L) /\ Len(c) = k /\ \A i \in 1..k : c[i] = IF i < k THEN s[i] ELSE u
  <2>1. <<u>> \in Seq(L) /\ Len(<<u>>) = 1 /\ <<u>>[1] = u
    OBVIOUS
  <2>2. c \in Seq(L) /\ Len(c) = Len(a) + 1
        /\ \A i \in 1..(Len(a) + 1) : c[i] = IF i <= Len(a) THEN a[i] ELSE <<u>>[i - Len(a)]
    BY <1>1, <2>1, ConcatProperties
  <2> HIDE DEF c
  <2>3. ASSUME NEW i \in 1..k PROVE c[i] = IF i < k THEN s[i] ELSE u
    <3>1. CASE i < k
      BY <3>1, <1>0, <1>1, <2>2
    <3>2. CASE ~ (i < k)
      <4>1. i = k /\ i - Len(a) = 1 /\ ~ (i <= Len(a)) /\ i \in 1..(Len(a) + 1)
        BY <3>2, <1>0, <1>1
      <4> QED BY <4>1, <2>1, <2>2
    <3> QED BY <3>1, <3>2
  <2> QED BY <2>2, <2>3, <1>1, <1>0
<1> HIDE DEF c
<1>4. Seqs!InsertAt(s, k, u) = c \o b
  BY DEF a, b, c, n, Seqs!InsertAt
<1> DEFINE d == c \o b
<1>5. d \in Seq(L) /\ Len(d) = Len(c) + Len(b)
      /\ \A i \in 1..(Len(c) + Len(b)) : d[i] = IF i <= Len(c) THEN c[i] ELSE b[i - Len(c)]
  <2>1. c \in Seq(L) /\ b \in Seq(L)
    BY <1>2, <1>3
  <2> QED BY ONLY <2>1, ConcatProperties
<1> HIDE DEF d
<1>6. Len(d) = n + 1
  BY <1>0, <1>2, <1>3, <1>5
<1>7. ASSUME NEW j \in 1..(n + 1) PROVE d[j] = IF j < k THEN s[j] ELSE IF j = k THEN u ELSE s[j - 1]
  <2>1. CASE j <= k
    BY <2>1, <1>0, <1>2, <1>3, <1>5
  <2>2. CASE ~ (j <= k)
    <3>1. j - k \in 1..(n - k + 1) /\ k + (j - k) - 1 = j - 1
      BY <2>2, <1>0
    <3>2. d[j] = b[j - k] /\ b[j - k] = s[j - 1]
      BY <2>2, <1>0, <1>2, <1>3, <1>5, <3>1
    <3> QED BY <2>2, <3>2, <1>0
  <2> QED BY <2>1, <2>2, <1>0
<1> QED BY <1>4, <1>5, <1>6, <1>7 DEF n, d, Inserted

\* A line written into a text that stays whole stands outside of its block.
LEMMA WritingKeepsLines ==
  ASSUME NEW s, NEW own, LinesKept(s, own), NEW u \in UserLine, NEW k \in 1..(Len(s) + 1),
         Whole(Seqs!InsertAt(s, k, u))
  PROVE  LinesKept(Seqs!InsertAt(s, k, u), own \cup {u})
<1> DEFINE t == Seqs!InsertAt(s, k, u)
           n == Len(s)
           L == UserLine \cup Marker
<1>1. s \in Seq(L) /\ n \in Nat /\ k \in 1..(n + 1)
  BY DEF LinesKept, Sane
<1>2. /\ t \in Seq(L) /\ Len(t) = n + 1
      /\ \A j \in 1..(n + 1) : t[j] = IF j < k THEN s[j] ELSE IF j = k THEN u ELSE s[j - 1]
  <2>2. u \in L
    OBVIOUS
  <2>3. s \in Seq(L) /\ k \in 1..(Len(s) + 1)
    BY <1>1
  <2> HIDE DEF L
  <2>4. t \in Seq(L) /\ Inserted(t, s, k, u)
    BY <2>2, <2>3, InsertedLine
  <2> HIDE DEF t
  <2> QED BY <2>4 DEF Inserted
<1>3. DOMAIN s = 1..n /\ DOMAIN t = 1..(n + 1)
  BY <1>1, <1>2
<1>4. Whole(t) /\ "begin" \notin UserLine /\ "body" \notin UserLine /\ "end" \notin UserLine
  OBVIOUS
<1> HIDE DEF t, n
<1>5. ASSUME OnlyLines(s) PROVE OnlyLines(t)
  <2>1. \A j \in 1..n : s[j] \in UserLine
    BY <1>3, <1>5 DEF OnlyLines
  <2>2. ASSUME NEW j \in 1..(n + 1) PROVE t[j] \in UserLine
    <3>1. CASE j < k
      BY <3>1, <2>1, <1>1, <1>2
    <3>2. CASE j = k
      BY <3>2, <1>1, <1>2
    <3>3. CASE k < j
      <4>1. j - 1 \in 1..n /\ ~ (j < k) /\ j # k
        BY <3>3, <1>1
      <4> QED BY <4>1, <2>1, <1>2
    <3> QED BY <3>1, <3>2, <3>3, <1>1
  <2> QED BY <2>2, <1>3 DEF OnlyLines
<1>6. ASSUME NEW i \in Nat, BlockAt(s, i) PROVE \E h \in Nat : BlockAt(t, h)
  <2>1. /\ i \in 1..(n - 2) /\ s[i] = "begin" /\ s[i + 1] = "body" /\ s[i + 2] = "end"
        /\ \A j \in 1..n : j \notin {i, i + 1, i + 2} => s[j] \in UserLine
    BY <1>3, <1>6 DEF BlockAt, n
  <2>2. ~ OnlyLines(t)
    <3>1. CASE k <= i
      <4>1. i + 1 \in 1..(n + 1) /\ ~ (i + 1 < k) /\ i + 1 # k /\ (i + 1) - 1 = i
        BY <3>1, <2>1, <1>1
      <4>2. t[i + 1] = "begin"
        BY <4>1, <2>1, <1>2
      <4> QED BY <4>1, <4>2, <1>3, <1>4 DEF OnlyLines
    <3>2. CASE ~ (k <= i)
      <4>1. i \in 1..(n + 1) /\ i < k
        BY <3>2, <2>1, <1>1
      <4>2. t[i] = "begin"
        BY <4>1, <2>1, <1>2
      <4> QED BY <4>1, <4>2, <1>3, <1>4 DEF OnlyLines
    <3> QED BY <3>1, <3>2
  <2>3. PICK h \in 1..(Len(t) - 2) : SubSeq(t, h, h + 2) = ManagedBlock
    BY <1>4, <2>2 DEF Whole, OnlyLines
  <2>4. h \in 1..(n - 1) /\ h + 1 \in 1..(n + 1) /\ h + 2 \in 1..(n + 1)
    BY <2>3, <1>1, <1>2
  <2>5. t[h] = "begin" /\ t[h + 1] = "body" /\ t[h + 2] = "end"
    <3>1. \A j \in h..(h + 2) : t[j] \in L
      BY <2>4, <1>2, <1>3
    <3>2. h \in Int /\ h + 2 \in Int /\ (h + 2) - h + 1 = 3 /\ h <= h + 2
      BY <2>4
    <3>3. SubSeq(t, h, h + 2) \in Seq(L) /\ Len(SubSeq(t, h, h + 2)) = 3
          /\ \A j \in 1..3 : SubSeq(t, h, h + 2)[j] = t[h + j - 1]
      BY <3>1, <3>2, SubSeqProperties
    <3>4. t[h + 1 - 1] = ManagedBlock[1] /\ t[h + 2 - 1] = ManagedBlock[2] /\ t[h + 3 - 1] = ManagedBlock[3]
      <4>1. SubSeq(t, h, h + 2)[1] = t[h + 1 - 1] /\ SubSeq(t, h, h + 2)[2] = t[h + 2 - 1]
            /\ SubSeq(t, h, h + 2)[3] = t[h + 3 - 1]
        BY <3>3
      <4> QED BY <2>3, <4>1
    <3>5. h + 1 - 1 = h /\ h + 2 - 1 = h + 1 /\ h + 3 - 1 = h + 2
      BY <2>4
    <3> QED BY <3>4, <3>5 DEF ManagedBlock
  <2> DEFINE At(j) == IF j < k THEN j ELSE j - 1
  <2>6. \A j \in 1..(n + 1) : j # k => At(j) \in 1..n /\ t[j] = s[At(j)]
    <3>1. ASSUME NEW j \in 1..(n + 1), j # k PROVE At(j) \in 1..n /\ t[j] = s[At(j)]
      <4>1. CASE j < k
        BY <4>1, <1>1, <1>2
      <4>2. CASE ~ (j < k)
        BY <3>1, <4>2, <1>1, <1>2
      <4> QED BY <4>1, <4>2
    <3> QED BY <3>1
  <2>7. t[k] = u
    BY <1>1, <1>2
  <2>8. k \notin {h, h + 1, h + 2}
    BY <2>5, <2>7, <1>4
  <2>9. \A j \in 1..n : (s[j] = "begin" => j = i) /\ (s[j] = "body" => j = i + 1) /\ (s[j] = "end" => j = i + 2)
    BY <2>1, <1>4
  <2>10. At(h) = i /\ At(h + 1) = i + 1 /\ At(h + 2) = i + 2
    <3>1. h \in 1..(n + 1)
      BY <2>4, <1>1
    <3> HIDE DEF At
    <3>2. At(h) \in 1..n /\ s[At(h)] = "begin" /\ At(h + 1) \in 1..n /\ s[At(h + 1)] = "body"
          /\ At(h + 2) \in 1..n /\ s[At(h + 2)] = "end"
      BY <3>1, <2>4, <2>5, <2>6, <2>8
    <3> QED BY <3>2, <2>9
  <2>11. ASSUME NEW j \in 1..(n + 1), j \notin {h, h + 1, h + 2} PROVE t[j] \in UserLine
    <3>1. CASE j = k
      BY <3>1, <2>7
    <3>2. CASE j # k
      <4>1. At(j) \notin {i, i + 1, i + 2}
        BY <2>10, <2>11, <3>2, <2>4, <2>8, <1>1
      <4>2. At(j) \in 1..n /\ t[j] = s[At(j)]
        BY <2>6, <3>2
      <4> HIDE DEF At
      <4> QED BY <4>1, <4>2, <2>1
    <3> QED BY <3>1, <3>2
  <2>12. BlockAt(t, h)
    BY <2>3, <2>5, <2>11, <1>3 DEF BlockAt
  <2> QED BY <2>4, <2>12
<1>7. ASSUME NEW v \in own \cup {u} PROVE \E j \in DOMAIN t : t[j] = v
  <2>1. CASE v = u
    BY <2>1, <1>1, <1>2, <1>3
  <2>2. CASE v \in own
    <3>0. \A w \in own : \E i \in DOMAIN s : s[i] = w
      BY DEF LinesKept, Holds
    <3>1. PICK i \in 1..n : s[i] = v
      BY <2>2, <3>0, <1>3
    <3>2. CASE i < k
      <4>1. i \in 1..(n + 1) /\ t[i] = s[i]
        BY <3>1, <3>2, <1>1, <1>2
      <4> QED BY <4>1, <3>1, <1>3
    <3>3. CASE ~ (i < k)
      <4>1. i + 1 \in 1..(n + 1) /\ ~ (i + 1 < k) /\ i + 1 # k /\ (i + 1) - 1 = i
        BY <3>1, <3>3, <1>1
      <4>2. t[i + 1] = s[(i + 1) - 1]
        BY <4>1, <1>2
      <4> QED BY <4>1, <4>2, <3>1, <1>3
    <3> QED BY <3>2, <3>3
  <2> QED BY <2>1, <2>2
<1>8. Sane(t)
  BY <1>2, <1>5, <1>6 DEF Sane, LinesKept
<1>9. Holds(t, own \cup {u}) /\ own \cup {u} \in SUBSET UserLine
  BY <1>7 DEF Holds, LinesKept
<1> QED BY <1>8, <1>9 DEF LinesKept, t

\* inject finds the one block there is, and replaces it by the same block; or it appends one.
LEMMA BlockIsFound ==
  ASSUME NEW s \in Seq(UserLine \cup Marker), NEW i \in Nat, BlockAt(s, i)
  PROVE  BeginAt(s) = i /\ EndAt(s) = i + 2
<1> DEFINE n == Len(s)
           b == SubSeq(s, i, n)
           L == UserLine \cup Marker
           Begins == {j \in 1..n : s[j] = "begin"}
           Ends == {j \in 1..Len(b) : b[j] = "end"}
<1>1. /\ n \in Nat /\ i \in 1..(n - 2) /\ s[i] = "begin" /\ s[i + 1] = "body" /\ s[i + 2] = "end"
      /\ \A j \in 1..n : j \notin {i, i + 1, i + 2} => s[j] \in UserLine
      /\ \A j \in 1..n : s[j] \in L
      /\ "begin" \notin UserLine
  BY DEF BlockAt
<1>2. Begins = {i}
  <2> HIDE DEF n
  <2> QED BY <1>1
<1>3. BeginAt(s) = i
  <2>1. BeginAt(s) = IF Begins # {} THEN Seqs!Min(Begins) ELSE 0
    BY DEF BeginAt, Seqs!SelectInSeq
  <2> HIDE DEF Begins
  <2>2. Seqs!Min({i}) = i
    BY DEF Seqs!Min
  <2> QED BY <2>1, <2>2, <1>2
<1>4. Len(b) = n - i + 1 /\ \A j \in 1..(n - i + 1) : b[j] = s[i + j - 1]
  <2> HIDE DEF n
  <2>1. i \in Int /\ n \in Int /\ i <= n /\ \A j \in i..n : s[j] \in L
    BY <1>1
  <2> HIDE DEF L
  <2> QED BY <2>1, SubSeqProperties
<1> HIDE DEF b
<1>5. 3 \in Ends /\ \A j \in Ends : j \in Nat /\ 3 <= j
  <2> HIDE DEF n
  <2>1. Len(b) \in Nat /\ 1 \in 1..Len(b) /\ 2 \in 1..Len(b) /\ 3 \in 1..Len(b)
    BY <1>1, <1>4
  <2>2. i + 1 - 1 = i /\ i + 2 - 1 = i + 1 /\ i + 3 - 1 = i + 2
    BY <1>1
  <2>3. b[1] = "begin" /\ b[2] = "body" /\ b[3] = "end"
    BY <1>1, <1>4, <2>1, <2>2
  <2>4. ASSUME NEW j \in Ends PROVE j \in Nat /\ 3 <= j
    BY <2>1, <2>3
  <2> QED BY <2>1, <2>3, <2>4
<1>6. EndAt(s) = i + 2
  <2> DEFINE first == IF Ends # {} THEN Seqs!Min(Ends) ELSE 0
  <2>1. EndAt(s) = IF first = 0 THEN 0 ELSE i + first - 1
    BY <1>3 DEF EndAt, Seqs!SelectInSeq, b
  <2> HIDE DEF Ends
  <2>2. Seqs!Min(Ends) = 3
    BY <1>5 DEF Seqs!Min
  <2>3. first = 3
    BY <1>5, <2>2
  <2> HIDE DEF first
  <2> QED BY <2>1, <2>3
<1> QED BY <1>3, <1>6

LEMMA InjectKeepsLines ==
  ASSUME NEW s, NEW own, LinesKept(s, own)
  PROVE  LinesKept(IF HasBlock(s) THEN WithBlock(s, ManagedBlock) ELSE s \o ManagedBlock, own)
<1> DEFINE t == s \o ManagedBlock
           n == Len(s)
           L == UserLine \cup Marker
<1>1. s \in Seq(L) /\ n \in Nat /\ ManagedBlock \in Seq(L) /\ DOMAIN s = 1..n
  BY DEF LinesKept, Sane, ManagedBlock, Marker
<1>2. ASSUME NEW i \in Nat, BlockAt(s, i) PROVE HasBlock(s) /\ WithBlock(s, ManagedBlock) = s
  <2>1. BeginAt(s) = i /\ EndAt(s) = i + 2
    BY <1>1, <1>2, BlockIsFound
  <2>2. /\ i \in 1..(n - 2) /\ s[i] = "begin" /\ s[i + 1] = "body" /\ s[i + 2] = "end"
    BY <1>2 DEF BlockAt
  <2> HIDE DEF n
  <2>3. SubSeq(s, i, i + 2) = ManagedBlock
    <3>1. \A j \in i..(i + 2) : s[j] \in L
      BY <1>1, <2>2
    <3>2. i \in Int /\ i + 2 \in Int /\ (i + 2) - i + 1 = 3 /\ i <= i + 2
      BY <2>2
    <3>3. SubSeq(s, i, i + 2) \in Seq(L) /\ Len(SubSeq(s, i, i + 2)) = 3
          /\ \A j \in 1..3 : SubSeq(s, i, i + 2)[j] = s[i + j - 1]
      BY <3>1, <3>2, SubSeqProperties
    <3>4. i + 1 - 1 = i /\ i + 2 - 1 = i + 1 /\ i + 3 - 1 = i + 2
      BY <2>2
    <3>5. \A j \in 1..3 : s[i + j - 1] = ManagedBlock[j]
      <4>1. ManagedBlock[1] = "begin" /\ ManagedBlock[2] = "body" /\ ManagedBlock[3] = "end"
        BY DEF ManagedBlock
      <4>2. ASSUME NEW j \in 1..3 PROVE j = 1 \/ j = 2 \/ j = 3
        OBVIOUS
      <4> QED BY <4>1, <4>2, <3>4, <2>2
    <3>6. Len(ManagedBlock) = 3
      BY DEF ManagedBlock
    <3> HIDE DEF L
    <3> DEFINE c == SubSeq(s, i, i + 2)
    <3>7. c \in Seq(L) /\ Len(c) = 3 /\ \A j \in 1..3 : c[j] = ManagedBlock[j]
      BY <3>3, <3>5
    <3> HIDE DEF c
    <3>8. c = ManagedBlock
      BY <3>6, <3>7, <1>1, SeqEqual
    <3> QED BY <3>8 DEF c
  <2>4. SubSeq(s, 1, i - 1) \o SubSeq(s, i, i + 2) = SubSeq(s, 1, i + 2)
    <3>1. 1 \in 1..(Len(s) + 1) /\ i - 1 \in (1 - 1)..Len(s) /\ i + 2 \in (i - 1)..Len(s) /\ (i - 1) + 1 = i
      BY <1>1, <2>2 DEF n
    <3>2. SubSeq(s, 1, i - 1) \o SubSeq(s, (i - 1) + 1, i + 2) = SubSeq(s, 1, i + 2)
      BY <1>1, <3>1, ConcatAdjacentSubSeq
    <3> QED BY <3>1, <3>2
  <2>5. SubSeq(s, 1, i + 2) \o SubSeq(s, (i + 2) + 1, Len(s)) = SubSeq(s, 1, Len(s))
    <3>1. 1 \in 1..(Len(s) + 1) /\ i + 2 \in (1 - 1)..Len(s) /\ Len(s) \in (i + 2)..Len(s)
      BY <1>1, <2>2 DEF n
    <3> QED BY <1>1, <3>1, ConcatAdjacentSubSeq
  <2>6. SubSeq(s, 1, Len(s)) = s
    BY <1>1, SubSeqFull
  <2>7. WithBlock(s, ManagedBlock) = SubSeq(s, 1, i - 1) \o ManagedBlock \o SubSeq(s, (i + 2) + 1, Len(s))
    BY <2>1 DEF WithBlock
  <2>8. WithBlock(s, ManagedBlock) = s
    BY <2>3, <2>4, <2>5, <2>6, <2>7
  <2>9. HasBlock(s)
    BY <2>1, <2>2, <1>1 DEF HasBlock
  <2> QED BY <2>8, <2>9
<1>3. ASSUME OnlyLines(s) PROVE ~ HasBlock(s)
  <2>1. {j \in 1..n : s[j] = "begin"} = {}
    BY <1>1, <1>3 DEF OnlyLines
  <2>2. BeginAt(s) = 0
    BY <2>1 DEF BeginAt, Seqs!SelectInSeq
  <2> QED BY <2>2 DEF HasBlock
<1>4. ASSUME OnlyLines(s) PROVE LinesKept(t, own)
  <2>0. Len(ManagedBlock) = 3 /\ ManagedBlock[1] = "begin" /\ ManagedBlock[2] = "body" /\ ManagedBlock[3] = "end"
    BY DEF ManagedBlock
  <2>1. t \in Seq(L) /\ Len(t) = n + 3
        /\ \A j \in 1..(n + 3) : t[j] = IF j <= n THEN s[j] ELSE ManagedBlock[j - n]
    <3>1. s \in Seq(L) /\ ManagedBlock \in Seq(L)
      BY <1>1
    <3>2. t \in Seq(L) /\ Len(t) = Len(s) + Len(ManagedBlock)
          /\ \A j \in 1..(Len(s) + Len(ManagedBlock)) :
                t[j] = IF j <= Len(s) THEN s[j] ELSE ManagedBlock[j - Len(s)]
      BY ONLY <3>1, ConcatProperties
    <3> HIDE DEF t
    <3> QED BY <3>2, <2>0
  <2> HIDE DEF n, t
  <2>2. \A j \in 1..n : t[j] = s[j] /\ j \in DOMAIN t
    BY <1>1, <2>1
  <2>3. t[n + 1] = "begin" /\ t[n + 2] = "body" /\ t[n + 3] = "end"
    <3>1. ASSUME NEW j \in 1..3 PROVE t[n + j] = ManagedBlock[j]
      <4>1. n + j \in 1..(n + 3) /\ ~ (n + j <= n) /\ (n + j) - n = j
        BY <1>1
      <4> QED BY <4>1, <2>1
    <3> QED BY <3>1, <2>0
  <2>4. BlockAt(t, n + 1)
    <3>1. DOMAIN t = 1..(n + 3) /\ n + 1 \in 1..(Len(t) - 2) /\ (n + 1) + 1 = n + 2 /\ (n + 1) + 2 = n + 3
      BY <1>1, <2>1
    <3>2. ASSUME NEW j \in DOMAIN t, j \notin {n + 1, n + 2, n + 3} PROVE t[j] \in UserLine
      <4>1. j \in 1..n
        BY <3>1, <3>2, <1>1
      <4> QED BY <4>1, <2>2, <1>1, <1>4 DEF OnlyLines
    <3> QED BY <3>1, <3>2, <2>3 DEF BlockAt
  <2>5. Sane(t)
    BY <1>1, <2>1, <2>4 DEF Sane
  <2>6. Holds(t, own)
    BY <1>1, <2>2 DEF LinesKept, Holds
  <2> QED BY <2>5, <2>6 DEF LinesKept
<1>5. CASE OnlyLines(s)
  BY <1>3, <1>4, <1>5
<1>6. CASE ~ OnlyLines(s)
  <2>1. PICK i \in Nat : BlockAt(s, i)
    BY <1>6 DEF LinesKept, Sane
  <2> QED BY <1>2, <2>1
<1> QED BY <1>5, <1>6

LEMMA UserFilesStep == UserInv /\ [UserFilesNext]_userVars => UserInv'
<1> SUFFICES ASSUME UserInv, [UserFilesNext]_userVars PROVE UserInv'
  OBVIOUS
<1>0. UserTypes
  BY DEF UserInv
<1>1. ASSUME UNCHANGED <<settings, update, ownHooks, raced>>
      PROVE  ~ raced' => HooksKept(settings)' /\ (update'.at = "rename" => HooksKept(update.out)')
  BY <1>1 DEF UserInv, HooksKept, HooksIn
<1>2. ASSUME UNCHANGED <<text, ownLines, tampered>>
      PROVE  "project" \notin tampered' => LinesKept(text'["project"], ownLines'["project"])
  BY <1>2 DEF UserInv
<1>3. CASE UNCHANGED userVars
  <2>1. UserTypes'
    BY <1>0, <1>3 DEF UserTypes, userVars
  <2> QED BY <2>1, <1>1, <1>2, <1>3 DEF UserInv, userVars
<1>4. ASSUME NEW ev \in HookEvent, NEW h \in UserHook, UserAddsHook(ev, h) PROVE UserInv'
  <2>1. UNCHANGED <<update, text, ownLines, tampered>> /\ raced' = (raced \/ update.at = "rename")
        /\ ownHooks' = [ownHooks EXCEPT ![ev] = @ \cup {h}]
    BY <1>4 DEF UserAddsHook, EditSettings
  <2>2. PICK entries \in SUBSET SUBSET SomeHook :
          /\ settings' = [settings EXCEPT ![ev] = entries]
          /\ (UNION entries) = (UNION settings[ev]) \cup {h}
    <3>1. settings[ev] \in SUBSET SUBSET SomeHook /\ h \in SomeHook
      BY <1>0 DEF UserTypes, Settings, SomeHook
    <3>2. CASE settings' = [settings EXCEPT ![ev] = @ \cup {{h}}]
      <4> DEFINE new == settings[ev] \cup {{h}}
      <4>1. new \in SUBSET SUBSET SomeHook /\ (UNION new) = (UNION settings[ev]) \cup {h}
        BY <3>1
      <4> QED BY <3>2, <4>1
    <3>3. CASE \E entry \in settings[ev] : settings' = [settings EXCEPT ![ev] = (@ \ {entry}) \cup {entry \cup {h}}]
      <4>1. PICK entry \in settings[ev] : settings' = [settings EXCEPT ![ev] = (@ \ {entry}) \cup {entry \cup {h}}]
        BY <3>3
      <4> DEFINE new == (settings[ev] \ {entry}) \cup {entry \cup {h}}
      <4>2. new \in SUBSET SUBSET SomeHook
        BY <3>1
      <4>3. ASSUME NEW x \in (UNION settings[ev]) \cup {h} PROVE x \in (UNION new)
        <5>1. entry \cup {h} \in new
          OBVIOUS
        <5>2. CASE x \in entry \cup {h}
          BY <5>1, <5>2
        <5>3. CASE x \notin entry \cup {h}
          <6>1. PICK other \in settings[ev] : x \in other
            BY <5>3
          <6>2. other \in new
            BY <6>1, <5>3
          <6> QED BY <6>1, <6>2
        <5> QED BY <5>2, <5>3
      <4>4. ASSUME NEW x \in (UNION new) PROVE x \in (UNION settings[ev]) \cup {h}
        <5>1. PICK other \in new : x \in other
          OBVIOUS
        <5> QED BY <5>1
      <4>5. (UNION new) = (UNION settings[ev]) \cup {h}
        BY <4>3, <4>4
      <4> QED BY <4>1, <4>2, <4>5
    <3> QED BY <1>4, <3>2, <3>3 DEF UserAddsHook
  <2>3. UserTypes'
    BY <1>0, <2>1, <2>2 DEF UserTypes, Settings
  <2>4. ASSUME ~ raced' PROVE HooksKept(settings)' /\ update'.at # "rename"
    <3>1. ~ raced /\ update.at # "rename" /\ HooksKept(settings)
      BY <2>1, <2>4 DEF UserInv
    <3>2. ASSUME NEW e \in HookEvent PROVE HooksIn(settings', e) = ownHooks'[e]
      <4>1. HooksIn(settings, e) = ownHooks[e]
        BY <3>1 DEF HooksKept
      <4>2. CASE e = ev
        <5>1. settings'[e] = entries /\ ownHooks'[e] = ownHooks[e] \cup {h} /\ h # Ours
          BY <2>1, <2>2, <4>2, <1>0 DEF UserTypes, Settings
        <5> QED BY <5>1, <2>2, <4>1, <4>2 DEF HooksIn
      <4>3. CASE e # ev
        <5>1. settings'[e] = settings[e] /\ ownHooks'[e] = ownHooks[e]
          BY <2>1, <2>2, <4>3, <1>0 DEF UserTypes, Settings
        <5> QED BY <5>1, <4>1 DEF HooksIn
      <4> QED BY <4>2, <4>3
    <3> QED BY <3>1, <3>2, <2>1 DEF HooksKept
  <2> QED BY <2>1, <2>3, <2>4, <1>2 DEF UserInv
<1>5. CASE UserBreaksSettings
  <2>1. UNCHANGED <<settings, update, text, ownHooks, ownLines, tampered>> /\ raced' = (raced \/ update.at = "rename")
    BY <1>5 DEF UserBreaksSettings, EditSettings
  <2>2. UserTypes'
    BY <1>0, <2>1 DEF UserTypes
  <2>3. ~ raced' => HooksKept(settings)' /\ (update'.at = "rename" => HooksKept(update.out)')
    BY <2>1 DEF UserInv, HooksKept, HooksIn
  <2> QED BY <2>1, <2>2, <2>3, <1>2 DEF UserInv
<1>6. ASSUME NEW m \in {"global", "project"}, NEW u \in UserLine, UserWritesLine(m, u) PROVE UserInv'
  <2>1. PICK k \in 1..(Len(text[m]) + 1) : text' = [text EXCEPT ![m] = Seqs!InsertAt(@, k, u)]
    BY <1>6 DEF UserWritesLine
  <2>2. /\ UNCHANGED <<settings, update, ownHooks, raced>>
        /\ ownLines' = [ownLines EXCEPT ![m] = @ \cup {u}]
        /\ tampered' = IF Whole(text'[m]) THEN tampered ELSE tampered \cup {m}
    BY <1>6 DEF UserWritesLine
  <2>3. UserTypes'
    BY <1>0, <2>1, <2>2 DEF UserTypes
  <2>4. ASSUME "project" \notin tampered' PROVE LinesKept(text'["project"], ownLines'["project"])
    <3>1. "project" \notin tampered /\ LinesKept(text["project"], ownLines["project"])
      BY <2>2, <2>4 DEF UserInv
    <3>2. CASE m = "project"
      <4>1. text'[m] = Seqs!InsertAt(text[m], k, u) /\ ownLines'[m] = ownLines[m] \cup {u} /\ Whole(text'[m])
        BY <2>1, <2>2, <2>4, <3>2, <1>0 DEF UserTypes
      <4> QED BY <3>1, <3>2, <4>1, WritingKeepsLines
    <3>3. CASE m # "project"
      BY <3>1, <3>3, <2>1, <2>2, <1>0 DEF UserTypes
    <3> QED BY <3>2, <3>3
  <2> QED BY <2>2, <2>3, <2>4, <1>1 DEF UserInv
<1>7. ASSUME NEW m \in {"global", "project"}, UserDeletesMarker(m) PROVE UserInv'
  <2>1. /\ UNCHANGED <<settings, update, ownHooks, ownLines, raced>> /\ tampered' = tampered \cup {m}
        /\ \E t : text' = [text EXCEPT ![m] = t]
    BY <1>7 DEF UserDeletesMarker
  <2>2. UserTypes'
    BY <1>0, <2>1 DEF UserTypes
  <2>3. "project" \notin tampered' => LinesKept(text'["project"], ownLines'["project"])
    BY <1>0, <2>1 DEF UserInv, UserTypes
  <2> QED BY <2>1, <2>2, <2>3, <1>1 DEF UserInv
<1>8. ASSUME NEW out, out \in Settings, \A ev \in HookEvent : HooksIn(out, ev) = HooksIn(settings, ev),
             ReadSettings(out), UNCHANGED <<settings, ownHooks, raced>>
      PROVE  /\ settings' \in Settings /\ update' \in [at : {"idle", "rename"}, out : Settings]
             /\ ownHooks' \in [HookEvent -> SUBSET UserHook]
             /\ ~ raced' => HooksKept(settings)' /\ (update'.at = "rename" => HooksKept(update.out)')
  <2>1. update' = update \/ update' = [at |-> "rename", out |-> out]
    BY <1>8 DEF ReadSettings
  <2>2. update' \in [at : {"idle", "rename"}, out : Settings]
    BY <1>0, <1>8, <2>1 DEF UserTypes
  <2>3. ASSUME ~ raced' PROVE HooksKept(settings)' /\ (update'.at = "rename" => HooksKept(update.out)')
    <3>1. HooksKept(settings) /\ (update.at = "rename" => HooksKept(update.out))
      BY <1>8, <2>3 DEF UserInv
    <3>2. HooksKept(out)
      BY <1>8, <3>1 DEF HooksKept
    <3>3. CASE update' = update
      BY <1>8, <3>1, <3>3 DEF HooksKept, HooksIn
    <3>4. CASE update' = [at |-> "rename", out |-> out]
      <4>1. update'.out = out
        BY <3>4
      <4> QED BY <1>8, <3>1, <3>2, <4>1 DEF HooksKept, HooksIn
    <3> QED BY <2>1, <3>3, <3>4
  <2> QED BY <1>0, <1>8, <2>2, <2>3 DEF UserTypes
<1>9. CASE runSetup
  <2>1. UNCHANGED <<settings, text, ownHooks, ownLines, raced, tampered>> /\ ReadSettings(mergeHooks(settings))
    BY <1>9 DEF runSetup
  <2>2. settings \in Settings
    BY <1>0 DEF UserTypes
  <2>3. /\ settings' \in Settings /\ update' \in [at : {"idle", "rename"}, out : Settings]
        /\ ownHooks' \in [HookEvent -> SUBSET UserHook]
        /\ ~ raced' => HooksKept(settings)' /\ (update'.at = "rename" => HooksKept(update.out)')
    BY <2>1, <2>2, <1>8, MergeKeepsHooks
  <2>4. UserTypes'
    BY <1>0, <2>1, <2>3 DEF UserTypes
  <2> QED BY <2>1, <2>3, <2>4, <1>2 DEF UserInv
<1>10. CASE runUninstall
  <2>1. /\ UNCHANGED <<settings, ownHooks, ownLines, raced, tampered>> /\ ReadSettings(removeHooks(settings))
        /\ \E t : text' = [text EXCEPT !["global"] = t]
    BY <1>10 DEF runUninstall
  <2>2. settings \in Settings
    BY <1>0 DEF UserTypes
  <2>3. /\ settings' \in Settings /\ update' \in [at : {"idle", "rename"}, out : Settings]
        /\ ownHooks' \in [HookEvent -> SUBSET UserHook]
        /\ ~ raced' => HooksKept(settings)' /\ (update'.at = "rename" => HooksKept(update.out)')
    BY <2>1, <2>2, <1>8, RemoveKeepsHooks
  <2>4. UserTypes'
    BY <1>0, <2>1, <2>3 DEF UserTypes
  <2>5. text'["project"] = text["project"]
    BY <1>0, <2>1 DEF UserTypes
  <2> QED BY <2>1, <2>3, <2>4, <2>5 DEF UserInv
<1>11. CASE RenameSettings
  <2>1. /\ update.at = "rename" /\ settings' = update.out /\ update' = NoUpdate
        /\ UNCHANGED <<text, ownHooks, ownLines, raced, tampered>>
    BY <1>11 DEF RenameSettings
  <2>2. NoSettings \in Settings
    BY DEF NoSettings, Settings
  <2>3. UserTypes'
    BY <1>0, <2>1, <2>2 DEF UserTypes, NoUpdate
  <2>4. ~ raced' => HooksKept(settings)'
    BY <2>1 DEF UserInv, HooksKept, HooksIn
  <2>5. update'.at # "rename"
    BY <2>1 DEF NoUpdate
  <2> QED BY <2>1, <2>3, <2>4, <2>5, <1>2 DEF UserInv
<1>12. CASE runInject
  <2>1. UNCHANGED <<settings, update, ownHooks, ownLines, raced, tampered>>
    BY <1>12 DEF runInject
  <2>2. text' = [text EXCEPT !["project"] = IF HasBlock(@) THEN WithBlock(@, ManagedBlock) ELSE @ \o ManagedBlock]
    BY <1>12 DEF runInject
  <2>3. UserTypes'
    BY <1>0, <2>1, <2>2 DEF UserTypes
  <2>4. text'["project"] = IF HasBlock(text["project"]) THEN WithBlock(text["project"], ManagedBlock)
                           ELSE text["project"] \o ManagedBlock
    BY <1>0, <2>2 DEF UserTypes
  <2>5. "project" \notin tampered' => LinesKept(text'["project"], ownLines'["project"])
    BY <2>1, <2>4, InjectKeepsLines DEF UserInv
  <2> QED BY <2>1, <2>3, <2>5, <1>1 DEF UserInv
<1>13. CASE runRegisterInstructions
  <2>1. UNCHANGED <<settings, update, ownHooks, ownLines, raced, tampered>>
        /\ \E t : text' = [text EXCEPT !["global"] = t]
    BY <1>13 DEF runRegisterInstructions
  <2>2. UserTypes'
    BY <1>0, <2>1 DEF UserTypes
  <2>3. text'["project"] = text["project"]
    BY <1>0, <2>1 DEF UserTypes
  <2> QED BY <2>1, <2>2, <2>3, <1>1 DEF UserInv
<1> QED
  BY <1>3, <1>4, <1>5, <1>6, <1>7, <1>9, <1>10, <1>11, <1>12, <1>13 DEF UserFilesNext

\* The files are as UserInv says at every moment.
THEOREM UserFilesInvariance == UserFilesSpec => []UserInv
<1> QED BY UserFilesStart, UserFilesStep, PTL DEF UserFilesSpec

\* UserContentKept: setup, inject and uninstall, in any order and with the user's edits
\* between them, keep the user's hooks and the user's lines around the project's block.
THEOREM UserContentIsKept == UserFilesSpec => []UserContentKept
<1>1. UserInv => UserContentKept
  <2>1. ASSUME LinesKept(text["project"], ownLines["project"])
        PROVE  ownLines["project"] \subseteq Lines(text["project"])
    <3>1. \A u \in ownLines["project"] : \E i \in DOMAIN text["project"] : text["project"][i] = u
      BY <2>1 DEF LinesKept, Holds
    <3> QED BY <3>1 DEF Lines
  <2>2. ASSUME UserInv, ~ raced PROVE \A ev \in HookEvent : HooksIn(settings, ev) = ownHooks[ev]
    BY <2>2 DEF UserInv, HooksKept
  <2>3. ASSUME UserInv, "project" \notin tampered
        PROVE  ownLines["project"] \subseteq Lines(text["project"])
    BY <2>1, <2>3 DEF UserInv
  <2> QED BY <2>2, <2>3 DEF UserContentKept
<1> QED BY <1>1, UserFilesInvariance, PTL
=============================================================================
