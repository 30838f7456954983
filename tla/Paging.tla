------------------------------- MODULE Paging -------------------------------
(***************************************************************************)
(* Paged tool results (internal/mcp/tools.go callPaginated, shape.go       *)
(* applyBudget): a client walks a ranked list page by page, following      *)
(* next_offset, with a limit and a token budget that may differ from call  *)
(* to call.  The list does not change between the calls; a row is its cost *)
(* in tokens after shaping.                                                *)
(***************************************************************************)
EXTENDS Integers, Sequences, FiniteSets

CONSTANTS
  maxFetch,      \* the most rows a handler is asked for
  MaxLimit,      \* limitOf: the most rows a client may ask for
  defaultLimit,
  MaxRows, MaxCost, MaxBudget   \* bounds

ASSUME PagingAssumption ==
  /\ {maxFetch, MaxLimit, defaultLimit} \subseteq Nat \ {0}
  /\ defaultLimit <= MaxLimit /\ MaxLimit <= maxFetch
  /\ {MaxRows, MaxCost, MaxBudget} \subseteq Nat

VARIABLES
  ranked,    \* what the service ranks for the query
  offset,    \* the offset of the client's next call
  pages,     \* the positions of the rows the client has got
  hasMore    \* what the last page said

pagingVars == <<ranked, offset, pages, hasMore>>

PagingInit ==
  /\ ranked \in UNION {[1..n -> 1..MaxCost] : n \in 0..MaxRows}
  /\ offset = 0 /\ pages = <<>> /\ hasMore = TRUE

Lesser(a, b) == IF a <= b THEN a ELSE b

\* Mutant: the cap of a client holds for callPaginated too.
limitOfClient(limit, internal) ==
  IF limit <= 0 THEN defaultLimit ELSE Lesser(limit, MaxLimit)

\* limitOf: a client's limit is capped at MaxLimit, callPaginated's at maxFetch.
limitOf(limit, internal) ==
  IF limit <= 0 THEN defaultLimit
  ELSE IF internal THEN Lesser(limit, maxFetch) ELSE Lesser(limit, MaxLimit)

\* The rows a handler returns that is asked for n.
Fetched(n) == SubSeq(ranked, 1, Lesser(limitOf(n, TRUE), Len(ranked)))

\* applyBudget: how many rows of the page fit, at least one; 0 is no budget.
Fits(page, budget) ==
  IF budget <= 0 \/ page = <<>> THEN Len(page)
  ELSE LET spent[i \in 0..Len(page)] == IF i = 0 THEN 0 ELSE spent[i - 1] + page[i]
           enough == {1} \cup {i \in 1..Len(page) : spent[i] <= budget}
       IN CHOOSE k \in enough : \A i \in enough : i <= k

callPaginated(limit, budget) ==
  LET n == limitOf(limit, FALSE)
      list == Fetched(offset + n + 1)
      start == Lesser(offset, Len(list))
      page == SubSeq(list, start + 1, Lesser(offset + n, Len(list)))
      kept == Fits(page, budget)
      cut == kept < Len(page)
  IN /\ hasMore /\ offset + n + 1 <= maxFetch
     /\ pages' = pages \o [i \in 1..kept |-> start + i]
     /\ hasMore' = (cut \/ Len(list) > offset + n)
     /\ offset' = start + kept
     /\ UNCHANGED ranked

PagingNext == \E limit \in 0..(MaxLimit + 1), budget \in 0..MaxBudget : callPaginated(limit, budget)
PagingSpec == PagingInit /\ [][PagingNext]_pagingVars

-----------------------------------------------------------------------------
(* Properties.                                                             *)

\* A client that follows next_offset gets every row once, in order, whatever limits
\* and budgets it uses: nothing is skipped or repeated where pages meet, and only
\* the last page says that there is no more.
PagesCoverRows ==
  /\ pages = [i \in 1..offset |-> i]
  /\ hasMore \/ offset = Len(ranked)
  /\ (pages # <<>> /\ hasMore) => offset < Len(ranked)
=============================================================================
