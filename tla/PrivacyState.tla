---------------------------- MODULE PrivacyState ----------------------------
(***************************************************************************)
(* PrivacyService (internal/services/privacy.go) and its Pseudonymizer     *)
(* (internal/privacy/pseudonymizer.go): the pseudonyms of a project's      *)
(* names, held in memory from their first use, and persisted twice, as a   *)
(* PrivacyState node and as special cache entries, which are read first.   *)
(*                                                                         *)
(* There is one kind of name, so a token is its number.  The policy is one *)
(* of a few values and its own validation is left out.                     *)
(***************************************************************************)
EXTENDS ExactCache

CONSTANTS
  Symbol,      \* names to hide
  Policy,      \* policies; DefaultPolicy is one
  DefaultPolicy,
  StateNode    \* StateNode[j]: the PrivacyState node of project j

ASSUME PrivacyAssumption ==
  /\ DefaultPolicy \in Policy /\ IsFiniteSet(Symbol)
  /\ DOMAIN StateNode = Project /\ {StateNode[j] : j \in Project} \subseteq Key
  /\ {StateNode[j] : j \in Project} \cap (CacheKey \cup SpecialEntry) = {}
  /\ \A i, j \in Project :
       /\ PolicyEntry[i] # SnapshotEntry[j]
       /\ i # j => /\ PolicyEntry[i] # PolicyEntry[j] /\ SnapshotEntry[i] # SnapshotEntry[j]
                   /\ StateNode[i] # StateNode[j]

VARIABLE states  \* states[p][j]: the policy and the table in memory, or None

privacyVars == <<serverVars, cacheVars, states>>

Token == 1..Cardinality(Symbol)
\* 0: the name has no token yet.
Table == [Symbol -> Token \cup {0}]
NoNames == [n \in Symbol |-> 0]
Pseudonyms == [policy : Policy, table : Table]
NewState == [policy |-> DefaultPolicy, table |-> NoNames]

ASSUME PrivacyValueAssumption == {None, Same} \cap (Policy \cup Table \cup Pseudonyms) = {}

PrivacyInit ==
  /\ CacheInit
  /\ states = [p \in Server |-> [j \in Project |-> None]]

\* Mutant: only the cache entries are read.
LoadedCached(g, j) ==
  LET policy == g[PolicyEntry[j]]
      table == g[SnapshotEntry[j]]
  IN IF policy # None \/ table # None
     THEN [policy |-> IF policy = None THEN DefaultPolicy ELSE policy,
           table |-> IF table = None THEN NoNames ELSE table]
     ELSE NewState

\* state: on first use it is loaded, from the cache entries if there is any of them
\* and otherwise from the node.
Loaded(g, j) ==
  LET policy == g[PolicyEntry[j]]
      table == g[SnapshotEntry[j]]
  IN IF policy # None \/ table # None
     THEN [policy |-> IF policy = None THEN DefaultPolicy ELSE policy,
           table |-> IF table = None THEN NoNames ELSE table]
     ELSE IF g[StateNode[j]] # None THEN g[StateNode[j]] ELSE NewState
StateOf(p, j) == IF states[p][j] # None THEN states[p][j] ELSE Loaded(View(p), j)

Pseudonymize(table, n) ==
  IF table[n] # 0 THEN table
  ELSE [table EXCEPT ![n] = 1 + Cardinality({m \in Symbol : table[m] # 0})]

persist(j, state) ==
  Over(Write(SnapshotEntry[j], state.table),
       Over(Write(PolicyEntry[j], state.policy), Write(StateNode[j], state)))

\* The state changes in memory, then in the graph; r is the answer.
Keep(p, j, state, r) ==
  /\ states' = [states EXCEPT ![p][j] = state]
  /\ Handle(p, persist(j, state), r)
  /\ UNCHANGED cacheVars

PseudonymizeSymbol(p, j, n) ==
  LET st == StateOf(p, j)
      table == Pseudonymize(st.table, n)
  IN Keep(p, j, [st EXCEPT !.table = table], <<j, n, table[n]>>)

SetPolicy(p, j, policy) == Keep(p, j, [StateOf(p, j) EXCEPT !.policy = policy], None)

\* Sanitize, Redact, Policy: the state is loaded and read.
ReadPrivacy(p, j) ==
  /\ states' = [states EXCEPT ![p][j] = StateOf(p, j)]
  /\ Refuse(p)
  /\ UNCHANGED cacheVars

PrivacyCall(p) ==
  \E j \in Project :
    \/ \E n \in Symbol : PseudonymizeSymbol(p, j, n)
    \/ \E policy \in Policy : SetPolicy(p, j, policy)
    \/ ReadPrivacy(p, j)

PrivacyNext ==
  \E p \in Server :
    \/ PrivacyCall(p)
    \/ (CacheCall(p) \/ CacheSettle(p)) /\ UNCHANGED states
    \/ CacheRestart(p) /\ states' = [states EXCEPT ![p] = [j \in Project |-> None]]
PrivacySpec == PrivacyInit /\ [][PrivacyNext]_privacyVars

-----------------------------------------------------------------------------
(* Properties.                                                             *)

\* A pseudonym that was handed out keeps its meaning, through flushes of the cache,
\* failed saves and restarts: the name still gets that token, and no other name of
\* the project does.
PseudonymsStable ==
  \A a \in answered \cap (Project \X Symbol \X Token), p \in Server :
    LET table == StateOf(p, a[1]).table
    IN table[a[2]] = a[3] /\ \A n \in Symbol \ {a[2]} : table[n] # a[3]
=============================================================================
