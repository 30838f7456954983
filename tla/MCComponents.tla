---------------------------- MODULE MCComponents ----------------------------
(* Small instances of the components for TLC.  They share nothing but the       *)
(* repository of ToolServer, so a behaviour is one of one component, its part;  *)
(* the variables of the others keep an initial value.                           *)
EXTENDS ProjectWorker, EventEngine, AgentTasks, Housekeeping, PrivacyState, Paging,
        FileObserver, EdgeResolution, UserFiles, SelfUpdate, Graphify,
        ToolProtocol, TLC

CONSTANTS f1, f2, c1,                        \* ProjectWorker
          w1, w2, g1,                        \* EventEngine
          p1,                                \* ToolServer
          t1, e1, e2, h1, v1, a1, a2,        \* AgentTasks
          m1, m2, l1, l2, x1, total, n1, n2, \* Housekeeping
          j1, k1, k2, pe1, se1, st1, s1, s2, b1,  \* PrivacyState
          d0, d1, o1, o2,                    \* FileObserver
          r1, r2, r3, fm, fn, T, U, i1,      \* EdgeResolution
          uh1, uh2, ul1,                     \* UserFiles
          up1                                \* SelfUpdate

-----------------------------------------------------------------------------
(* ToolServer's keys, and the patches agents send.                         *)

Keys == {t1, e1, e2, h1, m1, m2, x1, total, n1, n2, k1, k2, pe1, se1, st1}

HypPatch(version, status, for, against) ==
  [expected |-> version, state |-> "", validation |-> [c \in Check |-> "none"],
   hyp |-> [id |-> h1, status |-> status, for |-> for, against |-> against]]
StatePatch(state, result) ==
  [expected |-> 0, state |-> state, validation |-> [c \in Check |-> result],
   hyp |-> [id |-> NoHyp, status |-> "", for |-> {}, against |-> {}]]
SomePatches ==
  {HypPatch(0, "SUPPORTED", {e1}, {}), HypPatch(0, "CONFIRMED", {e2}, {}),
   HypPatch(0, "PARTIAL", {}, {}), HypPatch(2, "CONTRADICTED", {}, {e1})}
  \cup {StatePatch(s, "none") : s \in {"DISCOVERING", "ANALYZING", "IMPLEMENTING", "VERIFYING"}}
  \cup {StatePatch("VALIDATED", "passed"), StatePatch("", "failed")}

OneEntryProject == [k \in {k1, k2} |-> j1]
OnePolicyEntry == j1 :> pe1
OneSnapshotEntry == j1 :> se1
OneStateNode == j1 :> st1
TwoSessions == <<n1, n2>>

FileDirs == (o1 :> d0) @@ (o2 :> d1)

-----------------------------------------------------------------------------
(* EdgeResolution: what four contents declare and mention.                 *)

Contents == {"caller", "bare", "method", "callee"}
Func(owner, name, mentioned, refs) == [owner |-> owner, name |-> name, calls |-> mentioned, refs |-> refs]
To(owner, name) == [owner |-> owner, name |-> name]
FunctionsOf ==
  [c \in Contents |->
     CASE c = "caller" -> {Func(Nil, fn, {To(T, fm), To(Nil, U)}, {T})}
       [] c = "bare"   -> {Func(Nil, fn, {To(Nil, fm)}, {}), Func(U, fm, {}, {})}
       [] c = "method" -> {Func(T, fm, {}, {})}
       [] c = "callee" -> {Func(Nil, fm, {To(Nil, fn)}, {})}]
TypesOf ==
  [c \in Contents |->
     CASE c = "caller" -> {[name |-> U, refs |-> {T}]}
       [] c = "method" -> {[name |-> T, refs |-> {U}]}
       [] OTHER -> {}]
RelationsOf ==
  [c \in Contents |->
     CASE c = "bare"   -> {[sub |-> U, rel |-> "EXTENDS", super |-> T]}
       [] c = "method" -> {[sub |-> T, rel |-> "IMPLEMENTS", super |-> U]}
       [] OTHER -> {}]
ImportsOf == [c \in Contents |-> IF c = "caller" THEN {i1} ELSE {}]
Hits == [r \in Source |-> [i \in {i1} |-> {r2}]]
Groups == (r1 :> "go") @@ (r2 :> "c") @@ (r3 :> "asm")

-----------------------------------------------------------------------------
(* Graphify: two roots; files 15 to 17 are what the passes write.           *)

ConceptsOfFiles ==
  (11 :> <<1, 2>>) @@ (12 :> <<3, 2, 4>>) @@ (13 :> <<4, 5>>) @@ (14 :> <<6>>)
  @@ [f \in 15..17 |-> <<7>>]
ImportsOfFiles == [f \in 11..17 |-> CASE f = 11 -> {3} [] f = 13 -> {1} [] OTHER -> {}]
WalkOfRoots == (1 :> <<11, 12, 15, 16, 13>>) @@ (2 :> <<14>>)
OutFiles == (1 :> <<15, 16>>) @@ (2 :> <<17>>)

-----------------------------------------------------------------------------
(* ToolProtocol: what a client sends.                                       *)

Asked(id, method, asks, parts) == [id |-> id, method |-> method, asks |-> asks, parts |-> parts]
Ping == Asked("1", "ping", "", 1)
Broken == Asked("2", "tools/call", "broken", 1)
Messages ==
  {Ping, Broken, Asked("3", "initialize", "2025-03-26", 1), Asked("4", "initialize", "1999", 2),
   Asked("5", "tools/call", "index", 2), Asked("6", "nothing", "", 1),
   Asked(NoId, "tools/call", "bad params", 1), Asked(NoId, "tools/call", "index", 1),
   Asked(NoId, "notifications/", "", 2)}
Framed(kind, m) == [kind |-> kind, msg |-> m]
Frames ==
  {Framed("line", m) : m \in Messages} \cup {Framed("framed", m) : m \in {m \in Messages : m.parts = 2}}
  \cup {Framed("typed", Broken)} \cup {Framed(kind, Ping) : kind \in {"junk", "blank", "bad", "empty"}}

-----------------------------------------------------------------------------

VARIABLE part

componentVars == <<part, workerVars, engineVars, houseVars, cacheVars, states, pagingVars,
                   observerVars, resolutionVars, userVars, updateVars, graphifyVars,
                   protocolVars>>

UpToDate == WorkerInit /\ hash = content

ComponentsInit ==
  /\ part \in {"worker", "events", "tasks", "house", "privacy", "paging", "observer",
               "edges", "files", "update", "graphify", "protocol"}
  /\ UpToDate /\ (part # "worker" => content = [f \in File |-> Absent] /\ utc)
  /\ EngineInit
  /\ HouseInit /\ (part # "house" => session[p1] = 1)
  /\ PrivacyInit
  /\ PagingInit /\ (part # "paging" => ranked = <<>>)
  /\ ObserverInit /\ (part # "observer" => tree = {})
  /\ ResolutionInit /\ UserFilesInit /\ UpdateInit
  /\ GraphifyInit /\ ProtocolInit

ComponentsNext ==
  \/ part = "worker" /\ WorkerNext
       /\ UNCHANGED <<part, engineVars, houseVars, cacheVars, states, pagingVars, observerVars,
                      resolutionVars, userVars, updateVars, graphifyVars, protocolVars>>
  \/ part = "events" /\ EngineNext
       /\ UNCHANGED <<part, workerVars, houseVars, cacheVars, states, pagingVars, observerVars,
                      resolutionVars, userVars, updateVars, graphifyVars, protocolVars>>
  \/ part = "tasks" /\ TasksNext
       /\ UNCHANGED <<part, workerVars, engineVars, usageVars, cacheVars, states, pagingVars,
                      observerVars, resolutionVars, userVars, updateVars, graphifyVars, protocolVars>>
  \/ part = "house" /\ HouseNext
       /\ UNCHANGED <<part, workerVars, engineVars, cacheVars, states, pagingVars, observerVars,
                      resolutionVars, userVars, updateVars, graphifyVars, protocolVars>>
  \/ part = "privacy" /\ PrivacyNext
       /\ UNCHANGED <<part, workerVars, engineVars, usageVars, pagingVars, observerVars,
                      resolutionVars, userVars, updateVars, graphifyVars, protocolVars>>
  \/ part = "paging" /\ PagingNext
       /\ UNCHANGED <<part, workerVars, engineVars, houseVars, cacheVars, states, observerVars,
                      resolutionVars, userVars, updateVars, graphifyVars, protocolVars>>
  \/ part = "observer" /\ ObserverNext
       /\ UNCHANGED <<part, workerVars, engineVars, houseVars, cacheVars, states, pagingVars,
                      resolutionVars, userVars, updateVars, graphifyVars, protocolVars>>
  \/ part = "edges" /\ ResolutionNext
       /\ UNCHANGED <<part, workerVars, engineVars, houseVars, cacheVars, states, pagingVars,
                      observerVars, userVars, updateVars, graphifyVars, protocolVars>>
  \/ part = "files" /\ UserFilesNext
       /\ UNCHANGED <<part, workerVars, engineVars, houseVars, cacheVars, states, pagingVars,
                      observerVars, resolutionVars, updateVars, graphifyVars, protocolVars>>
  \/ part = "update" /\ UpdateNext
       /\ UNCHANGED <<part, workerVars, engineVars, houseVars, cacheVars, states, pagingVars,
                      observerVars, resolutionVars, userVars, graphifyVars, protocolVars>>
  \/ part = "graphify" /\ GraphifyNext
       /\ UNCHANGED <<part, workerVars, engineVars, houseVars, cacheVars, states, pagingVars,
                      observerVars, resolutionVars, userVars, updateVars, protocolVars>>
  \/ part = "protocol" /\ ProtocolNext
       /\ UNCHANGED <<part, workerVars, engineVars, houseVars, cacheVars, states, pagingVars,
                      observerVars, resolutionVars, userVars, updateVars, graphifyVars>>
ComponentsSpec == ComponentsInit /\ [][ComponentsNext]_componentVars

FileSymmetry == Permutations(File)
=============================================================================
