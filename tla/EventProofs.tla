---------------------------- MODULE EventProofs -----------------------------
(***************************************************************************)
(* The queues on the way of an event: the event engine, the file observer  *)
(* that feeds it, and the ring of captured data behind the runtime         *)
(* observer.                                                               *)
(***************************************************************************)
EXTENDS EventEngine, FileObserver, RuntimeQueue, SequenceTheorems, FiniteSetTheorems, TLAPS

-----------------------------------------------------------------------------
(***************************************************************************)
(* The event engine.  An event is in one place at a time: with its Emit,   *)
(* in the queue, with the dispatcher and in jobs for workers that have not *)
(* had it, or delivered.  Hence AtMostOnce, for any capacity, workers,     *)
(* pool and however often the engine is stopped and started again.         *)
(***************************************************************************)
USE EngineAssumption

\* What is in a sequence, and that nothing is in it twice.
Elems(s) == {s[i] : i \in DOMAIN s}
Once(s) == \A i, j \in DOMAIN s : s[i] = s[j] => i = j

EngineTypes ==
  /\ running \in BOOLEAN /\ stopping \in BOOLEAN
  /\ workers \in Seq(Worker) /\ queue \in Seq(Event) /\ jobs \in Seq(Event \X Worker)
  /\ emit \in [Event -> {"new", "sending", "blocked", "queued", "dropped"}]
  /\ disp \in Disp /\ (disp.at = "fan" => disp.event \in Event /\ disp.todo # <<>>)
  /\ delivered \in [Event -> [Worker -> Nat]]
  /\ nextID \in Nat

\* The event the dispatcher is fanning out, and for whom it still has to.
Fanning(v) == disp.at = "fan" /\ disp.event = v
Due(v, w) == Fanning(v) /\ w \in Elems(disp.todo)

\* Everything about an event is in one of these places.
Places ==
  /\ Once(workers) /\ Once(queue) /\ Once(jobs) /\ Once(disp.todo)
  /\ \A v \in Event : v > nextID => emit[v] = "new"
  /\ \A v \in Event : v \in Elems(queue) \/ Fanning(v) => emit[v] = "queued"
  /\ \A v \in Event : v \in Elems(queue) => ~ Fanning(v)
  /\ \A v \in Event, w \in Worker :
       /\ <<v, w>> \in Elems(jobs) \/ delivered[v][w] > 0 => emit[v] = "queued" /\ v \notin Elems(queue)
       /\ Due(v, w) => <<v, w>> \notin Elems(jobs) /\ delivered[v][w] = 0
       /\ <<v, w>> \in Elems(jobs) => delivered[v][w] = 0
       /\ delivered[v][w] <= 1

EngineInv == EngineTypes /\ Places
-----------------------------------------------------------------------------
(* Channels and lists.                                                     *)

LEMMA ElemsOf == ASSUME NEW S, NEW s \in Seq(S) PROVE Elems(s) = {s[i] : i \in 1..Len(s)} /\ Elems(s) \subseteq S
BY DEF Elems

LEMMA EmptyElems == Elems(<<>>) = {} /\ Once(<<>>)
BY DEF Elems, Once

\* A send to a channel.
LEMMA AppendElems ==
  ASSUME NEW S, NEW s \in Seq(S), NEW x \in S
  PROVE  /\ Append(s, x) \in Seq(S) /\ Append(s, x) # <<>>
         /\ Elems(Append(s, x)) = Elems(s) \cup {x}
         /\ Once(s) /\ x \notin Elems(s) => Once(Append(s, x))
<1>1. /\ Append(s, x) \in Seq(S) /\ Len(Append(s, x)) = Len(s) + 1 /\ Len(s) \in Nat
      /\ \A i \in 1..Len(s) : Append(s, x)[i] = s[i]
      /\ Append(s, x)[Len(s) + 1] = x
  BY AppendProperties
<1>2. DOMAIN Append(s, x) = 1..(Len(s) + 1) /\ DOMAIN s = 1..Len(s)
  BY <1>1, LenProperties
<1>3. Elems(Append(s, x)) = Elems(s) \cup {x}
  BY <1>1, <1>2 DEF Elems
<1>4. Once(s) /\ x \notin Elems(s) => Once(Append(s, x))
  BY <1>1, <1>2 DEF Elems, Once
<1>5. QED BY <1>1, <1>3, <1>4

\* A receive.
LEMMA TailElems ==
  ASSUME NEW S, NEW s \in Seq(S), s # <<>>
  PROVE  /\ Head(s) \in S /\ Head(s) \in Elems(s) /\ Tail(s) \in Seq(S)
         /\ Elems(Tail(s)) \subseteq Elems(s) /\ Elems(s) = Elems(Tail(s)) \cup {Head(s)}
         /\ Once(s) => Once(Tail(s)) /\ Head(s) \notin Elems(Tail(s))
<1>1. /\ Head(s) \in S /\ Tail(s) \in Seq(S) /\ Len(Tail(s)) = Len(s) - 1 /\ Len(s) \in Nat \ {0}
      /\ Head(s) = s[1]
      /\ \A i \in 1..(Len(s) - 1) : Tail(s)[i] = s[i + 1]
  BY HeadTailProperties, LenProperties, EmptySeq
<1>2. DOMAIN Tail(s) = 1..(Len(s) - 1) /\ DOMAIN s = 1..Len(s)
  BY <1>1, LenProperties
<1>3. \A i \in DOMAIN s : i = 1 \/ (i - 1 \in DOMAIN Tail(s) /\ Tail(s)[i - 1] = s[i])
  BY <1>1, <1>2
<1>4. \A i \in DOMAIN Tail(s) : i + 1 \in DOMAIN s /\ i + 1 # 1 /\ Tail(s)[i] = s[i + 1]
  BY <1>1, <1>2
<1>5. 1 \in DOMAIN s /\ Head(s) = s[1] BY <1>1, <1>2
<1>6. Elems(Tail(s)) \subseteq Elems(s) /\ Head(s) \in Elems(s) BY <1>4, <1>5 DEF Elems
<1>7. Elems(s) \subseteq Elems(Tail(s)) \cup {Head(s)}
  <2>1. ASSUME NEW i \in DOMAIN s PROVE s[i] \in Elems(Tail(s)) \/ s[i] = Head(s)
    <3>1. CASE i = 1 BY <1>5, <3>1
    <3>2. CASE i # 1 BY <1>3, <3>2 DEF Elems
    <3>3. QED BY <3>1, <3>2
  <2>2. QED BY <2>1 DEF Elems
<1>8. Once(s) => Head(s) \notin Elems(Tail(s)) BY <1>4, <1>5 DEF Elems, Once
<1>9. ASSUME Once(s) PROVE Once(Tail(s))
  <2>1. \A i, j \in DOMAIN Tail(s) : Tail(s)[i] = Tail(s)[j] => i + 1 = j + 1
    BY <1>4, <1>9 DEF Once
  <2>2. QED BY <2>1, <1>2, <1>1 DEF Once
<1>10. QED BY <1>1, <1>6, <1>7, <1>8, <1>9

\* What is left of a list after its first places.
LEMMA RestArithmetic ==
  ASSUME NEW i \in Nat, NEW l \in Nat, i <= l, NEW m \in Int, m = i + 1
  PROVE  /\ (IF m <= l THEN l - m + 1 ELSE 0) = l - i
         /\ \A k \in 1..(l - i) : k \in 1..(l - m + 1) /\ m + k - 1 = i + k
OBVIOUS

LEMMA Rest ==
  ASSUME NEW S, NEW s \in Seq(S), NEW i \in 0..Len(s), NEW b, b = SubSeq(s, i + 1, Len(s))
  PROVE  /\ b \in Seq(S) /\ Len(b) = Len(s) - i
         /\ \A k \in 1..(Len(s) - i) : b[k] = s[i + k]
<1>. DEFINE m == i + 1
            l == Len(s)
<1>1. i \in Nat /\ l \in Nat /\ i <= l /\ m \in Int /\ m = i + 1
  BY LenProperties
<1>2. \A k \in m..l : s[k] \in S
  BY <1>1, ElementOfSeq
<1>3. b = SubSeq(s, m, l) OBVIOUS
<1>4. \A k \in 1..(Len(s) - i) : k \in 1..(l - i) OBVIOUS
<1>5. l = Len(s) OBVIOUS
<1>. HIDE DEF m, l
<1>6. /\ b \in Seq(S) /\ Len(b) = IF m <= l THEN l - m + 1 ELSE 0
      /\ \A k \in 1..(l - m + 1) : b[k] = s[m + k - 1]
  BY <1>1, <1>2, <1>3, SubSeqProperties
<1>7. /\ (IF m <= l THEN l - m + 1 ELSE 0) = l - i
      /\ \A k \in 1..(l - i) : k \in 1..(l - m + 1) /\ m + k - 1 = i + k
  BY <1>1, RestArithmetic
<1>8. ASSUME NEW k \in 1..(l - i) PROVE b[k] = s[i + k]
  <2>1. k \in 1..(l - m + 1) /\ m + k - 1 = i + k BY <1>7
  <2>2. b[k] = s[m + k - 1] BY <1>6, <2>1
  <2>3. QED BY <2>1, <2>2
<1>9. QED BY <1>5, <1>6, <1>7, <1>8

\* RemoveWorker's append(workers[:i], workers[i+1:]...).
LEMMA CutElems ==
  ASSUME NEW S, NEW s \in Seq(S), NEW i \in DOMAIN s
  PROVE  LET t == SubSeq(s, 1, i - 1) \o SubSeq(s, i + 1, Len(s))
         IN /\ t \in Seq(S) /\ Elems(t) \subseteq Elems(s) /\ (Once(s) => Once(t))
            /\ \A c \in Elems(s) : c \in Elems(t) \/ c = s[i]
<1>. DEFINE a == SubSeq(s, 1, i - 1)
            b == SubSeq(s, i + 1, Len(s))
            t == a \o b
<1>1. Len(s) \in Nat /\ DOMAIN s = 1..Len(s) /\ i \in 1..Len(s) BY LenProperties
<1>2. /\ a \in Seq(S) /\ Len(a) = i - 1 /\ \A k \in 1..(i - 1) : a[k] = s[k]
  <2>. DEFINE n == i - 1
  <2>1. n \in Int /\ \A k \in 1..n : s[k] \in S BY <1>1, ElementOfSeq
  <2>2. n = i - 1 /\ a = SubSeq(s, 1, n) OBVIOUS
  <2>. HIDE DEF n, a
  <2>3. /\ a \in Seq(S) /\ Len(a) = IF 1 <= n THEN n ELSE 0
        /\ \A k \in 1..n : a[k] = s[1 + k - 1]
    BY <2>1, <2>2, SubSeqProperties
  <2>4. QED BY <1>1, <2>2, <2>3
<1>3. /\ b \in Seq(S) /\ Len(b) = Len(s) - i /\ \A k \in 1..(Len(s) - i) : b[k] = s[i + k]
  <2>1. i \in 0..Len(s) BY <1>1
  <2>2. QED BY <2>1, Rest
<1>4. /\ t \in Seq(S) /\ Len(t) = Len(s) - 1
      /\ \A k \in 1..(Len(s) - 1) : t[k] = IF k < i THEN s[k] ELSE s[k + 1]
  <2>1. t \in Seq(S) /\ Len(t) = Len(a) + Len(b)
        /\ \A k \in 1..(Len(a) + Len(b)) : t[k] = IF k <= Len(a) THEN a[k] ELSE b[k - Len(a)]
    BY <1>2, <1>3, ConcatProperties
  <2>2. ASSUME NEW k \in 1..(Len(s) - 1) PROVE t[k] = IF k < i THEN s[k] ELSE s[k + 1]
    <3>1. CASE k < i BY <3>1, <2>1, <1>1, <1>2, <1>3
    <3>2. CASE ~ (k < i)
      <4>1. k - (i - 1) \in 1..(Len(s) - i) /\ i + (k - (i - 1)) = k + 1 BY <3>2, <1>1
      <4>2. Len(a) = i - 1 /\ k \in 1..(Len(a) + Len(b)) /\ ~ (k <= Len(a))
        BY <3>2, <1>1, <1>2, <1>3
      <4>3. t[k] = b[k - Len(a)] BY <4>2, <2>1
      <4>4. b[k - (i - 1)] = s[k + 1] BY <4>1, <1>3
      <4>5. QED BY <3>2, <4>2, <4>3, <4>4
    <3>3. QED BY <3>1, <3>2
  <2>3. Len(t) = Len(s) - 1
    <3>1. Len(t) = (i - 1) + (Len(s) - i) BY <2>1, <1>2, <1>3
    <3>2. QED BY <3>1, <1>1
  <2>4. QED BY <2>1, <2>2, <2>3
<1>5. DOMAIN t = 1..(Len(s) - 1) BY <1>4, LenProperties
<1>6. \A k \in DOMAIN t : \E m \in DOMAIN s : t[k] = s[m] /\ m = IF k < i THEN k ELSE k + 1
  <2>1. TAKE k \in DOMAIN t
  <2>2. k \in 1..(Len(s) - 1) BY <1>5
  <2>3. (IF k < i THEN k ELSE k + 1) \in DOMAIN s BY <2>2, <1>1
  <2>4. t[k] = s[IF k < i THEN k ELSE k + 1] BY <2>2, <1>4
  <2>5. QED BY <2>3, <2>4
<1>7. Elems(t) \subseteq Elems(s) BY <1>6 DEF Elems
<1>8. ASSUME Once(s) PROVE Once(t)
  <2>1. SUFFICES ASSUME NEW k \in DOMAIN t, NEW m \in DOMAIN t, t[k] = t[m] PROVE k = m
    BY DEF Once
  <2>2. (IF k < i THEN k ELSE k + 1) = (IF m < i THEN m ELSE m + 1)
    BY <2>1, <1>6, <1>8 DEF Once
  <2>3. QED BY <2>2, <1>1, <1>5
<1>9. \A m \in DOMAIN s : m = i \/ \E k \in DOMAIN t : t[k] = s[m]
  <2>1. TAKE m \in DOMAIN s
  <2>2. CASE m < i
    <3>1. m \in 1..(Len(s) - 1) BY <1>1, <2>2
    <3>2. t[m] = s[m] BY <1>4, <2>2, <3>1
    <3>3. QED BY <1>5, <3>1, <3>2
  <2>3. CASE m > i
    <3>1. m - 1 \in 1..(Len(s) - 1) /\ ~ (m - 1 < i) /\ (m - 1) + 1 = m BY <1>1, <2>3
    <3>2. t[m - 1] = s[m] BY <1>4, <3>1
    <3>3. QED BY <1>5, <3>1, <3>2
  <2>4. m < i \/ m > i \/ m = i BY <1>1
  <2>5. QED BY <2>2, <2>3, <2>4
<1>10. \A c \in Elems(s) : c \in Elems(t) \/ c = s[i] BY <1>9 DEF Elems
<1>11. QED BY <1>4, <1>7, <1>8, <1>10
-----------------------------------------------------------------------------
(* The steps.                                                              *)

LEMMA EngineInitial == EngineInit => EngineInv
<1>1. EngineInit => EngineTypes
  <2>. SUFFICES ASSUME EngineInit PROVE EngineTypes OBVIOUS
  <2>1. At("off") \in Disp /\ At("off").at = "off"
    BY EmptySeq DEF Disp, At
  <2>2. /\ emit \in [Event -> {"new", "sending", "blocked", "queued", "dropped"}]
        /\ delivered \in [Event -> [Worker -> Nat]]
    BY DEF EngineInit
  <2>3. QED BY <2>1, <2>2, EmptySeq DEF EngineInit, EngineTypes
<1>2. EngineInit => Places
  BY EmptyElems DEF EngineInit, Places, Fanning, Due, At, Event
<1>3. QED BY <1>1, <1>2 DEF EngineInv

LEMMA TypesOf ==
  ASSUME EngineTypes
  PROVE  /\ Elems(queue) \subseteq Event /\ Elems(jobs) \subseteq Event \X Worker
         /\ disp.todo \in Seq(Worker) /\ disp.at \in {"off", "loop", "fan", "drain", "wait"}
         /\ At("loop") \in Disp /\ At("drain") \in Disp /\ At("wait") \in Disp /\ At("off") \in Disp
         /\ \A a \in {"off", "loop", "drain", "wait"} :
              At(a).at = a /\ At(a).at # "fan" /\ At(a).todo = <<>>
<1>1. disp.todo \in Seq(Worker) /\ disp.at \in {"off", "loop", "fan", "drain", "wait"}
  BY DEF EngineTypes, Disp
<1>2. <<>> \in Seq(Worker) BY EmptySeq
<1>3. QED BY <1>1, <1>2, ElemsOf DEF EngineTypes, Disp, At

\* Start keeps jobs and dispatcher, or begins with new ones.
LEMMA Starting ==
  ASSUME EngineInv, Start
  PROVE  /\ running' \in BOOLEAN
         /\ (jobs' = jobs /\ disp' = disp) \/ (jobs' = <<>> /\ disp' = At("loop"))
         /\ jobs' \in Seq(Event \X Worker)
         /\ disp' \in Disp /\ (disp'.at = "fan" => disp'.event \in Event /\ disp'.todo # <<>>)
         /\ disp'.at = "fan" => disp' = disp
         /\ Elems(jobs') \subseteq Elems(jobs) /\ Once(jobs') /\ Once(disp'.todo)
<1>1. running' \in BOOLEAN /\ ((jobs' = jobs /\ disp' = disp) \/ (jobs' = <<>> /\ disp' = At("loop")))
  BY DEF Start
<1>2. <<>> \in Seq(Event \X Worker) BY EmptySeq
<1>3. QED BY <1>1, <1>2, TypesOf, EmptyElems DEF EngineInv, EngineTypes, Places

\* Steps that take nothing out of the queue and give no one an event.
LEMMA NothingMoves ==
  ASSUME EngineInv, UNCHANGED <<queue, emit, delivered, nextID>>,
         Once(workers'), Once(jobs'), Elems(jobs') \subseteq Elems(jobs),
         Once(disp'.todo), disp'.at = "fan" => disp' = disp
  PROVE  Places'
<1>1. \A v \in Event : Fanning(v)' => Fanning(v)
  BY DEF Fanning
<1>2. \A v \in Event, w \in Worker : Due(v, w)' => Due(v, w)
  BY DEF Fanning, Due
<1>3. QED BY <1>1, <1>2, Zenon DEF EngineInv, Places

LEMMA EmitKeeps ==
  ASSUME EngineInv, NEW v \in Event, Emit(v)
  PROVE  EngineInv'
<1>1. /\ v = nextID + 1 /\ nextID' = v /\ emit' = [emit EXCEPT ![v] = "sending"]
      /\ Start /\ UNCHANGED <<stopping, workers, queue, delivered, stops>>
  BY DEF Emit
<1>2. emit[v] = "new" /\ nextID \in Nat
  BY <1>1 DEF EngineInv, EngineTypes, Places
<1>3. EngineTypes'
  <2>1. emit' \in [Event -> {"new", "sending", "blocked", "queued", "dropped"}]
    BY <1>1 DEF EngineInv, EngineTypes
  <2>2. nextID' \in Nat BY <1>1, <1>2
  <2>3. QED BY <1>1, <2>1, <2>2, Starting DEF EngineInv, EngineTypes
<1>4. Places'
  <2>1. \A x \in Event : x > nextID' => emit'[x] = "new"
    BY <1>1, <1>2 DEF EngineInv, EngineTypes, Places, Event
  <2>2. \A x \in Event : emit[x] = "queued" => emit'[x] = "queued"
    BY <1>1, <1>2 DEF EngineInv, EngineTypes
  <2>3. \A x \in Event : Fanning(x)' => Fanning(x)
    BY <1>1, Starting DEF Fanning
  <2>4. \A x \in Event, w \in Worker : Due(x, w)' => Due(x, w)
    BY <1>1, Starting DEF Fanning, Due
  <2>5. Once(workers') /\ Once(queue') /\ Once(jobs') /\ Once(disp'.todo)
        /\ Elems(queue') = Elems(queue) /\ Elems(jobs') \subseteq Elems(jobs) /\ delivered' = delivered
    BY <1>1, Starting DEF EngineInv, Places
  <2>6. QED BY <2>1, <2>2, <2>3, <2>4, <2>5, Zenon DEF EngineInv, Places
<1>5. QED BY <1>3, <1>4 DEF EngineInv

LEMMA SendKeeps ==
  ASSUME EngineInv, NEW v \in Event, Send(v) \/ Block(v) \/ Drop(v)
  PROVE  EngineInv'
<1>1. CASE Send(v)
  <2>1. /\ emit[v] \in {"sending", "blocked"} /\ queue' = Append(queue, v)
        /\ emit' = [emit EXCEPT ![v] = "queued"]
        /\ UNCHANGED <<running, stopping, workers, jobs, disp, delivered, nextID>>
    BY <1>1 DEF Send, ringVars
  <2>2. /\ queue' \in Seq(Event) /\ Elems(queue') = Elems(queue) \cup {v}
        /\ v \notin Elems(queue) /\ Once(queue')
    BY <2>1, AppendElems DEF EngineInv, EngineTypes, Places
  <2>3. EngineTypes'
    BY <2>1, <2>2 DEF EngineInv, EngineTypes
  <2>4. ~ (v > nextID) /\ ~ Fanning(v)
        /\ \A w \in Worker : <<v, w>> \notin Elems(jobs) /\ ~ (delivered[v][w] > 0)
    BY <2>1 DEF EngineInv, Places
  <2>5. \A x \in Event : emit'[x] = IF x = v THEN "queued" ELSE emit[x]
    BY <2>1 DEF EngineInv, EngineTypes
  <2>6. \A x \in Event : (Fanning(x)' <=> Fanning(x)) /\ \A w \in Worker : Due(x, w)' <=> Due(x, w)
    BY <2>1 DEF Fanning, Due
  <2>7. Places'
    BY <2>1, <2>2, <2>4, <2>5, <2>6 DEF EngineInv, Places
  <2>8. QED BY <2>3, <2>7 DEF EngineInv
<1>2. CASE Block(v) \/ Drop(v)
  <2>1. /\ emit[v] \in {"sending", "blocked"}
        /\ emit' = [emit EXCEPT ![v] = "blocked"] \/ emit' = [emit EXCEPT ![v] = "dropped"]
        /\ UNCHANGED <<running, stopping, workers, queue, jobs, disp, delivered, nextID>>
    BY <1>2 DEF Block, Drop, ringVars
  <2>2. \A x \in Event : x # v => emit'[x] = emit[x]
    BY <2>1 DEF EngineInv, EngineTypes
  <2>3. EngineTypes'
    BY <2>1 DEF EngineInv, EngineTypes
  <2>4. \A x \in Event : (Fanning(x)' <=> Fanning(x)) /\ \A w \in Worker : Due(x, w)' <=> Due(x, w)
    BY <2>1 DEF Fanning, Due
  <2>5. ~ (v > nextID) /\ emit[v] # "queued"
    BY <2>1 DEF EngineInv, Places
  <2>6. Places'
    BY <2>1, <2>2, <2>4, <2>5 DEF EngineInv, Places
  <2>7. QED BY <2>3, <2>6 DEF EngineInv
<1>3. QED BY <1>1, <1>2

LEMMA WorkersKeep ==
  ASSUME EngineInv, NEW w \in Worker, AddWorker(w) \/ RemoveWorker(w)
  PROVE  EngineInv'
<1>1. CASE AddWorker(w)
  <2>1. /\ w \notin Elems(workers) /\ Start /\ workers' = Append(workers, w)
        /\ UNCHANGED <<stopping, queue, emit, delivered, nextID>>
    BY <1>1 DEF AddWorker, ringVars, Registered, Elems
  <2>2. workers' \in Seq(Worker) /\ Once(workers')
    BY <2>1, AppendElems DEF EngineInv, EngineTypes, Places
  <2>3. EngineTypes'
    BY <2>1, <2>2, Starting DEF EngineInv, EngineTypes
  <2>4. Places'
    BY <2>1, <2>2, Starting, NothingMoves
  <2>5. QED BY <2>3, <2>4 DEF EngineInv
<1>2. CASE RemoveWorker(w)
  <2>1. PICK i \in DOMAIN workers :
          workers' = SubSeq(workers, 1, i - 1) \o SubSeq(workers, i + 1, Len(workers))
    BY <1>2 DEF RemoveWorker
  <2>2. UNCHANGED <<running, stopping, queue, jobs, emit, disp, delivered, nextID>>
    BY <1>2 DEF RemoveWorker, ringVars
  <2>3. workers' \in Seq(Worker) /\ Once(workers')
    BY <2>1, CutElems DEF EngineInv, EngineTypes, Places
  <2>4. EngineTypes'
    BY <2>2, <2>3 DEF EngineInv, EngineTypes
  <2>5. Places'
    BY <2>2, <2>3, NothingMoves DEF EngineInv, Places
  <2>6. QED BY <2>4, <2>5 DEF EngineInv
<1>3. QED BY <1>1, <1>2

\* The dispatcher goes where it fans nothing out, the pool ends, Stop comes and goes.
LEMMA ControlKeeps ==
  ASSUME EngineInv,
         \/ GiveUpFanOut \/ BeginDrain \/ EndDrain \/ Finish \/ StopEngine \/ StopDone
         \/ (\E g \in Pool : LeavePool(g)) \/ UNCHANGED engineVars
  PROVE  EngineInv'
<1>1. /\ UNCHANGED <<workers, queue, jobs, emit, delivered, nextID>>
      /\ running' \in BOOLEAN /\ stopping' \in BOOLEAN
      /\ disp' = disp \/ disp' \in {At("wait"), At("drain"), At("off")}
  BY DEF EngineInv, EngineTypes, GiveUpFanOut, BeginDrain, EndDrain, Finish, StopEngine, StopDone,
         LeavePool, engineVars, ringVars
<1>2. /\ disp' \in Disp /\ (disp'.at = "fan" => disp' = disp) /\ Once(disp'.todo)
  BY <1>1, TypesOf, EmptyElems DEF EngineInv, EngineTypes, Places
<1>3. EngineTypes'
  BY <1>1, <1>2 DEF EngineInv, EngineTypes
<1>4. Places'
  BY <1>1, <1>2, NothingMoves DEF EngineInv, Places
<1>5. QED BY <1>3, <1>4 DEF EngineInv

LEMMA RunJobKeep ==
  ASSUME EngineInv, NEW g \in Pool, RunJob(g)
  PROVE  EngineInv'
<1>. DEFINE v == Head(jobs)[1]
            w == Head(jobs)[2]
<1>1. /\ jobs # <<>> /\ delivered' = Delivered({w}, v) /\ jobs' = Tail(jobs)
      /\ UNCHANGED <<running, stopping, workers, queue, emit, disp, nextID>>
  BY DEF RunJob, ringVars
<1>2. /\ v \in Event /\ w \in Worker /\ Head(jobs) = <<v, w>> /\ <<v, w>> \in Elems(jobs)
      /\ jobs' \in Seq(Event \X Worker) /\ Once(jobs')
      /\ Elems(jobs') \subseteq Elems(jobs) /\ <<v, w>> \notin Elems(jobs')
  <2>1. /\ Head(jobs) \in Event \X Worker /\ Head(jobs) \in Elems(jobs)
        /\ jobs' \in Seq(Event \X Worker) /\ Once(jobs')
        /\ Elems(jobs') \subseteq Elems(jobs) /\ Head(jobs) \notin Elems(jobs')
    BY <1>1, TailElems DEF EngineInv, EngineTypes, Places
  <2>2. Head(jobs) = <<v, w>> BY <2>1
  <2>3. QED BY <2>1, <2>2
<1>. HIDE DEF v, w
<1>3. \A x \in Event, y \in Worker :
        delivered'[x][y] = IF x = v /\ y = w THEN delivered[x][y] + 1 ELSE delivered[x][y]
  BY <1>1, <1>2 DEF Delivered, EngineInv, EngineTypes
<1>4. delivered' \in [Event -> [Worker -> Nat]]
  <2>. DEFINE counts == [y \in Worker |-> IF y \in {w} THEN delivered[v][y] + 1 ELSE delivered[v][y]]
  <2>1. delivered \in [Event -> [Worker -> Nat]]
    BY DEF EngineInv, EngineTypes
  <2>2. counts \in [Worker -> Nat]
    BY <1>2, <2>1
  <2>3. delivered' = [delivered EXCEPT ![v] = counts]
    BY <1>1 DEF Delivered
  <2>. HIDE DEF counts
  <2>4. QED BY <1>2, <2>1, <2>2, <2>3
<1>5. EngineTypes'
  BY <1>1, <1>2, <1>4 DEF EngineInv, EngineTypes
<1>6. delivered[v][w] = 0 /\ ~ Due(v, w) /\ emit[v] = "queued" /\ v \notin Elems(queue)
  BY <1>2 DEF EngineInv, Places
<1>7. \A x \in Event : (Fanning(x)' <=> Fanning(x)) /\ \A y \in Worker : Due(x, y)' <=> Due(x, y)
  BY <1>1 DEF Fanning, Due
<1>8. ASSUME NEW x \in Event, NEW y \in Worker
      PROVE  /\ <<x, y>> \in Elems(jobs') \/ delivered'[x][y] > 0 => emit'[x] = "queued" /\ x \notin Elems(queue')
             /\ Due(x, y)' => <<x, y>> \notin Elems(jobs') /\ delivered'[x][y] = 0
             /\ <<x, y>> \in Elems(jobs') => delivered'[x][y] = 0
             /\ delivered'[x][y] <= 1
  <2>1. CASE x = v /\ y = w
    <3>1. delivered'[x][y] = 1 /\ <<x, y>> \notin Elems(jobs')
      BY <2>1, <1>2, <1>3, <1>6
    <3>2. ~ Due(x, y)' /\ emit'[x] = "queued" /\ x \notin Elems(queue')
      BY <2>1, <1>1, <1>2, <1>6, <1>7
    <3>3. QED BY <3>1, <3>2
  <2>2. CASE ~ (x = v /\ y = w)
    <3>1. delivered'[x][y] = delivered[x][y] BY <2>2, <1>3
    <3>2. QED BY <3>1, <1>1, <1>2, <1>7 DEF EngineInv, Places
  <2>3. QED BY <2>1, <2>2
<1>9. Places'
  BY <1>1, <1>2, <1>7, <1>8 DEF EngineInv, Places
<1>10. QED BY <1>5, <1>9 DEF EngineInv

LEMMA ReceiveKeeps ==
  ASSUME EngineInv, Receive
  PROVE  EngineInv'
<1>. DEFINE h == Head(queue)
<1>1. /\ disp.at = "loop" /\ queue # <<>> /\ queue' = Tail(queue)
      /\ disp' = IF workers = <<>> THEN At("loop") ELSE [at |-> "fan", event |-> h, todo |-> workers]
      /\ UNCHANGED <<running, stopping, workers, jobs, emit, delivered, nextID>>
  BY DEF Receive, ringVars
<1>2. /\ h \in Event /\ h \in Elems(queue) /\ queue' \in Seq(Event) /\ Once(queue')
      /\ Elems(queue') \subseteq Elems(queue) /\ h \notin Elems(queue')
  BY <1>1, TailElems DEF EngineInv, EngineTypes, Places
<1>. HIDE DEF h
<1>3. /\ disp' \in Disp /\ (disp'.at = "fan" => disp'.event \in Event /\ disp'.todo # <<>>)
      /\ Once(disp'.todo) /\ (disp'.at = "fan" => disp'.event = h)
  BY <1>1, <1>2, TypesOf, EmptyElems DEF EngineInv, EngineTypes, Disp, Places
<1>4. EngineTypes'
  BY <1>1, <1>2, <1>3 DEF EngineInv, EngineTypes
<1>5. /\ emit[h] = "queued"
      /\ \A w \in Worker : <<h, w>> \notin Elems(jobs) /\ delivered[h][w] = 0
  BY <1>2 DEF EngineInv, EngineTypes, Places
<1>6. \A x \in Event : (Fanning(x)' => x = h) /\ \A w \in Worker : Due(x, w)' => x = h
  BY <1>3 DEF Fanning, Due
<1>7. Places'
  BY <1>1, <1>2, <1>3, <1>5, <1>6 DEF EngineInv, Places
<1>8. QED BY <1>4, <1>7 DEF EngineInv

LEMMA FanOutKeeps ==
  ASSUME EngineInv, FanOut
  PROVE  EngineInv'
<1>. DEFINE v == disp.event
            w == Head(disp.todo)
<1>1. /\ disp.at = "fan" /\ jobs' = Append(jobs, <<v, w>>)
      /\ disp' = IF Tail(disp.todo) = <<>> THEN At("loop") ELSE [disp EXCEPT !.todo = Tail(@)]
      /\ UNCHANGED <<running, stopping, workers, queue, emit, delivered, nextID>>
  BY DEF FanOut, ringVars
<1>2. v \in Event /\ disp.todo \in Seq(Worker) /\ disp.todo # <<>> /\ disp \in Disp
  BY <1>1, TypesOf DEF EngineInv, EngineTypes
<1>3. /\ w \in Worker /\ w \in Elems(disp.todo) /\ Tail(disp.todo) \in Seq(Worker)
      /\ Once(Tail(disp.todo)) /\ w \notin Elems(Tail(disp.todo))
      /\ Elems(Tail(disp.todo)) \subseteq Elems(disp.todo)
  BY <1>2, TailElems DEF EngineInv, Places
<1>4. Fanning(v) /\ Due(v, w)
  BY <1>1, <1>3 DEF Fanning, Due
<1>5. emit[v] = "queued" /\ v \notin Elems(queue) /\ <<v, w>> \notin Elems(jobs) /\ delivered[v][w] = 0
  BY <1>2, <1>3, <1>4 DEF EngineInv, Places
<1>. HIDE DEF v, w
<1>6. /\ jobs' \in Seq(Event \X Worker) /\ Elems(jobs') = Elems(jobs) \cup {<<v, w>>} /\ Once(jobs')
  <2>. DEFINE S == Event \X Worker
              d == <<v, w>>
  <2>1. d \in S BY <1>2, <1>3
  <2>2. jobs \in Seq(S) /\ Once(jobs) BY DEF EngineInv, EngineTypes, Places
  <2>3. /\ Append(jobs, d) \in Seq(S) /\ Elems(Append(jobs, d)) = Elems(jobs) \cup {d}
        /\ Once(jobs) /\ d \notin Elems(jobs) => Once(Append(jobs, d))
    <3>. HIDE DEF S, d
    <3>1. QED BY <2>1, <2>2, AppendElems
  <2>4. QED BY <2>2, <2>3, <1>1, <1>5
<1>7. /\ disp' \in Disp /\ (disp'.at = "fan" => disp'.event \in Event /\ disp'.todo # <<>>)
      /\ Once(disp'.todo)
      /\ disp'.at = "fan" => disp'.event = v /\ disp'.todo = Tail(disp.todo)
  <2>1. CASE Tail(disp.todo) = <<>>
    BY <2>1, <1>1, TypesOf, EmptyElems DEF EngineInv
  <2>2. CASE Tail(disp.todo) # <<>>
    BY <2>2, <1>1, <1>2, <1>3 DEF Disp, v
  <2>3. QED BY <2>1, <2>2
<1>8. EngineTypes'
  BY <1>1, <1>6, <1>7 DEF EngineInv, EngineTypes
<1>9. \A x \in Event : /\ Fanning(x)' => Fanning(x)
                       /\ \A y \in Worker : Due(x, y)' => Due(x, y) /\ ~ (x = v /\ y = w)
  BY <1>1, <1>3, <1>7 DEF Fanning, Due, v
<1>10. ASSUME NEW x \in Event, NEW y \in Worker
       PROVE  /\ <<x, y>> \in Elems(jobs') \/ delivered'[x][y] > 0 => emit'[x] = "queued" /\ x \notin Elems(queue')
              /\ Due(x, y)' => <<x, y>> \notin Elems(jobs') /\ delivered'[x][y] = 0
              /\ <<x, y>> \in Elems(jobs') => delivered'[x][y] = 0
              /\ delivered'[x][y] <= 1
  <2>1. CASE x = v /\ y = w
    BY <2>1, <1>1, <1>5, <1>9
  <2>2. CASE ~ (x = v /\ y = w)
    <3>1. <<x, y>> \in Elems(jobs') => <<x, y>> \in Elems(jobs) BY <2>2, <1>6
    <3>2. QED BY <3>1, <1>1, <1>9 DEF EngineInv, Places
  <2>3. QED BY <2>1, <2>2
<1>11. Places'
  BY <1>1, <1>6, <1>7, <1>9, <1>10 DEF EngineInv, Places
<1>12. QED BY <1>8, <1>11 DEF EngineInv

LEMMA DrainKeeps ==
  ASSUME EngineInv, Drain
  PROVE  EngineInv'
<1>. DEFINE h == Head(queue)
<1>1. /\ disp.at = "drain" /\ queue # <<>> /\ queue' = Tail(queue)
      /\ delivered' = Delivered(Registered, h)
      /\ UNCHANGED <<running, stopping, workers, jobs, emit, disp, nextID>>
  BY DEF Drain, ringVars
<1>2. /\ h \in Event /\ h \in Elems(queue) /\ queue' \in Seq(Event) /\ Once(queue')
      /\ Elems(queue') \subseteq Elems(queue) /\ h \notin Elems(queue')
  BY <1>1, TailElems DEF EngineInv, EngineTypes, Places
<1>. HIDE DEF h
<1>3. \A x \in Event, y \in Worker :
        delivered'[x][y] = IF x = h /\ y \in Registered THEN delivered[x][y] + 1 ELSE delivered[x][y]
  BY <1>1, <1>2 DEF Delivered, EngineInv, EngineTypes
<1>4. delivered' \in [Event -> [Worker -> Nat]]
  <2>. DEFINE counts == [y \in Worker |-> IF y \in Registered THEN delivered[h][y] + 1 ELSE delivered[h][y]]
  <2>1. delivered \in [Event -> [Worker -> Nat]]
    BY DEF EngineInv, EngineTypes
  <2>2. counts \in [Worker -> Nat]
    BY <1>2, <2>1
  <2>3. delivered' = [delivered EXCEPT ![h] = counts]
    BY <1>1 DEF Delivered
  <2>. HIDE DEF counts
  <2>4. QED BY <1>2, <2>1, <2>2, <2>3
<1>5. EngineTypes'
  BY <1>1, <1>2, <1>4 DEF EngineInv, EngineTypes
<1>6. /\ emit[h] = "queued"
      /\ \A w \in Worker : <<h, w>> \notin Elems(jobs) /\ delivered[h][w] = 0
  BY <1>2 DEF EngineInv, EngineTypes, Places
<1>7. \A x \in Event : ~ Fanning(x)' /\ \A y \in Worker : ~ Due(x, y)'
  BY <1>1 DEF Fanning, Due
<1>8. ASSUME NEW x \in Event, NEW y \in Worker
      PROVE  /\ <<x, y>> \in Elems(jobs') \/ delivered'[x][y] > 0 => emit'[x] = "queued" /\ x \notin Elems(queue')
             /\ <<x, y>> \in Elems(jobs') => delivered'[x][y] = 0
             /\ delivered'[x][y] <= 1
  <2>1. CASE x = h
    BY <2>1, <1>1, <1>2, <1>3, <1>6
  <2>2. CASE x # h
    <3>1. delivered'[x][y] = delivered[x][y] BY <2>2, <1>3
    <3>2. QED BY <3>1, <1>1, <1>2 DEF EngineInv, Places
  <2>3. QED BY <2>1, <2>2
<1>9. Places'
  BY <1>1, <1>2, <1>7, <1>8 DEF EngineInv, Places
<1>10. QED BY <1>5, <1>9 DEF EngineInv

-----------------------------------------------------------------------------
(* The theorems.                                                           *)

\* EngineInv holds in every reachable state of the engine.
THEOREM EngineInvariance == EngineSpec => []EngineInv
<1>1. EngineInv /\ [EngineNext]_engineVars => EngineInv'
  <2>. SUFFICES ASSUME EngineInv, [EngineNext]_engineVars PROVE EngineInv' OBVIOUS
  <2>1. ASSUME NEW v \in Event, Emit(v) PROVE EngineInv' BY <2>1, EmitKeeps
  <2>2. ASSUME NEW v \in Event, Send(v) \/ Block(v) \/ Drop(v) PROVE EngineInv' BY <2>2, SendKeeps
  <2>3. ASSUME NEW w \in Worker, AddWorker(w) \/ RemoveWorker(w) PROVE EngineInv' BY <2>3, WorkersKeep
  <2>4. ASSUME NEW g \in Pool, RunJob(g) PROVE EngineInv' BY <2>4, RunJobKeep
  <2>5. CASE (\E g \in Pool : LeavePool(g)) \/ GiveUpFanOut \/ BeginDrain \/ EndDrain \/ Finish
             \/ StopEngine \/ StopDone \/ UNCHANGED engineVars
    BY <2>5, ControlKeeps
  <2>6. CASE Receive BY <2>6, ReceiveKeeps
  <2>7. CASE FanOut BY <2>7, FanOutKeeps
  <2>8. CASE Drain BY <2>8, DrainKeeps
  <2>9. QED BY <2>1, <2>2, <2>3, <2>4, <2>5, <2>6, <2>7, <2>8 DEF EngineNext, Dispatch
<1>2. QED BY <1>1, EngineInitial, PTL DEF EngineSpec

\* An event reaches a worker at most once, by a job or by the drain, through any
\* stops and restarts of the engine (EventEngine.run, drain).
THEOREM DeliveredOnce == EngineSpec => []AtMostOnce
<1>1. EngineInv => AtMostOnce
  BY DEF EngineInv, Places, AtMostOnce
<1>2. QED BY <1>1, EngineInvariance, PTL

HIDE EngineAssumption

-----------------------------------------------------------------------------
(***************************************************************************)
(* The file observer.  A file without its event has a change of its own on *)
(* the way: in the channel, held back, or in the set that is being         *)
(* emitted.                                                                *)
(***************************************************************************)
USE ObserverAssumption

\* Where a change the observer was told of can be.
Telling == Elems(inbox) \cup Elems(held) \cup emitting

ObserverTypes ==
  /\ inbox \in Seq(Change) /\ held \in Seq(Change) /\ emitting \subseteq Change
  /\ unreported \subseteq WatchedFile

\* Each file without its event has a change of its own among them, and one that
\* says it was removed when it does not exist: only that one makes an event.
Told == \A f \in unreported :
          \E c \in Telling : c.path = f /\ (f \notin tree => "Remove" \in c.op)

ObserverInv == ObserverTypes /\ Told

\* The watcher's channel takes more notices.
LEMMA ConcatElems ==
  ASSUME NEW S, NEW s \in Seq(S), NEW t \in Seq(S)
  PROVE  s \o t \in Seq(S) /\ Elems(s \o t) = Elems(s) \cup Elems(t)
<1>1. /\ s \o t \in Seq(S) /\ Len(s \o t) = Len(s) + Len(t)
      /\ \A i \in 1..(Len(s) + Len(t)) : (s \o t)[i] = IF i <= Len(s) THEN s[i] ELSE t[i - Len(s)]
  BY ConcatProperties
<1>2. Len(s) \in Nat /\ Len(t) \in Nat
  BY LenProperties
<1>3. \A i \in 1..Len(s) : i \in 1..(Len(s) + Len(t)) /\ (s \o t)[i] = s[i]
  BY <1>1, <1>2
<1>4. \A i \in 1..Len(t) : i + Len(s) \in 1..(Len(s) + Len(t)) /\ (s \o t)[i + Len(s)] = t[i]
  <2>1. TAKE i \in 1..Len(t)
  <2>2. i + Len(s) \in 1..(Len(s) + Len(t)) /\ ~(i + Len(s) <= Len(s)) /\ (i + Len(s)) - Len(s) = i
    BY <1>2
  <2>3. QED BY <1>1, <2>2
<1>5. \A i \in 1..(Len(s) + Len(t)) : (i \in 1..Len(s) /\ (s \o t)[i] = s[i])
                                     \/ (i - Len(s) \in 1..Len(t) /\ (s \o t)[i] = t[i - Len(s)])
  BY <1>1, <1>2
<1>6. DOMAIN s = 1..Len(s) /\ DOMAIN t = 1..Len(t) /\ DOMAIN (s \o t) = 1..(Len(s) + Len(t))
  BY <1>1, LenProperties
<1>7. Elems(s) \subseteq Elems(s \o t) BY <1>3, <1>6 DEF Elems
<1>8. Elems(t) \subseteq Elems(s \o t) BY <1>4, <1>6 DEF Elems
<1>9. Elems(s \o t) \subseteq Elems(s) \cup Elems(t) BY <1>5, <1>6 DEF Elems
<1>10. QED BY <1>1, <1>7, <1>8, <1>9

\* A change of the tree, with the notices of it: no invariant is lost if it tells of
\* a file that is gone that it was removed.
LEMMA TreeTells ==
  ASSUME ObserverInv, NEW told \in Seq(Change), Noticed(told), UNCHANGED <<held, emitting>>,
         \A c \in Elems(told) : c.path \in WatchedFile \cap tree' \/ c.path \notin WatchedFile
                                  \/ "Remove" \in c.op
  PROVE  ObserverInv'
<1>1. inbox' \in Seq(Change) /\ Elems(inbox') = Elems(inbox) \cup Elems(told)
  BY ConcatElems DEF Noticed, ObserverInv, ObserverTypes
<1>2. ASSUME NEW f \in unreported'
      PROVE  \E c \in Telling' : c.path = f /\ (f \notin tree' => "Remove" \in c.op)
  <2>1. CASE f \in {told[i].path : i \in DOMAIN told} \cap WatchedFile
    <3>1. PICK c \in Elems(told) : c.path = f
      BY <2>1 DEF Elems
    <3>2. f \notin tree' => "Remove" \in c.op
      BY <2>1, <3>1
    <3>3. c \in Telling'
      BY <1>1, <3>1 DEF Telling
    <3>4. QED BY <3>1, <3>2, <3>3
  <2>2. CASE f \in unreported /\ f \notin tree \ tree'
    <3>1. PICK c \in Telling : c.path = f /\ (f \notin tree => "Remove" \in c.op)
      BY <2>2 DEF ObserverInv, Told
    <3>2. c \in Telling'
      BY <1>1, <3>1 DEF Telling
    <3>3. QED BY <2>2, <3>1, <3>2
  <2>3. QED BY <1>2, <2>1, <2>2 DEF Noticed
<1>3. unreported' \subseteq WatchedFile
  BY DEF Noticed, ObserverInv, ObserverTypes
<1>4. QED BY <1>1, <1>2, <1>3 DEF ObserverInv, ObserverTypes, Told

LEMMA NoticeIs ==
  ASSUME NEW p \in TreePath, NEW o \in Op
  PROVE  Notice(p, o) \in Change /\ Notice(p, o).path = p /\ Notice(p, o).op = {o}
BY DEF Notice, Change

LEMMA OneElem ==
  ASSUME NEW S, NEW x \in S
  PROVE  <<x>> \in Seq(S) /\ Elems(<<x>>) = {x}
<1>1. <<x>> \in Seq(S) /\ DOMAIN <<x>> = {1} /\ <<x>>[1] = x
  OBVIOUS
<1>2. QED BY <1>1 DEF Elems

LEMMA TreeChanges == ASSUME ObserverInv, ChangeTree PROVE ObserverInv'
<1>1. UNCHANGED <<held, emitting>> /\ WatchedFile \subseteq TreePath /\ Dir \subseteq TreePath
      /\ {"Create", "Write", "Remove"} = Op
  BY DEF ChangeTree, loopVars, TreePath, Op
<1>2. ASSUME NEW f \in WatchedFile, ChangeFile(f) PROVE ObserverInv'
  <2>1. PICK o \in Op :
          /\ tree' = IF o = "Remove" THEN tree \ {f} ELSE tree \cup {f}
          /\ Noticed(IF DirOf[f] \in kernel THEN <<Notice(f, o)>> ELSE <<>>)
    BY <1>1, <1>2 DEF ChangeFile
  <2>2. CASE DirOf[f] \in kernel
    <3>1. <<Notice(f, o)>> \in Seq(Change) /\ Elems(<<Notice(f, o)>>) = {Notice(f, o)}
      BY <1>1, NoticeIs, OneElem
    <3>2. Notice(f, o).path = f /\ (f \notin tree' => "Remove" \in Notice(f, o).op)
      BY <1>1, <2>1, NoticeIs
    <3>3. Noticed(<<Notice(f, o)>>)
      BY <2>1, <2>2
    <3>4. QED BY <1>1, <3>1, <3>2, <3>3, TreeTells
  <2>3. CASE DirOf[f] \notin kernel
    <3>1. <<>> \in Seq(Change) /\ Elems(<<>>) = {} /\ Noticed(<<>>)
      BY <2>1, <2>3, EmptyElems
    <3>2. QED BY <1>1, <3>1, TreeTells
  <2>4. QED BY <2>2, <2>3
<1>3. ASSUME NEW d \in Dir, MakeDir(d) PROVE ObserverInv'
  <2>1. <<Notice(d, "Create")>> \in Seq(Change) /\ Elems(<<Notice(d, "Create")>>) = {Notice(d, "Create")}
        /\ Notice(d, "Create").path = d
    BY <1>1, NoticeIs, OneElem
  <2>2. QED BY <1>1, <1>3, <2>1, TreeTells DEF MakeDir
<1>4. ASSUME NEW d \in Dir, RemoveDir(d) PROVE ObserverInv'
  <2>. DEFINE files == {f \in tree \cap WatchedFile : DirOf[f] = d}
              gone == IF d \in kernel THEN files ELSE {}
  <2>1. PICK order \in [1..Cardinality(gone) -> gone] :
          Noticed([i \in DOMAIN order |-> Notice(order[i], "Remove")] \o <<Notice(d, "Remove")>>)
    BY <1>4 DEF RemoveDir
  <2>. DEFINE first == [i \in DOMAIN order |-> Notice(order[i], "Remove")]
              last == <<Notice(d, "Remove")>>
  <2>2. gone \subseteq WatchedFile /\ Cardinality(gone) \in Nat
    BY FS_Subset, FS_CardinalityType
  <2>3. \A i \in DOMAIN order : first[i] \in Change /\ "Remove" \in first[i].op
    <3>1. TAKE i \in DOMAIN order
    <3>2. order[i] \in TreePath /\ "Remove" \in Op BY <1>1, <2>1, <2>2
    <3>3. Notice(order[i], "Remove") \in Change /\ Notice(order[i], "Remove").op = {"Remove"}
      BY <3>2, NoticeIs
    <3>4. first[i] = Notice(order[i], "Remove") OBVIOUS
    <3>5. QED BY <3>3, <3>4
  <2>4. first \in Seq(Change) /\ \A c \in Elems(first) : "Remove" \in c.op
    <3>1. first \in [1..Cardinality(gone) -> Change]
      BY <2>3
    <3>2. first \in Seq(Change)
      <4>1. \A n \in Nat : [1..n -> Change] \subseteq Seq(Change) BY SeqDef
      <4>2. QED BY <2>2, <3>1, <4>1
    <3>3. DOMAIN first = DOMAIN order
      OBVIOUS
    <3>4. QED BY <2>3, <3>2, <3>3 DEF Elems
  <2>5. last \in Seq(Change) /\ Elems(last) = {Notice(d, "Remove")} /\ "Remove" \in Notice(d, "Remove").op
    BY <1>1, NoticeIs, OneElem
  <2>. HIDE DEF first, last
  <2>6. first \o last \in Seq(Change) /\ \A c \in Elems(first \o last) : "Remove" \in c.op
    BY <2>4, <2>5, ConcatElems
  <2>7. Noticed(first \o last)
    BY <2>1 DEF first, last
  <2>8. QED BY <1>1, <2>6, <2>7, TreeTells
<1>5. QED BY <1>2, <1>3, <1>4 DEF ChangeTree

\* Every change of before is still there, or one with more ops of the same path.
LEMMA StillTold ==
  ASSUME ObserverInv, ObserverTypes', UNCHANGED <<tree, unreported>>,
         \A c \in Telling : \E e \in Telling' : e.path = c.path /\ c.op \subseteq e.op
  PROVE  ObserverInv'
<1>1. ASSUME NEW f \in unreported
      PROVE  \E e \in Telling' : e.path = f /\ (f \notin tree => "Remove" \in e.op)
  <2>1. PICK c \in Telling : c.path = f /\ (f \notin tree => "Remove" \in c.op)
    BY DEF ObserverInv, Told
  <2>2. PICK e \in Telling' : e.path = c.path /\ c.op \subseteq e.op
    OBVIOUS
  <2>3. QED BY <2>1, <2>2
<1>2. QED BY <1>1 DEF ObserverInv, Told

LEMMA FoldElems ==
  ASSUME ObserverTypes, inbox # <<>>, NEW i \in DOMAIN held, Fold(i)
  PROVE  /\ held' \in Seq(Change)
         /\ \A c \in Elems(held) \cup {Head(inbox)} :
              \E e \in Elems(held') : e.path = c.path /\ c.op \subseteq e.op
<1>. DEFINE n == Head(inbox)
            e == [n EXCEPT !.op = @ \cup held[i].op]
            cut == SubSeq(held, 1, i - 1) \o SubSeq(held, i + 1, Len(held))
<1>1. n \in Change /\ held[i] \in Change /\ held \in Seq(Change)
  BY TailElems, ElemsOf DEF ObserverTypes, Elems
<1>2. e \in Change /\ e.path = n.path /\ e.op = n.op \cup held[i].op
  BY <1>1 DEF Change
<1>3. cut \in Seq(Change) /\ \A c \in Elems(held) : c \in Elems(cut) \/ c = held[i]
  BY <1>1, CutElems, Zenon
<1>4. held' = Append(cut, e) /\ held[i].path = n.path
  BY DEF Fold
<1>. HIDE DEF e, cut
<1>5. held' \in Seq(Change) /\ Elems(held') = Elems(cut) \cup {e}
  BY <1>2, <1>3, <1>4, AppendElems
<1>6. QED BY <1>2, <1>3, <1>4, <1>5

LEMMA EventHandled == ASSUME ObserverInv, handleEvent PROVE ObserverInv'
<1>. DEFINE n == Head(inbox)
<1>1. /\ emitting = {} /\ inbox # <<>> /\ inbox' = Tail(inbox) /\ UNCHANGED <<tree, unreported>>
  BY DEF handleEvent, treeVars
<1>2. /\ inbox' \in Seq(Change) /\ n \in Change /\ Elems(inbox) = Elems(inbox') \cup {n}
      /\ unreported' \subseteq WatchedFile
  BY <1>1, TailElems DEF ObserverInv, ObserverTypes
<1>3. ASSUME NEW i \in DOMAIN held, Fold(i), emitting' = {} PROVE ObserverInv'
  <2>1. /\ held' \in Seq(Change)
        /\ \A c \in Elems(held) \cup {n} : \E e \in Elems(held') : e.path = c.path /\ c.op \subseteq e.op
    BY <1>1, <1>3, FoldElems DEF ObserverInv
  <2>2. ObserverTypes'
    BY <1>2, <1>3, <2>1 DEF ObserverTypes
  <2>. HIDE DEF n
  <2>3. \A c \in Telling : \E e \in Telling' : e.path = c.path /\ c.op \subseteq e.op
    BY <1>1, <1>2, <2>1 DEF Telling
  <2>4. QED BY <1>1, <2>2, <2>3, StillTold
<1>4. ASSUME held' = Append(held, n), emitting' = {} PROVE ObserverInv'
  <2>1. held' \in Seq(Change) /\ Elems(held') = Elems(held) \cup {n}
    BY <1>2, <1>4, AppendElems DEF ObserverInv, ObserverTypes
  <2>2. ObserverTypes' /\ Telling \subseteq Telling'
    BY <1>1, <1>2, <1>4, <2>1 DEF ObserverTypes, Telling
  <2>3. QED BY <1>1, <2>2, StillTold
<1>5. ASSUME held # <<>>, held' = Append(Tail(held), n), emitting' = {Head(held)} PROVE ObserverInv'
  <2>1. /\ Tail(held) \in Seq(Change) /\ Head(held) \in Change
        /\ Elems(held) = Elems(Tail(held)) \cup {Head(held)}
    BY <1>5, TailElems DEF ObserverInv, ObserverTypes
  <2>2. held' \in Seq(Change) /\ Elems(held') = Elems(Tail(held)) \cup {n}
    <3>1. \A t \in Seq(Change), x \in Change :
            Append(t, x) \in Seq(Change) /\ Elems(Append(t, x)) = Elems(t) \cup {x}
      BY AppendElems
    <3>2. QED BY <1>2, <1>5, <2>1, <3>1, Zenon
  <2>3. ObserverTypes' /\ Telling \subseteq Telling'
    BY <1>1, <1>2, <1>5, <2>1, <2>2 DEF ObserverTypes, Telling
  <2>4. QED BY <1>1, <2>3, StillTold
<1>6. Len(held) >= maxPending => held # <<>>
  <2>1. maxPending \in Nat \ {0} OBVIOUS
  <2>2. QED BY <2>1, LenProperties DEF ObserverInv, ObserverTypes
<1>7. QED BY <1>3, <1>4, <1>5, <1>6 DEF handleEvent

\* A flush moves changes from the pending map to those being emitted.
LEMMA Flushed ==
  ASSUME ObserverInv, LastFlush \/ \E n \in DOMAIN held : flush(n)
  PROVE  ObserverInv'
<1>1. emitting = {} /\ UNCHANGED <<tree, inbox, unreported>> /\ held \in Seq(Change)
      /\ Elems(held) \subseteq Change
  BY ElemsOf DEF LastFlush, flush, treeVars, ObserverInv, ObserverTypes
<1>2. CASE LastFlush
  <2>1. held' = <<>> /\ held' \in Seq(Change) /\ emitting' = Elems(held)
    BY <1>2, EmptySeq DEF LastFlush, Elems
  <2>2. ObserverTypes' /\ Telling \subseteq Telling'
    BY <1>1, <2>1 DEF ObserverInv, ObserverTypes, Telling
  <2>3. QED BY <1>1, <2>2, StillTold
<1>3. ASSUME NEW n \in DOMAIN held, flush(n) PROVE ObserverInv'
  <2>1. emitting' = {held[i] : i \in 1..n} /\ held' = SubSeq(held, n + 1, Len(held))
    BY <1>3 DEF flush
  <2>2. Len(held) \in Nat /\ DOMAIN held = 1..Len(held) /\ n \in 1..Len(held)
    BY <1>1, LenProperties
  <2>3. held' \in Seq(Change) /\ Len(held') = Len(held) - n
        /\ \A k \in 1..(Len(held) - n) : held'[k] = held[n + k]
    <3>1. n \in 0..Len(held) BY <2>2
    <3>2. QED BY <1>1, <2>1, <3>1, Rest
  <2>4. \A i \in DOMAIN held : i \in 1..n \/ (i - n \in DOMAIN held' /\ held'[i - n] = held[i])
    BY <2>2, <2>3, LenProperties
  <2>5. Elems(held) \subseteq Elems(held') \cup emitting'
    BY <2>1, <2>4 DEF Elems
  <2>6. emitting' \subseteq Elems(held)
    BY <2>1, <2>2 DEF Elems
  <2>7. ObserverTypes' /\ Telling \subseteq Telling'
    BY <1>1, <2>3, <2>5, <2>6 DEF ObserverInv, ObserverTypes, Telling
  <2>8. QED BY <1>1, <2>7, StillTold
<1>4. QED BY <1>2, <1>3

LEMMA Emitted == ASSUME ObserverInv, emitForPath PROVE ObserverInv'
<1>1. PICK change \in emitting : emitting' = emitting \ {change} /\ (emitFile(change) \/ emitDir(change))
  BY DEF emitForPath
<1>2. UNCHANGED <<tree, inbox, held>>
  BY DEF emitForPath, treeVars
<1>3. ObserverTypes'
  BY <1>1, <1>2 DEF ObserverInv, ObserverTypes, emitFile, emitDir
<1>4. ASSUME NEW f \in unreported'
      PROVE  \E c \in Telling' : c.path = f /\ (f \notin tree' => "Remove" \in c.op)
  <2>1. f \in unreported /\ (f # change.path \/ (f \notin tree /\ "Remove" \notin change.op))
    <3>1. CASE emitFile(change)
      BY <1>4, <3>1 DEF emitFile, EmitsEvent
    <3>2. CASE emitDir(change)
      BY <1>4, <3>2 DEF emitDir, ObserverInv, ObserverTypes
    <3>3. QED BY <1>1, <3>1, <3>2
  <2>2. PICK c \in Telling : c.path = f /\ (f \notin tree => "Remove" \in c.op)
    BY <2>1 DEF ObserverInv, Told
  <2>3. c # change
    BY <2>1, <2>2
  <2>4. c \in Telling'
    BY <1>1, <1>2, <2>2, <2>3 DEF Telling
  <2>5. QED BY <1>2, <2>2, <2>4
<1>5. QED BY <1>3, <1>4 DEF ObserverInv, Told

\* ObserverInv holds in every reachable state of the observer.
THEOREM ObserverInvariance == ObserverSpec => []ObserverInv
<1>1. ObserverInit => ObserverInv
  BY EmptySeq DEF ObserverInit, ObserverInv, ObserverTypes, Told
<1>2. ObserverInv /\ [ObserverNext]_observerVars => ObserverInv'
  <2>1. ASSUME ObserverInv, EndLoop \/ UNCHANGED observerVars PROVE ObserverInv'
    BY <2>1 DEF EndLoop, observerVars, treeVars, loopVars, ObserverInv, ObserverTypes, Told, Telling
  <2>2. QED BY <2>1, TreeChanges, EventHandled, Flushed, Emitted DEF ObserverNext
<1>3. QED BY <1>1, <1>2, PTL DEF ObserverSpec

\* A change the observer was told of is not dropped (Observer.handleEvent, flush):
\* until an event follows it is in the watcher's channel, pending or about to be
\* emitted, whatever becomes of the tree and however small the pending map is.
THEOREM NoNoticeDropped == ObserverSpec => []NoticesKept
<1>1. ObserverInv => NoticesKept
  BY DEF ObserverInv, Told, Telling, Elems, NoticesKept, Mentions
<1>2. QED BY <1>1, ObserverInvariance, PTL

HIDE ObserverAssumption

-----------------------------------------------------------------------------
(***************************************************************************)
(* The ring buffer is a queue, for a ring of any size and any number of    *)
(* goroutines that take from it: between the producer's write of a slot    *)
(* and its store of the tail, and a consumer's read of a slot and its      *)
(* store of the head, nothing is overwritten, lost or taken twice.         *)
(***************************************************************************)
USE RuntimeQueueAssumption

ProducerStep == {"ready", "load", "write", "store"}
Inside == {"look", "looked", "take", "taken"}
ConsumerStep == Inside \cup {"poll", "process", "empty", "ended"}

\* How far a slot is from the head.
Pos(s) == IF s >= qHead THEN s - qHead ELSE s - qHead + Capacity
\* The slots from the head whose chunk is taken already, and the chunks taken before them.
Gone == IF Taking = {} THEN 0 ELSE 1
Base == Len(taken) - Gone

QueueTypeOK ==
  /\ slots \in [Slot -> Nat] /\ qHead \in Slot /\ qTail \in Slot
  /\ producer \in [at : ProducerStep, tail : Slot, chunk : Nat]
  /\ consumer \in [Consumer -> [at : ConsumerStep, head : Slot, batch : Seq(Nat)]]
  /\ captured \in Seq(Nat) /\ taken \in Seq(Nat) /\ captures \in Nat

\* Who holds the lock is inside and has the head; the producer's slot is free.
StepsInv ==
  /\ \A w \in Consumer :
       /\ consumer[w].at \in Inside => holder = w
       /\ consumer[w].at \in Inside \ {"look"} => consumer[w].head = qHead
       /\ consumer[w].at \in {"take", "taken"} => qHead # qTail
       /\ consumer[w].at = "process" => consumer[w].batch # <<>>
  /\ producer.at \in {"write", "store"} => producer.tail = qTail /\ After(qTail) # qHead
  /\ producer.at = "store" => slots[qTail] = producer.chunk

\* Slot by slot, the ring holds what was captured and not taken.
RingInv ==
  /\ Gone <= Len(taken)
  /\ Len(captured) = Base + Pos(qTail)
  /\ \A i \in 1..Len(taken) : taken[i] = captured[i]
  /\ \A s \in Slot : Gone <= Pos(s) /\ Pos(s) < Pos(qTail) => slots[s] = captured[Base + Pos(s) + 1]

QueueInv == QueueTypeOK /\ StepsInv /\ RingInv

-----------------------------------------------------------------------------
(* Positions.                                                              *)

LEMMA SlotRange == 0 \in Slot /\ Slot \subseteq Nat /\ \A i \in Slot : i < Capacity
BY DEF Slot

LEMMA AfterSlot ==
  \A i \in Slot : After(i) = (IF i = Capacity - 1 THEN 0 ELSE i + 1) /\ After(i) \in Slot
<1>. TAKE i \in Slot
<1>1. i = Capacity - 1 => (i + 1) % Capacity = 0 BY DEF Slot
<1>2. i # Capacity - 1 => (i + 1) % Capacity = i + 1 BY DEF Slot
<1>3. QED BY <1>1, <1>2 DEF After, Slot

\* The slot at a distance from the head.
LEMMA SlotAt ==
  ASSUME qHead \in Slot, NEW j \in Slot
  PROVE  (qHead + j) % Capacity \in Slot /\ Pos((qHead + j) % Capacity) = j
<1>1. qHead + j < Capacity => (qHead + j) % Capacity = qHead + j BY DEF Slot
<1>2. qHead + j >= Capacity => (qHead + j) % Capacity = qHead + j - Capacity BY DEF Slot
<1>3. QED BY <1>1, <1>2 DEF Slot, Pos

LEMMA LengthIsPos ==
  ASSUME qHead \in Slot, qTail \in Slot
  PROVE  Length = Pos(qTail)
<1>1. qTail >= qHead => (qTail - qHead + Capacity) % Capacity = qTail - qHead BY DEF Slot
<1>2. qTail < qHead => (qTail - qHead + Capacity) % Capacity = qTail - qHead + Capacity BY DEF Slot
<1>3. QED BY <1>1, <1>2 DEF Slot, Pos, Length

\* Distances are different, and grow by one from slot to slot up to the head.
LEMMA Positions ==
  ASSUME qHead \in Slot
  PROVE  /\ \A s \in Slot : Pos(s) \in Slot /\ (Pos(s) = 0 <=> s = qHead)
         /\ \A s, r \in Slot : Pos(s) = Pos(r) => s = r
         /\ \A s \in Slot : After(s) # qHead => Pos(After(s)) = Pos(s) + 1
BY AfterSlot DEF Pos, Slot

-----------------------------------------------------------------------------

\* Where the slots' chunks are those captured, the ring is a queue.
LEMMA RingOfInv == QueueInv => RingIsQueue
<1>. SUFFICES ASSUME QueueInv PROVE taken \o Held = captured
  BY DEF RingIsQueue
<1>. DEFINE n == Length - Gone
<1>1. /\ Length = Pos(qTail) /\ Length \in Slot /\ Gone \in {0, 1}
      /\ Taking # {} => Length # 0
  BY LengthIsPos, Positions DEF QueueInv, QueueTypeOK, StepsInv, Gone, Taking
<1>2. n \in Nat /\ n < Capacity BY <1>1 DEF Slot, Gone
<1>3. /\ Held = [i \in 1..n |-> slots[(qHead + Gone + i - 1) % Capacity]]
      /\ Len(captured) = Len(taken) + n
  <2>1. Held = [i \in 1..n |-> slots[(qHead + Gone + i - 1) % Capacity]]
    BY Zenon DEF Held, Gone
  <2>2. Len(captured) = Len(taken) - Gone + Length /\ Len(taken) \in Nat
    BY <1>1 DEF QueueInv, RingInv, Base, QueueTypeOK
  <2>3. QED BY <1>1, <2>1, <2>2 DEF Slot
<1>4. ASSUME NEW i \in 1..n
      PROVE  /\ slots[(qHead + Gone + i - 1) % Capacity] = captured[Len(taken) + i]
             /\ slots[(qHead + Gone + i - 1) % Capacity] \in Nat
  <2>. DEFINE j == Gone + i - 1
              s == (qHead + j) % Capacity
  <2>1. j \in Slot /\ j < Length BY <1>1, <1>2 DEF Slot
  <2>2. s \in Slot /\ Pos(s) = j BY <2>1, SlotAt DEF QueueInv, QueueTypeOK
  <2>3. slots[s] = captured[Base + j + 1]
    BY <1>1, <2>1, <2>2 DEF QueueInv, RingInv, Slot
  <2>4. Base + j + 1 = Len(taken) + i /\ qHead + j = qHead + Gone + i - 1
    BY <1>1 DEF Base, QueueInv, QueueTypeOK, Slot
  <2>5. QED BY <2>2, <2>3, <2>4 DEF QueueInv, QueueTypeOK
<1>5. Held \in Seq(Nat) /\ Len(Held) = n /\ \A i \in 1..n : Held[i] = captured[Len(taken) + i]
  BY <1>2, <1>3, <1>4
<1>. HIDE DEF n
<1>6. /\ taken \in Seq(Nat) /\ captured \in Seq(Nat)
      /\ \A i \in 1..Len(taken) : taken[i] = captured[i]
  BY DEF QueueInv, QueueTypeOK, RingInv
<1>7. taken \o Held \in Seq(Nat) /\ Len(taken \o Held) = Len(taken) + n
      /\ \A i \in 1..(Len(taken) + n) :
           (taken \o Held)[i] = IF i <= Len(taken) THEN taken[i] ELSE Held[i - Len(taken)]
  <2>. DEFINE rest == Held
  <2>1. rest \in Seq(Nat) /\ Len(rest) = n BY <1>5
  <2>. HIDE DEF rest
  <2>2. /\ taken \o rest \in Seq(Nat) /\ Len(taken \o rest) = Len(taken) + Len(rest)
        /\ \A i \in 1..(Len(taken) + Len(rest)) :
             (taken \o rest)[i] = IF i <= Len(taken) THEN taken[i] ELSE rest[i - Len(taken)]
    BY <1>6, <2>1, ConcatProperties
  <2>3. QED BY <2>1, <2>2 DEF rest
<1>8. ASSUME NEW i \in 1..(Len(taken) + n) PROVE (taken \o Held)[i] = captured[i]
  <2>1. CASE i <= Len(taken)
    <3>1. (taken \o Held)[i] = taken[i] BY <1>7, <2>1
    <3>2. i \in 1..Len(taken) BY <1>2, <1>6, <2>1
    <3>3. QED BY <1>6, <3>1, <3>2
  <2>2. CASE i > Len(taken)
    <3>1. (taken \o Held)[i] = Held[i - Len(taken)] BY <1>5, <1>6, <1>7, <2>2
    <3>2. i - Len(taken) \in 1..n /\ Len(taken) + (i - Len(taken)) = i
      BY <1>2, <1>6, <2>2
    <3>3. QED BY <1>5, <3>1, <3>2
  <2>3. i <= Len(taken) \/ i > Len(taken) BY <1>2, <1>6
  <2>4. QED BY <2>1, <2>2, <2>3, Zenon
<1>9. QED BY <1>3, <1>6, <1>7, <1>8, SeqEqual

LEMMA QueueInitial == QueueInit => QueueInv
BY SlotRange DEF QueueInit, QueueInv, QueueTypeOK, StepsInv, RingInv, Ready, Polling, NoChunk,
   ProducerStep, ConsumerStep, Inside, Gone, Base, Taking, Pos, Slot

\* One goroutine at most is inside, the one that holds the lock.
LEMMA OneInside ==
  ASSUME QueueInv, NEW w \in Consumer, consumer[w].at \in Inside
  PROVE  holder = w /\ \A x \in Consumer \ {w} : consumer[x].at \notin Inside
BY DEF QueueInv, StepsInv

\* What was taken is among what was captured.
LEMMA TakenLength ==
  ASSUME QueueInv
  PROVE  /\ Gone \in {0, 1} /\ Pos(qTail) \in Slot /\ Gone <= Pos(qTail)
         /\ Base \in Nat /\ Len(taken) = Base + Gone /\ Len(taken) <= Len(captured)
<1>1. Gone \in {0, 1} /\ (Gone = 1 => Taking # {}) BY DEF Gone
<1>2. Taking # {} => qHead # qTail BY DEF QueueInv, StepsInv, Taking
<1>3. Pos(qTail) \in Slot /\ (Gone = 1 => Pos(qTail) # 0)
  BY <1>1, <1>2, Positions DEF QueueInv, QueueTypeOK
<1>4. Len(taken) \in Nat /\ Len(captured) = Len(taken) - Gone + Pos(qTail) /\ Gone <= Len(taken)
  BY DEF QueueInv, QueueTypeOK, RingInv, Base
<1>5. QED BY <1>1, <1>3, <1>4 DEF Base, Slot

\* A step that leaves the head, and who is between its read and its store, leaves
\* the positions.
LEMMA SamePositions ==
  ASSUME qHead' = qHead, taken' = taken,
         \A x \in Consumer : consumer'[x].at = "taken" <=> consumer[x].at = "taken"
  PROVE  Gone' = Gone /\ Base' = Base /\ \A s \in Slot : (Pos(s))' = Pos(s)
<1>1. Taking' = Taking BY DEF Taking
<1>2. Gone' = Gone BY <1>1, Zenon DEF Gone
<1>3. QED BY <1>2 DEF Base, Pos

LEMMA WriteKeeps == QueueInv /\ WriteSlot => QueueInv'
<1>. SUFFICES ASSUME QueueInv, WriteSlot PROVE QueueInv'
  OBVIOUS
<1>1. producer.at = "write" /\ producer.tail = qTail /\ After(qTail) # qHead
  BY DEF WriteSlot, QueueInv, StepsInv
<1>2. slots' = [slots EXCEPT ![qTail] = producer.chunk] /\ qTail \in Slot
      /\ UNCHANGED <<qHead, qTail, qClosed, holder, consumer, captured, taken, captures>>
  BY <1>1 DEF WriteSlot, QueueInv, QueueTypeOK
<1>3. QueueTypeOK'
  BY <1>2 DEF QueueInv, QueueTypeOK, WriteSlot, ProducerStep
<1>4. StepsInv'
  BY <1>1, <1>2 DEF QueueInv, QueueTypeOK, StepsInv, WriteSlot, After
<1>5. Gone' = Gone /\ Base' = Base /\ \A s \in Slot : (Pos(s))' = Pos(s)
  BY <1>2, SamePositions
<1>6. (Pos(qTail))' = Pos(qTail) BY <1>2 DEF Pos
<1>7. RingInv'
  <2>1. ASSUME NEW s \in Slot, Gone <= Pos(s), Pos(s) < Pos(qTail)
        PROVE  slots'[s] = captured[Base + Pos(s) + 1]
    <3>1. s # qTail /\ Pos(s) \in Slot /\ Pos(qTail) \in Slot
      BY <1>2, <2>1, Positions DEF QueueInv, QueueTypeOK, Slot
    <3>2. QED BY <1>2, <2>1, <3>1 DEF QueueInv, QueueTypeOK, RingInv
  <2>2. QED BY <1>2, <1>5, <1>6, <2>1 DEF QueueInv, RingInv
<1>8. QED BY <1>3, <1>4, <1>7 DEF QueueInv

LEMMA StoreKeeps == QueueInv /\ StoreTail => QueueInv'
<1>. SUFFICES ASSUME QueueInv, StoreTail PROVE QueueInv'
  OBVIOUS
<1>1. /\ producer.at = "store" /\ producer.tail = qTail /\ After(qTail) # qHead
      /\ slots[qTail] = producer.chunk /\ producer.chunk \in Nat
      /\ qTail \in Slot /\ qHead \in Slot /\ After(qTail) \in Slot
  BY AfterSlot DEF StoreTail, QueueInv, QueueTypeOK, StepsInv
<1>2. /\ qTail' = After(qTail) /\ captured' = Append(captured, producer.chunk) /\ producer' = Ready
      /\ UNCHANGED <<slots, qHead, holder, consumer, taken, captures>>
  BY <1>1 DEF StoreTail
<1>3. captured \in Seq(Nat) /\ captured' \in Seq(Nat) /\ Len(captured') = Len(captured) + 1
      /\ captured'[Len(captured) + 1] = producer.chunk
      /\ \A i \in 1..Len(captured) : captured'[i] = captured[i]
  BY <1>1, <1>2, AppendProperties DEF QueueInv, QueueTypeOK
<1>4. QueueTypeOK'
  BY <1>1, <1>2, <1>3, SlotRange DEF QueueInv, QueueTypeOK, Ready, ProducerStep, NoChunk
<1>5. StepsInv'
  BY <1>1, <1>2 DEF QueueInv, StepsInv, Ready
<1>6. Gone' = Gone /\ Base' = Base /\ \A s \in Slot : (Pos(s))' = Pos(s)
  BY <1>2, SamePositions
<1>7. (Pos(qTail))' = Pos(qTail) + 1
  <2>1. (Pos(qTail))' = Pos(After(qTail)) BY <1>2 DEF Pos
  <2>2. QED BY <1>1, <2>1, Positions
<1>8. RingInv'
  <2>1. Len(captured') = Base + (Pos(qTail) + 1)
    BY <1>3, TakenLength DEF QueueInv, RingInv, Slot
  <2>2. \A i \in 1..Len(taken) : taken[i] = captured'[i]
    <3>1. Len(taken) \in Nat /\ Len(captured) \in Nat /\ Len(taken) <= Len(captured)
      BY <1>3, TakenLength DEF QueueInv, QueueTypeOK
    <3>2. QED BY <1>3, <3>1 DEF QueueInv, RingInv
  <2>3. ASSUME NEW s \in Slot, Gone <= Pos(s), Pos(s) < Pos(qTail) + 1
        PROVE  slots[s] = captured'[Base + Pos(s) + 1]
    <3>1. Pos(s) \in Slot /\ Pos(qTail) \in Slot /\ (Pos(s) = Pos(qTail) => s = qTail)
      BY <1>1, Positions
    <3>2. Base \in Nat /\ Len(captured) = Base + Pos(qTail)
      BY TakenLength DEF QueueInv, RingInv
    <3>3. CASE Pos(s) = Pos(qTail)
      BY <1>1, <1>3, <3>1, <3>2, <3>3
    <3>4. CASE Pos(s) < Pos(qTail)
      <4>1. slots[s] = captured[Base + Pos(s) + 1] BY <2>3, <3>4 DEF QueueInv, RingInv
      <4>2. Base + Pos(s) + 1 \in 1..Len(captured) BY <3>1, <3>2, <3>4 DEF Slot
      <4>3. QED BY <1>3, <4>1, <4>2
    <3>5. QED BY <2>3, <3>1, <3>3, <3>4 DEF Slot
  <2>4. QED BY <1>2, <1>6, <1>7, <2>1, <2>2, <2>3 DEF QueueInv, RingInv
<1>9. QED BY <1>4, <1>5, <1>8 DEF QueueInv

\* A step that leaves the ring and what was taken, and who is between its read and
\* its store, leaves RingInv.
LEMMA SameRing ==
  ASSUME QueueInv, UNCHANGED <<slots, qHead, qTail, captured, taken>>,
         \A x \in Consumer : consumer'[x].at = "taken" <=> consumer[x].at = "taken"
  PROVE  RingInv'
<1>1. Gone' = Gone /\ Base' = Base /\ \A s \in Slot : (Pos(s))' = Pos(s)
  BY SamePositions
<1>2. (Pos(qTail))' = Pos(qTail) BY DEF Pos
<1>3. QED BY <1>1, <1>2 DEF QueueInv, RingInv

\* The producer's steps change its slot and the tail.
LEMMA ProducerKeeps ==
  ASSUME QueueInv, CaptureOutput \/ Enqueue \/ StopObserver
  PROVE  QueueInv'
<1>1. CASE CaptureOutput \/ LoadIndices \/ StopObserver
  <2>1. UNCHANGED <<slots, qHead, qTail, holder, consumer, captured, taken>>
    BY <1>1 DEF CaptureOutput, LoadIndices, StopObserver
  <2>2. captures' \in Nat
    BY <1>1 DEF CaptureOutput, LoadIndices, StopObserver, QueueInv, QueueTypeOK
  <2>3. /\ producer' \in [at : ProducerStep, tail : Slot, chunk : Nat]
        /\ producer'.at \in {"write", "store"} =>
             (producer' = producer \/ (producer'.tail = qTail /\ After(qTail) # qHead))
        /\ producer'.at = "store" => producer' = producer
    <3>1. CASE CaptureOutput
      <4>1. producer' = producer \/ producer' = [at |-> "load", tail |-> 0, chunk |-> captures + 1]
        BY <3>1 DEF CaptureOutput
      <4>2. producer \in [at : ProducerStep, tail : Slot, chunk : Nat] /\ captures + 1 \in Nat
            /\ (producer.at \in {"write", "store"} => producer.tail = qTail /\ After(qTail) # qHead)
        BY DEF QueueInv, QueueTypeOK, StepsInv
      <4>3. QED BY <4>1, <4>2, SlotRange DEF ProducerStep
    <3>2. CASE LoadIndices
      <4>1. \/ producer' = Ready
            \/ /\ producer' = [at |-> "write", tail |-> qTail, chunk |-> producer.chunk]
               /\ After(qTail) # qHead
        BY <3>2 DEF LoadIndices
      <4>2. QED BY <4>1, SlotRange DEF QueueInv, QueueTypeOK, ProducerStep, Ready, NoChunk
    <3>3. CASE StopObserver BY <3>3 DEF StopObserver, QueueInv, QueueTypeOK
    <3>4. QED BY <1>1, <3>1, <3>2, <3>3
  <2>4. QueueTypeOK' BY <2>1, <2>2, <2>3 DEF QueueInv, QueueTypeOK
  <2>5. StepsInv' BY <2>1, <2>3 DEF QueueInv, StepsInv, After
  <2>6. RingInv' BY <2>1, SameRing
  <2>7. QED BY <2>4, <2>5, <2>6 DEF QueueInv
<1>2. CASE WriteSlot BY <1>2, WriteKeeps
<1>3. CASE StoreTail BY <1>3, StoreKeeps
<1>4. QED BY <1>1, <1>2, <1>3 DEF Enqueue

LEMMA TakeKeeps ==
  ASSUME QueueInv, NEW w \in Consumer, TakeSlot(w)
  PROVE  QueueInv'
<1>1. /\ consumer[w].at = "take" /\ consumer[w].head = qHead /\ qHead # qTail
      /\ qHead \in Slot /\ qTail \in Slot /\ slots[qHead] \in Nat
      /\ \A x \in Consumer \ {w} : consumer[x].at \notin Inside
  BY OneInside DEF TakeSlot, QueueInv, QueueTypeOK, StepsInv, Inside
<1>2. /\ consumer' = [consumer EXCEPT ![w] = [at |-> "taken", head |-> qHead,
                                                 batch |-> Append(consumer[w].batch, slots[qHead])]]
      /\ slots' = [slots EXCEPT ![qHead] = NoChunk]
      /\ taken' = Append(taken, slots[qHead])
      /\ UNCHANGED <<qHead, qTail, holder, producer, captured, captures>>
  BY <1>1 DEF TakeSlot, Goes
<1>3. /\ taken \in Seq(Nat) /\ taken' \in Seq(Nat) /\ Len(taken') = Len(taken) + 1
      /\ taken'[Len(taken) + 1] = slots[qHead]
      /\ \A i \in 1..Len(taken) : taken'[i] = taken[i]
  BY <1>1, <1>2, AppendProperties DEF QueueInv, QueueTypeOK
<1>4. QueueTypeOK'
  <2>1. consumer[w] \in [at : ConsumerStep, head : Slot, batch : Seq(Nat)]
    BY DEF QueueInv, QueueTypeOK
  <2>2. Append(consumer[w].batch, slots[qHead]) \in Seq(Nat)
    BY <1>1, <2>1, AppendProperties
  <2>3. consumer'[w] \in [at : ConsumerStep, head : Slot, batch : Seq(Nat)]
    BY <1>2, <2>1, <2>2 DEF QueueInv, QueueTypeOK, ConsumerStep, Inside
  <2>4. consumer' \in [Consumer -> [at : ConsumerStep, head : Slot, batch : Seq(Nat)]]
    BY <1>2, <2>3 DEF QueueInv, QueueTypeOK
  <2>5. QED BY <1>2, <1>3, <2>4 DEF QueueInv, QueueTypeOK, NoChunk
<1>5. /\ consumer'[w].at = "taken" /\ consumer'[w].head = qHead
      /\ \A x \in Consumer \ {w} : consumer'[x] = consumer[x]
  BY <1>1, <1>2 DEF QueueInv, QueueTypeOK
<1>6. StepsInv'
  BY <1>1, <1>2, <1>5, OneInside DEF QueueInv, QueueTypeOK, StepsInv, Inside, After
<1>7. Taking = {} /\ w \in Taking'
  BY <1>1, <1>5 DEF Taking, Inside
<1>8. Gone = 0 /\ Gone' = 1 /\ Base' = Base /\ Base = Len(taken)
  BY <1>3, <1>7 DEF Gone, Base
<1>9. (Pos(qTail))' = Pos(qTail) /\ \A s \in Slot : (Pos(s))' = Pos(s)
  BY <1>2 DEF Pos
<1>10. RingInv'
  <2>1. Pos(qHead) = 0 /\ Pos(qTail) \in Slot /\ Pos(qTail) > 0
    BY <1>1, Positions DEF Slot
  <2>2. slots[qHead] = captured[Len(taken) + 1]
    BY <1>1, <1>3, <1>8, <2>1 DEF QueueInv, RingInv
  <2>3. \A i \in 1..Len(taken') : taken'[i] = captured[i]
    <3>1. ASSUME NEW i \in 1..Len(taken') PROVE taken'[i] = captured[i]
      <4>1. Len(taken) \in Nat BY <1>3
      <4>2. i \in 1..Len(taken) \/ i = Len(taken) + 1 BY <1>3, <4>1, <3>1
      <4>3. QED BY <1>3, <2>2, <4>2 DEF QueueInv, RingInv
    <3>2. QED BY <3>1
  <2>4. ASSUME NEW s \in Slot, 1 <= Pos(s), Pos(s) < Pos(qTail)
        PROVE  slots'[s] = captured[Base + Pos(s) + 1]
    <3>1. s # qHead /\ Gone <= Pos(s) BY <1>8, <2>1, <2>4, Positions, <1>1 DEF Slot
    <3>2. QED BY <1>1, <1>2, <2>4, <3>1 DEF QueueInv, QueueTypeOK, RingInv
  <2>5. QED BY <1>2, <1>3, <1>8, <1>9, <2>3, <2>4 DEF QueueInv, RingInv
<1>11. QED BY <1>4, <1>6, <1>10 DEF QueueInv

LEMMA AdvanceKeeps ==
  ASSUME QueueInv, NEW w \in Consumer, AdvanceHead(w)
  PROVE  QueueInv'
<1>1. /\ consumer[w].at = "taken" /\ consumer[w].head = qHead /\ qHead # qTail
      /\ qHead \in Slot /\ qTail \in Slot /\ After(qHead) \in Slot
      /\ \A x \in Consumer \ {w} : consumer[x].at \notin Inside
  BY OneInside, AfterSlot DEF AdvanceHead, QueueInv, QueueTypeOK, StepsInv, Inside
<1>2. /\ qHead' = After(qHead)
      /\ consumer' = [consumer EXCEPT ![w] = [at |-> "look", head |-> consumer[w].head,
                                                 batch |-> consumer[w].batch]]
      /\ UNCHANGED <<slots, qTail, holder, producer, captured, taken, captures>>
  BY <1>1 DEF AdvanceHead, Goes
<1>3. QueueTypeOK'
  <2>1. consumer[w] \in [at : ConsumerStep, head : Slot, batch : Seq(Nat)]
    BY DEF QueueInv, QueueTypeOK
  <2>2. consumer'[w] \in [at : ConsumerStep, head : Slot, batch : Seq(Nat)]
    BY <1>2, <2>1 DEF QueueInv, QueueTypeOK, ConsumerStep, Inside
  <2>3. QED BY <1>1, <1>2, <2>2 DEF QueueInv, QueueTypeOK
<1>4. /\ consumer'[w].at = "look" /\ \A x \in Consumer \ {w} : consumer'[x] = consumer[x]
  BY <1>1, <1>2 DEF QueueInv, QueueTypeOK
<1>5. After(qTail) # After(qHead)
  BY <1>1, AfterSlot DEF Slot
<1>6. StepsInv'
  BY <1>1, <1>2, <1>4, <1>5, OneInside DEF QueueInv, StepsInv, Inside, After
<1>7. w \in Taking /\ Taking' = {}
  BY <1>1, <1>4 DEF Taking, Inside
<1>8. Gone = 1 /\ Gone' = 0 /\ Base' = Base + 1 /\ Base \in Nat
  BY <1>2, <1>7, TakenLength DEF Gone, Base
<1>9. ASSUME NEW s \in Slot
      PROVE  (Pos(s))' = IF s = qHead THEN Capacity - 1 ELSE Pos(s) - 1
  <2>1. (Pos(s))' = IF s >= After(qHead) THEN s - After(qHead) ELSE s - After(qHead) + Capacity
    BY <1>2 DEF Pos
  <2>2. QED BY <1>1, <2>1, AfterSlot DEF Pos, Slot
<1>10. (Pos(qTail))' = Pos(qTail) - 1 /\ Pos(qTail) \in Slot
  <2>1. (Pos(qTail))' = IF qTail >= After(qHead) THEN qTail - After(qHead)
                        ELSE qTail - After(qHead) + Capacity
    BY <1>2 DEF Pos
  <2>2. Pos(qTail) = IF qTail >= qHead THEN qTail - qHead ELSE qTail - qHead + Capacity
    BY DEF Pos
  <2>3. After(qHead) = IF qHead = Capacity - 1 THEN 0 ELSE qHead + 1 BY <1>1, AfterSlot
  <2>4. (Pos(qTail))' = Pos(qTail) - 1 BY <1>1, <2>1, <2>2, <2>3 DEF Slot
  <2>5. QED BY <2>4, TakenLength
<1>11. RingInv'
  <2>1. ASSUME NEW s \in Slot, (Pos(s))' < Pos(qTail) - 1
        PROVE  slots[s] = captured[Base + 1 + (Pos(s))' + 1]
    <3>1. Pos(s) \in Slot /\ (Pos(s) = 0 <=> s = qHead) BY <1>1, Positions
    <3>2. s # qHead /\ (Pos(s))' = Pos(s) - 1 BY <1>9, <1>10, <2>1 DEF Slot
    <3>3. Gone <= Pos(s) /\ Pos(s) < Pos(qTail)
      BY <1>8, <1>10, <2>1, <3>1, <3>2 DEF Slot
    <3>4. slots[s] = captured[Base + Pos(s) + 1] BY <3>3 DEF QueueInv, RingInv
    <3>5. Base + 1 + (Pos(s))' + 1 = Base + Pos(s) + 1 BY <1>8, <3>1, <3>2 DEF Slot
    <3>6. QED BY <3>4, <3>5
  <2>2. Len(captured) = Base + 1 + (Pos(qTail) - 1)
    BY <1>8, <1>10 DEF QueueInv, RingInv, Slot
  <2>3. Gone' <= Len(taken) BY <1>8 DEF QueueInv, QueueTypeOK
  <2>4. QED BY <1>2, <1>8, <1>10, <2>1, <2>2, <2>3 DEF QueueInv, RingInv
<1>12. QED BY <1>3, <1>6, <1>11 DEF QueueInv

LEMMA ConsumerKeeps ==
  ASSUME QueueInv, NEW w \in Consumer, processWorker(w)
  PROVE  QueueInv'
<1>1. CASE LockQueue(w) \/ LookHead(w) \/ LookTail(w) \/ processEvent(w) \/ PollAgain(w)
  <2>1. /\ UNCHANGED <<slots, qHead, qTail, producer, captured, taken, captures>>
        /\ consumer[w] \in [at : ConsumerStep, head : Slot, batch : Seq(Nat)]
    BY <1>1 DEF LockQueue, LookHead, LookTail, processEvent, PollAgain, QueueInv, QueueTypeOK
  <2>. DEFINE Fits(c) ==
         /\ c.at # "taken" /\ consumer[w].at # "taken"
         /\ c.at \in Inside => holder' = w /\ (consumer[w].at \in Inside \/ holder = "nobody")
         /\ c.at \notin Inside =>
              holder' = holder \/ (holder' = "nobody" /\ consumer[w].at \in Inside)
         /\ c.at \in {"looked", "take"} => c.head = qHead
         /\ c.at = "take" => qHead # qTail
         /\ c.at = "process" => c.batch # <<>>
  <2>2. PICK c \in [at : ConsumerStep, head : Slot, batch : Seq(Nat)] :
          consumer' = [consumer EXCEPT ![w] = c] /\ Fits(c)
    <3>1. CASE LockQueue(w)
      <4>. DEFINE c == [at |-> "look", head |-> consumer[w].head, batch |-> consumer[w].batch]
      <4>1. consumer' = [consumer EXCEPT ![w] = c] /\ holder' = w /\ holder = "nobody"
            /\ consumer[w].at = "poll"
        BY <3>1 DEF LockQueue, Goes
      <4>2. c \in [at : ConsumerStep, head : Slot, batch : Seq(Nat)]
        BY <2>1 DEF ConsumerStep, Inside
      <4>3. QED BY <4>1, <4>2 DEF Inside
    <3>2. CASE LookHead(w)
      <4>. DEFINE c == [at |-> "looked", head |-> qHead, batch |-> consumer[w].batch]
      <4>1. consumer' = [consumer EXCEPT ![w] = c] /\ holder' = holder /\ consumer[w].at = "look"
        BY <3>2 DEF LookHead, Goes
      <4>2. c \in [at : ConsumerStep, head : Slot, batch : Seq(Nat)]
        BY <2>1 DEF ConsumerStep, Inside, QueueInv, QueueTypeOK
      <4>3. consumer[w].at \in Inside /\ holder = w BY <4>1, OneInside DEF Inside
      <4>4. QED BY <4>1, <4>2, <4>3 DEF Inside
    <3>3. CASE LookTail(w)
      <4>1. consumer[w].at = "looked" /\ consumer[w].at \in Inside BY <3>3 DEF LookTail, Inside
      <4>2. holder = w /\ consumer[w].head = qHead
        BY <4>1, OneInside DEF QueueInv, StepsInv
      <4>3. CASE qHead # qTail
        <5>. DEFINE c == [at |-> "take", head |-> consumer[w].head, batch |-> consumer[w].batch]
        <5>1. consumer' = [consumer EXCEPT ![w] = c] /\ holder' = w
          BY <3>3, <4>2, <4>3 DEF LookTail, Goes
        <5>2. c \in [at : ConsumerStep, head : Slot, batch : Seq(Nat)]
          BY <2>1 DEF ConsumerStep, Inside
        <5>3. QED BY <4>1, <4>2, <4>3, <5>1, <5>2 DEF Inside
      <4>4. CASE qHead = qTail
        <5>. DEFINE at == IF consumer[w].batch = <<>> THEN "empty" ELSE "process"
                    c == [at |-> at, head |-> consumer[w].head, batch |-> consumer[w].batch]
        <5>1. consumer' = [consumer EXCEPT ![w] = c] /\ holder' = "nobody"
          BY <3>3, <4>2, <4>4 DEF LookTail, Goes
        <5>2. c \in [at : ConsumerStep, head : Slot, batch : Seq(Nat)] /\ at \in {"empty", "process"}
          BY <2>1 DEF ConsumerStep
        <5>3. QED BY <4>1, <5>1, <5>2 DEF Inside
      <4>5. QED BY <4>3, <4>4
    <3>4. CASE processEvent(w)
      <4>1. consumer[w].at = "process" /\ holder' = holder /\ consumer[w].batch # <<>>
        BY <3>4 DEF processEvent, QueueInv, StepsInv
      <4>2. CASE Len(consumer[w].batch) = 1
        <5>. DEFINE c == [at |-> "poll", head |-> 0, batch |-> <<>>]
        <5>1. consumer' = [consumer EXCEPT ![w] = c] BY <3>4, <4>2 DEF processEvent, Goes
        <5>2. c \in [at : ConsumerStep, head : Slot, batch : Seq(Nat)]
          BY SlotRange DEF ConsumerStep
        <5>3. c.at = "poll" OBVIOUS
        <5>. HIDE DEF c
        <5>4. Fits(c) BY <4>1, <5>3 DEF Inside
        <5>. HIDE DEF Fits
        <5>5. QED BY <5>1, <5>2, <5>4
      <4>3. CASE Len(consumer[w].batch) # 1
        <5>. DEFINE b == Tail(consumer[w].batch)
                    c == [at |-> "process", head |-> consumer[w].head, batch |-> b]
        <5>1. consumer' = [consumer EXCEPT ![w] = c] BY <3>4, <4>3 DEF processEvent, Goes
        <5>2. consumer[w].batch \in Seq(Nat) BY <2>1
        <5>3. b \in Seq(Nat) /\ Len(b) = Len(consumer[w].batch) - 1
          BY <4>1, <5>2, HeadTailProperties
        <5>4. Len(consumer[w].batch) \in Nat BY <5>2
        <5>. HIDE DEF b
        <5>5. b # <<>>
          <6>1. Len(b) # 0 BY <4>3, <5>3, <5>4
          <6>2. Len(<<>>) = 0 BY EmptySeq
          <6>3. QED BY <6>1, <6>2, Zenon
        <5>6. c \in [at : ConsumerStep, head : Slot, batch : Seq(Nat)]
          BY <2>1, <5>3 DEF ConsumerStep
        <5>7. c.at = "process" /\ c.batch # <<>> BY <5>5
        <5>. HIDE DEF c
        <5>8. Fits(c) BY <4>1, <5>7 DEF Inside
        <5>. HIDE DEF Fits
        <5>9. QED BY <5>1, <5>6, <5>8
      <4>4. QED BY <4>2, <4>3
    <3>5. CASE PollAgain(w)
      <4>. DEFINE at == IF qClosed THEN "ended" ELSE "poll"
                  c == [at |-> at, head |-> 0, batch |-> <<>>]
      <4>1. consumer' = [consumer EXCEPT ![w] = c] /\ holder' = holder /\ consumer[w].at = "empty"
        BY <3>5 DEF PollAgain, Goes
      <4>2. at \in {"ended", "poll"} BY Zenon
      <4>. HIDE DEF at
      <4>3. c \in [at : ConsumerStep, head : Slot, batch : Seq(Nat)]
        BY <4>2, SlotRange DEF ConsumerStep
      <4>4. c.at \in {"ended", "poll"} BY <4>2
      <4>. HIDE DEF c
      <4>5. Fits(c) BY <4>1, <4>4 DEF Inside
      <4>. HIDE DEF Fits
      <4>6. QED BY <4>1, <4>3, <4>5
    <3>6. QED BY <1>1, <3>1, <3>2, <3>3, <3>4, <3>5
  <2>3. consumer'[w] = c /\ \A x \in Consumer \ {w} : consumer'[x] = consumer[x]
    BY <2>2 DEF QueueInv, QueueTypeOK
  <2>4. QueueTypeOK' BY <2>1, <2>2 DEF QueueInv, QueueTypeOK
  <2>5. StepsInv'
    <3>1. ASSUME NEW x \in Consumer, consumer'[x].at \in Inside PROVE holder' = x
      BY <2>2, <2>3, <3>1, OneInside DEF QueueInv, StepsInv
    <3>2. ASSUME NEW x \in Consumer
          PROVE  /\ consumer'[x].at \in Inside \ {"look"} => consumer'[x].head = qHead
                 /\ consumer'[x].at \in {"take", "taken"} => qHead # qTail
                 /\ consumer'[x].at = "process" => consumer'[x].batch # <<>>
      BY <2>2, <2>3 DEF QueueInv, StepsInv, Inside
    <3>3. QED BY <2>1, <3>1, <3>2 DEF QueueInv, StepsInv, After
  <2>6. RingInv' BY <2>1, <2>2, <2>3, SameRing
  <2>7. QED BY <2>4, <2>5, <2>6 DEF QueueInv
<1>2. CASE TakeSlot(w) BY <1>2, TakeKeeps
<1>3. CASE AdvanceHead(w) BY <1>3, AdvanceKeeps
<1>4. QED BY <1>1, <1>2, <1>3 DEF processWorker

LEMMA QueueStep == QueueInv /\ [QueueNext]_queueVars => QueueInv'
<1>1. ASSUME QueueInv, UNCHANGED queueVars PROVE QueueInv'
  <2>1. UNCHANGED <<slots, qHead, qTail, holder, producer, consumer, captured, taken, captures>>
    BY <1>1 DEF queueVars
  <2>2. RingInv' BY <1>1, <2>1, SameRing
  <2>3. QueueTypeOK' BY <1>1, <2>1 DEF QueueInv, QueueTypeOK
  <2>4. StepsInv' BY <1>1, <2>1 DEF QueueInv, StepsInv, After
  <2>5. QED BY <2>2, <2>3, <2>4 DEF QueueInv
<1>2. QED BY <1>1, ProducerKeeps, ConsumerKeeps DEF QueueNext

\* The inductive invariant of the ring, its producer and its consumers.
THEOREM QueueInvariance == QueueSpec => []QueueInv
BY QueueInitial, QueueStep, PTL DEF QueueSpec

\* The ring is a first-in first-out queue (runtime/queue.go: Enqueue, DequeueAll).
THEOREM RingIsFifo == QueueSpec => []RingIsQueue
BY QueueInvariance, RingOfInv, PTL

=============================================================================
