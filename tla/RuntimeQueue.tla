---------------------------- MODULE RuntimeQueue ----------------------------
(***************************************************************************)
(* The runtime observer (internal/runtime/queue.go, observer.go): a tool   *)
(* call captures output into a ring buffer, and a few goroutines take it   *)
(* out and turn it into RuntimeObservation nodes.                          *)
(*                                                                         *)
(* The ring's head, tail and closed flag are atomics, its slots are plain  *)
(* memory: producers hold no lock, consumers share one.  Each step here is *)
(* one load or store of them.  The program has one producer (tool calls    *)
(* are serialized, and StartProcess, which would start others, fails       *)
(* before it does), drops what finds the ring full (the policy "oldest",   *)
(* where a producer takes slots without the lock, is not used), and never  *)
(* closes the observer; StopObserver is modelled as its callers would use  *)
(* it, while no capture runs.  A chunk of output is the number its capture *)
(* takes; what is parsed from it, its log template and its links are left  *)
(* out.                                                                    *)
(***************************************************************************)
EXTENDS Integers, Sequences, FiniteSets

CONSTANTS Consumer,      \* the goroutines of processWorker
          Capacity,      \* slots of the ring; one always stays free
          MaxCaptures    \* bound: captures

ASSUME RuntimeQueueAssumption ==
  Capacity \in Nat \ {0, 1} /\ MaxCaptures \in Nat /\ "nobody" \notin Consumer

Slot == 0..(Capacity - 1)
NoChunk == 0

VARIABLES
  slots, qHead, qTail, qClosed,
  holder,     \* who holds q.mu, or "nobody"
  producer,   \* the capture in progress: its step and what it loaded
  consumer,   \* consumer[w]: its step, what it loaded, the chunks it has taken
  captured,   \* history: the chunks whose capture succeeded, in order
  taken,      \* history: the chunks taken out, in order
  observed,   \* the chunks that have an observation node, in order
  captures    \* clock

queueVars == <<slots, qHead, qTail, qClosed, holder, producer, consumer,
               captured, taken, observed, captures>>

Ready == [at |-> "ready", tail |-> 0, chunk |-> NoChunk]
Polling == [at |-> "poll", head |-> 0, batch |-> <<>>]
After(i) == (i + 1) % Capacity

QueueInit ==
  /\ slots = [i \in Slot |-> NoChunk] /\ qHead = 0 /\ qTail = 0 /\ qClosed = FALSE
  /\ holder = "nobody"
  /\ producer = Ready /\ consumer = [w \in Consumer |-> Polling]
  /\ captured = <<>> /\ taken = <<>> /\ observed = <<>> /\ captures = 0

-----------------------------------------------------------------------------
(* Enqueue.                                                                *)

\* A capture on a closed queue answers false at once.
CaptureOutput ==
  /\ producer.at = "ready" /\ captures < MaxCaptures
  /\ captures' = captures + 1
  /\ producer' = IF qClosed THEN producer
                 ELSE [at |-> "load", tail |-> 0, chunk |-> captures + 1]
  /\ UNCHANGED <<slots, qHead, qTail, qClosed, holder, consumer, captured, taken, observed>>

\* Mutant: a full ring takes one more.
LoadIndicesFull ==
  /\ producer.at = "load"
  /\ producer' = [at |-> "write", tail |-> qTail, chunk |-> producer.chunk]
  /\ UNCHANGED <<slots, qHead, qTail, qClosed, holder, consumer, captured, taken, observed, captures>>

\* A full ring refuses the chunk.
LoadIndices ==
  /\ producer.at = "load"
  /\ producer' = IF After(qTail) = qHead THEN Ready
                 ELSE [at |-> "write", tail |-> qTail, chunk |-> producer.chunk]
  /\ UNCHANGED <<slots, qHead, qTail, qClosed, holder, consumer, captured, taken, observed, captures>>

WriteSlot ==
  /\ producer.at = "write"
  /\ slots' = [slots EXCEPT ![producer.tail] = producer.chunk]
  /\ producer' = [producer EXCEPT !.at = "store"]
  /\ UNCHANGED <<qHead, qTail, qClosed, holder, consumer, captured, taken, observed, captures>>

StoreTail ==
  /\ producer.at = "store"
  /\ qTail' = After(producer.tail)
  /\ captured' = Append(captured, producer.chunk)
  /\ producer' = Ready
  /\ UNCHANGED <<slots, qHead, qClosed, holder, consumer, taken, observed, captures>>

Enqueue == LoadIndices \/ WriteSlot \/ StoreTail

-----------------------------------------------------------------------------
(* DequeueAll and processWorker.                                           *)

Goes(w, at, head, batch) ==
  consumer' = [consumer EXCEPT ![w] = [at |-> at, head |-> head, batch |-> batch]]

LockQueue(w) ==
  /\ consumer[w].at = "poll" /\ holder = "nobody"
  /\ holder' = w
  /\ Goes(w, "look", consumer[w].head, consumer[w].batch)
  /\ UNCHANGED <<slots, qHead, qTail, qClosed, producer, captured, taken, observed, captures>>

\* The head is loaded first.
LookHead(w) ==
  /\ consumer[w].at = "look"
  /\ Goes(w, "looked", qHead, consumer[w].batch)
  /\ UNCHANGED <<slots, qHead, qTail, qClosed, holder, producer, captured, taken, observed, captures>>

LookTail(w) ==
  /\ consumer[w].at = "looked"
  /\ \/ /\ consumer[w].head # qTail
        /\ Goes(w, "take", consumer[w].head, consumer[w].batch)
        /\ UNCHANGED holder
     \/ /\ consumer[w].head = qTail
        /\ Goes(w, IF consumer[w].batch = <<>> THEN "empty" ELSE "process", consumer[w].head, consumer[w].batch)
        /\ holder' = "nobody"
  /\ UNCHANGED <<slots, qHead, qTail, qClosed, producer, captured, taken, observed, captures>>

TakeSlot(w) ==
  LET i == consumer[w].head
  IN /\ consumer[w].at = "take"
     /\ Goes(w, "taken", i, Append(consumer[w].batch, slots[i]))
     /\ slots' = [slots EXCEPT ![i] = NoChunk]
     /\ taken' = Append(taken, slots[i])
     /\ UNCHANGED <<qHead, qTail, qClosed, holder, producer, captured, observed, captures>>

AdvanceHead(w) ==
  /\ consumer[w].at = "taken"
  /\ qHead' = After(consumer[w].head)
  /\ Goes(w, "look", consumer[w].head, consumer[w].batch)
  /\ UNCHANGED <<slots, qTail, qClosed, holder, producer, captured, taken, observed, captures>>

\* Mutant: the rest of the batch is forgotten.
processEventFirst(w) ==
  LET batch == consumer[w].batch
  IN /\ consumer[w].at = "process"
     /\ observed' = Append(observed, Head(batch))
     /\ Goes(w, "poll", 0, <<>>)
     /\ UNCHANGED <<slots, qHead, qTail, qClosed, holder, producer, captured, taken, captures>>

processEvent(w) ==
  LET batch == consumer[w].batch
  IN /\ consumer[w].at = "process"
     /\ observed' = Append(observed, Head(batch))
     /\ IF Len(batch) = 1 THEN Goes(w, "poll", 0, <<>>)
        ELSE Goes(w, "process", consumer[w].head, Tail(batch))
     /\ UNCHANGED <<slots, qHead, qTail, qClosed, holder, producer, captured, taken, captures>>

\* Nothing found: the goroutine ends if the queue is closed, and else polls again.
PollAgain(w) ==
  /\ consumer[w].at = "empty"
  /\ Goes(w, IF qClosed THEN "ended" ELSE "poll", 0, <<>>)
  /\ UNCHANGED <<slots, qHead, qTail, qClosed, holder, producer, captured, taken, observed, captures>>

processWorker(w) ==
  \/ LockQueue(w) \/ LookHead(w) \/ LookTail(w) \/ TakeSlot(w) \/ AdvanceHead(w)
  \/ processEvent(w) \/ PollAgain(w)

StopObserver ==
  /\ producer.at = "ready" /\ ~ qClosed
  /\ qClosed' = TRUE
  /\ UNCHANGED <<slots, qHead, qTail, holder, producer, consumer, captured, taken, observed, captures>>

QueueNext ==
  \/ CaptureOutput \/ Enqueue \/ StopObserver
  \/ \E w \in Consumer : processWorker(w)
QueueSpec == QueueInit /\ [][QueueNext]_queueVars

\* Goroutines run on, and q.mu is a Go mutex, which starves no one.
FairQueueSpec ==
  /\ QueueSpec /\ WF_queueVars(Enqueue)
  /\ \A w \in Consumer : WF_queueVars(processWorker(w) /\ ~ LockQueue(w)) /\ SF_queueVars(LockQueue(w))

-----------------------------------------------------------------------------
(* Properties.                                                             *)

Length == (qTail - qHead + Capacity) % Capacity
Taking == {w \in Consumer : consumer[w].at = "taken"}
\* What the slots hold, from the head; the first is gone already while its taker
\* has not stored the new head.
Held ==
  LET first == IF Taking = {} THEN 0 ELSE 1
  IN [i \in 1..(Length - first) |-> slots[(qHead + first + i - 1) % Capacity]]

\* The ring is a queue: what was taken out and what is left are, in order, what was
\* captured; a chunk is neither overwritten nor taken twice, wherever the producer
\* and the consumers are in their steps.
RingIsQueue == taken \o Held = captured

\* Every chunk whose capture succeeded gets its observation, and only one, unless
\* the observer is stopped.
CapturedObserved ==
  \A e \in 1..MaxCaptures :
    (\E i \in DOMAIN captured : captured[i] = e)
      ~> (qClosed \/ Cardinality({i \in DOMAIN observed : observed[i] = e}) = 1)
=============================================================================
