---------------------------- MODULE EventEngine ----------------------------
(***************************************************************************)
(* EventEngine (internal/services/events.go): observers Emit events, a     *)
(* dispatcher goroutine (run) fans each one out as a job per registered    *)
(* worker, and a pool of goroutines calls the workers' OnEvent.  The last  *)
(* events are also kept in a ring (Snapshot).  Emit and AddWorker start an *)
(* engine that is not running, also one that was stopped.                  *)
(*                                                                         *)
(* An event is the number its Emit takes.  No OnEvent emits (none of the   *)
(* workers does: one that did could wait for the startMu of a Stop that    *)
(* waits for it), and a call of OnEvent is one step.                       *)
(***************************************************************************)
EXTENDS Integers, Sequences, FiniteSets

CONSTANTS Worker,
          Pool,       \* the goroutines that run jobs
          MaxBuf,     \* capacity of the queue, of the jobs and of the ring
          MaxEvents,  \* bound: calls of Emit
          MaxStops    \* bound: calls of Stop

ASSUME EngineAssumption ==
  MaxBuf \in Nat \ {0} /\ MaxEvents \in Nat /\ MaxStops \in Nat

Event == 1..MaxEvents
NoEvent == 0

VARIABLES
  running,      \* running; the stop channel is closed when it is false
  stopping,     \* Stop holds startMu and waits for the dispatcher
  workers,      \* e.workers
  queue, jobs,  \* the two channels
  buffer, bufferHead, bufferLen,
  emit,         \* emit[v]: where the Emit call of event v is
  disp,         \* the dispatcher: what it does, with which event, for whom yet
  pool,         \* the goroutines of the pool that run
  delivered,    \* delivered[v][w]: calls of w's OnEvent with v
  nextID,       \* events emitted so far
  stops         \* clock: calls of Stop

ringVars == <<buffer, bufferHead, bufferLen, nextID>>
engineVars == <<running, stopping, workers, queue, jobs, ringVars, emit, disp, pool,
                delivered, stops>>

Disp == [at : {"off", "loop", "fan", "drain", "wait"},
         event : Event \cup {NoEvent}, todo : Seq(Worker)]
At(where) == [at |-> where, event |-> NoEvent, todo |-> <<>>]

EngineTypeOK ==
  /\ {running, stopping} \subseteq BOOLEAN
  /\ workers \in Seq(Worker)
  /\ queue \in Seq(Event) /\ Len(queue) <= MaxBuf
  /\ jobs \in Seq(Event \X Worker) /\ Len(jobs) <= MaxBuf
  /\ buffer \in [0..(MaxBuf - 1) -> Event \cup {NoEvent}]
  /\ bufferHead \in 0..(MaxBuf - 1) /\ bufferLen \in 0..MaxBuf
  /\ emit \in [Event -> {"new", "sending", "blocked", "queued", "dropped"}]
  /\ disp \in Disp /\ pool \subseteq Pool
  /\ delivered \in [Event -> [Worker -> Nat]]
  /\ nextID \in 0..MaxEvents /\ stops \in 0..MaxStops

EngineInit ==
  /\ running = FALSE /\ stopping = FALSE /\ workers = <<>>
  /\ queue = <<>> /\ jobs = <<>>
  /\ buffer = [i \in 0..(MaxBuf - 1) |-> NoEvent] /\ bufferHead = 0 /\ bufferLen = 0
  /\ emit = [v \in Event |-> "new"]
  /\ disp = At("off") /\ pool = {}
  /\ delivered = [v \in Event |-> [w \in Worker |-> 0]]
  /\ nextID = 0 /\ stops = 0

Queued == {queue[i] : i \in DOMAIN queue}
Registered == {workers[i] : i \in DOMAIN workers}
Delivered(S, v) == [delivered EXCEPT ![v] = [w \in Worker |-> IF w \in S THEN @[w] + 1 ELSE @[w]]]

\* Start waits for a Stop in progress; the new engine has a new channel of jobs.
Start ==
  /\ ~stopping
  /\ running' = TRUE
  /\ IF running THEN UNCHANGED <<jobs, disp, pool>>
     ELSE jobs' = <<>> /\ disp' = At("loop") /\ pool' = Pool

AddWorker(w) ==
  /\ w \notin Registered
  /\ Start
  /\ workers' = Append(workers, w)
  /\ UNCHANGED <<stopping, queue, ringVars, emit, delivered, stops>>

RemoveWorker(w) ==
  /\ \E i \in DOMAIN workers :
       /\ workers[i] = w
       /\ workers' = SubSeq(workers, 1, i - 1) \o SubSeq(workers, i + 1, Len(workers))
  /\ UNCHANGED <<running, stopping, queue, jobs, ringVars, emit, disp, pool, delivered, stops>>

-----------------------------------------------------------------------------
(* Emit.                                                                   *)

\* Emit up to the send: the ring drops its oldest event when it is full.
Emit(v) ==
  /\ v = nextID + 1
  /\ Start
  /\ LET full == bufferLen = MaxBuf
         head == IF full THEN (bufferHead + 1) % MaxBuf ELSE bufferHead
         len == IF full THEN bufferLen - 1 ELSE bufferLen
     IN  /\ buffer' = [buffer EXCEPT ![(head + len) % MaxBuf] = v]
         /\ bufferHead' = head /\ bufferLen' = len + 1
  /\ nextID' = v
  /\ emit' = [emit EXCEPT ![v] = "sending"]
  /\ UNCHANGED <<stopping, workers, queue, delivered, stops>>

\* The send, at once or while it waits for room.
Send(v) ==
  /\ emit[v] \in {"sending", "blocked"}
  /\ Len(queue) < MaxBuf
  /\ queue' = Append(queue, v)
  /\ emit' = [emit EXCEPT ![v] = "queued"]
  /\ UNCHANGED <<running, stopping, workers, jobs, ringVars, disp, pool, delivered, stops>>

Block(v) ==
  /\ emit[v] = "sending" /\ Len(queue) = MaxBuf
  /\ emit' = [emit EXCEPT ![v] = "blocked"]
  /\ UNCHANGED <<running, stopping, workers, queue, jobs, ringVars, disp, pool, delivered, stops>>

\* 100 ms without room, or the engine stops: the event is dropped.
Drop(v) ==
  /\ emit[v] = "blocked"
  /\ emit' = [emit EXCEPT ![v] = "dropped"]
  /\ UNCHANGED <<running, stopping, workers, queue, jobs, ringVars, disp, pool, delivered, stops>>

-----------------------------------------------------------------------------
(* run.                                                                    *)

\* Mutant: the job stays in the channel.
RunJobKeeps(g) ==
  /\ g \in pool /\ jobs # <<>>
  /\ delivered' = Delivered({Head(jobs)[2]}, Head(jobs)[1])
  /\ UNCHANGED <<running, stopping, workers, queue, jobs, ringVars, emit, disp, pool, stops>>

\* A goroutine of the pool runs a job (a closed stop channel need not win) ...
RunJob(g) ==
  /\ g \in pool /\ jobs # <<>>
  /\ delivered' = Delivered({Head(jobs)[2]}, Head(jobs)[1])
  /\ jobs' = Tail(jobs)
  /\ UNCHANGED <<running, stopping, workers, queue, ringVars, emit, disp, pool, stops>>

\* ... or ends.
LeavePool(g) ==
  /\ g \in pool /\ ~running
  /\ pool' = pool \ {g}
  /\ UNCHANGED <<running, stopping, workers, queue, jobs, ringVars, emit, disp, delivered, stops>>

\* The dispatcher takes an event for the workers registered now.
Receive ==
  /\ disp.at = "loop" /\ queue # <<>>
  /\ disp' = IF workers = <<>> THEN At("loop")
             ELSE [at |-> "fan", event |-> Head(queue), todo |-> workers]
  /\ queue' = Tail(queue)
  /\ UNCHANGED <<running, stopping, workers, jobs, ringVars, emit, pool, delivered, stops>>

\* Mutant: the event goes to the first worker only.
FanOutFirst ==
  /\ disp.at = "fan" /\ Len(jobs) < MaxBuf
  /\ jobs' = Append(jobs, <<disp.event, Head(disp.todo)>>)
  /\ disp' = At("loop")
  /\ UNCHANGED <<running, stopping, workers, queue, ringVars, emit, pool, delivered, stops>>

FanOut ==
  /\ disp.at = "fan" /\ Len(jobs) < MaxBuf
  /\ jobs' = Append(jobs, <<disp.event, Head(disp.todo)>>)
  /\ disp' = IF Tail(disp.todo) = <<>> THEN At("loop") ELSE [disp EXCEPT !.todo = Tail(@)]
  /\ UNCHANGED <<running, stopping, workers, queue, ringVars, emit, pool, delivered, stops>>

\* Mutant: the dispatcher looks at the stop channel between two jobs only.
GiveUpFanOutBetween ==
  /\ disp.at = "fan" /\ ~running /\ Len(jobs) < MaxBuf
  /\ disp' = At("wait")
  /\ UNCHANGED <<running, stopping, workers, queue, jobs, ringVars, emit, pool, delivered, stops>>

\* Stopped in the middle of a fan-out: the rest of it is given up, and the queue
\* is not drained.
GiveUpFanOut ==
  /\ disp.at = "fan" /\ ~running
  /\ disp' = At("wait")
  /\ UNCHANGED <<running, stopping, workers, queue, jobs, ringVars, emit, pool, delivered, stops>>

BeginDrain ==
  /\ disp.at = "loop" /\ ~running
  /\ disp' = At("drain")
  /\ UNCHANGED <<running, stopping, workers, queue, jobs, ringVars, emit, pool, delivered, stops>>

\* drain calls the workers itself.
Drain ==
  /\ disp.at = "drain" /\ queue # <<>>
  /\ delivered' = Delivered(Registered, Head(queue))
  /\ queue' = Tail(queue)
  /\ UNCHANGED <<running, stopping, workers, jobs, ringVars, emit, disp, pool, stops>>

EndDrain ==
  /\ disp.at = "drain" /\ queue = <<>>
  /\ disp' = At("wait")
  /\ UNCHANGED <<running, stopping, workers, queue, jobs, ringVars, emit, pool, delivered, stops>>

\* workers.Wait(), close(doneCh).
Finish ==
  /\ disp.at = "wait" /\ pool = {}
  /\ disp' = At("off")
  /\ UNCHANGED <<running, stopping, workers, queue, jobs, ringVars, emit, pool, delivered, stops>>

StopEngine ==
  /\ running /\ ~stopping /\ stops < MaxStops
  /\ running' = FALSE /\ stopping' = TRUE /\ stops' = stops + 1
  /\ UNCHANGED <<workers, queue, jobs, ringVars, emit, disp, pool, delivered>>

StopDone ==
  /\ stopping /\ disp.at = "off"
  /\ stopping' = FALSE
  /\ UNCHANGED <<running, workers, queue, jobs, ringVars, emit, disp, pool, delivered, stops>>

Dispatch == Receive \/ FanOut \/ GiveUpFanOut \/ BeginDrain \/ Drain \/ EndDrain \/ Finish

EngineNext ==
  \/ \E v \in Event : Emit(v) \/ Send(v) \/ Block(v) \/ Drop(v)
  \/ \E w \in Worker : AddWorker(w) \/ RemoveWorker(w)
  \/ \E g \in Pool : RunJob(g) \/ LeavePool(g)
  \/ Dispatch \/ StopEngine \/ StopDone

EngineSpec == EngineInit /\ [][EngineNext]_engineVars

\* The goroutines run; nobody has to emit, register or stop.
FairEngineSpec ==
  /\ EngineSpec
  /\ WF_engineVars(Dispatch) /\ WF_engineVars(StopDone)
  /\ \A g \in Pool : WF_engineVars(RunJob(g)) /\ WF_engineVars(LeavePool(g))

-----------------------------------------------------------------------------
(* Properties.                                                             *)

\* An event reaches a worker at most once, whether a job or the drain brings it,
\* through any stops and restarts.
AtMostOnce == \A v \in Event, w \in Worker : delivered[v][w] <= 1

\* Whoever calls Stop gets an answer, in whatever state the queue, the jobs and
\* the pool are.
EngineStopReturns == stopping ~> ~stopping

\* While the engine is not stopped a queued event reaches every worker that
\* stays registered.
AcceptedDelivered ==
  \A v \in Event, w \in Worker :
    v \in Queued /\ w \in Registered /\ stops = 0 ~>
      delivered[v][w] > 0 \/ w \notin Registered \/ stops > 0

\* "drain delivers events still queued at shutdown so none are silently lost"
\* (events.go:252): when the dispatcher has ended, no event is left that was
\* queued for a worker.
NoneLostAtStop ==
  stops > 0 /\ disp.at = "off" => jobs = <<>>
=============================================================================
