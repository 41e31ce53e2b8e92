------------------------------ MODULE ApiQueue ------------------------------
(***************************************************************************)
(* The worker pool of `clawcrate api`: BoundedWorkQueue, the workers of    *)
(* handle_api and dispatch_api_request, of crates/clawcrate-cli/src/api.rs.*)
(*                                                                         *)
(* What one thread does while it holds the queue's mutex is one step.  A   *)
(* worker asleep on the condition variable wakes when it is notified, or   *)
(* for no reason, and only then takes the mutex again.                     *)
(***************************************************************************)
EXTENDS Naturals, Sequences, FiniteSets, SequencesExt

CONSTANTS
  Requests,  (* the delegated requests that reach the server                 *)
  Workers,   (* API_MAX_WORKERS threads                                      *)
  Capacity,  (* API_MAX_QUEUE_DEPTH                                          *)
  Nothing    (* the request of a worker that has none                        *)

ASSUME QueueAssumption ==
  /\ IsFiniteSet(Requests) /\ IsFiniteSet(Workers) /\ Workers # {}
  /\ Capacity \in Nat \ {0}
  /\ Nothing \notin Requests

VARIABLES
  queue,    (* BoundedWorkQueueState::queue                                  *)
  closed,   (* BoundedWorkQueueState::closed                                 *)
  worker,   (* worker -> awake, asleep, handling, exited                     *)
  holds,    (* worker -> the request it carries out                          *)
  reply,    (* request -> the answer its client got                          *)
  server    (* the accepting thread: serving, closing, ended                 *)

vars == <<queue, closed, worker, holds, reply, server>>

TypeOK ==
  /\ queue \in Seq(Requests) /\ Len(queue) <= Capacity
  /\ closed \in BOOLEAN
  /\ worker \in [Workers -> {"awake", "asleep", "handling", "exited"}]
  /\ holds \in [Workers -> Requests \cup {Nothing}]
  /\ reply \in [Requests -> {"none", "result", "busy"}]
  /\ server \in {"serving", "closing", "ended"}

Init ==
  /\ queue = <<>>
  /\ closed = FALSE
  /\ worker = [w \in Workers |-> "awake"]
  /\ holds = [w \in Workers |-> Nothing]
  /\ reply = [r \in Requests |-> "none"]
  /\ server = "serving"

Queued == ToSet(queue)
Handled == {holds[w] : w \in Workers} \ {Nothing}
Asleep == {w \in Workers : worker[w] = "asleep"}

(* A faulty variant: nobody is notified.                                    *)
NotifyNobody == UNCHANGED worker

(* notify_one: one of the sleeping workers wakes, when there is one.        *)
NotifyOne ==
  IF Asleep = {} THEN UNCHANGED worker
  ELSE \E w \in Asleep : worker' = [worker EXCEPT ![w] = "awake"]

(* try_enqueue of a request that has not been seen yet.                     *)
Enqueue(r) ==
  /\ server = "serving"
  /\ r \notin Queued \cup Handled /\ reply[r] = "none"
  /\ ~closed /\ Len(queue) < Capacity
  /\ queue' = Append(queue, r)
  /\ NotifyOne
  /\ UNCHANGED <<closed, holds, reply, server>>

(* A faulty variant: the request is refused and queued all the same.        *)
RefuseAndEnqueue(r) ==
  /\ server = "serving"
  /\ r \notin Queued \cup Handled /\ reply[r] = "none"
  /\ closed \/ Len(queue) >= Capacity
  /\ reply' = [reply EXCEPT ![r] = "busy"]
  /\ queue' = Append(queue, r)
  /\ UNCHANGED <<closed, worker, holds, server>>

(* QueueEnqueueError: the accepting thread answers 503 itself.              *)
Refuse(r) ==
  /\ server = "serving"
  /\ r \notin Queued \cup Handled /\ reply[r] = "none"
  /\ closed \/ Len(queue) >= Capacity
  /\ reply' = [reply EXCEPT ![r] = "busy"]
  /\ UNCHANGED <<queue, closed, worker, holds, server>>

(* dequeue_blocking, from the moment the worker has the mutex.              *)
Dequeue(w) ==
  /\ server # "ended"
  /\ worker[w] = "awake" /\ queue # <<>>
  /\ worker' = [worker EXCEPT ![w] = "handling"]
  /\ holds' = [holds EXCEPT ![w] = Head(queue)]
  /\ queue' = Tail(queue)
  /\ UNCHANGED <<closed, reply, server>>

DequeueNothing(w) ==
  /\ server # "ended"
  /\ worker[w] = "awake" /\ queue = <<>>
  /\ worker' = [worker EXCEPT ![w] = IF closed THEN "exited" ELSE "asleep"]
  /\ UNCHANGED <<queue, closed, holds, reply, server>>

SpuriousWakeup(w) ==
  /\ server # "ended"
  /\ worker[w] = "asleep"
  /\ worker' = [worker EXCEPT ![w] = "awake"]
  /\ UNCHANGED <<queue, closed, holds, reply, server>>

(* handle_api_delegated_route: whatever becomes of the command, the client  *)
(* gets one answer.                                                         *)
Handle(w) ==
  /\ server # "ended"
  /\ worker[w] = "handling"
  /\ reply' = [reply EXCEPT ![holds[w]] = "result"]
  /\ holds' = [holds EXCEPT ![w] = Nothing]
  /\ worker' = [worker EXCEPT ![w] = "awake"]
  /\ UNCHANGED <<queue, closed, server>>

(* A faulty variant: closing wakes nobody.                                  *)
CloseQuietly ==
  /\ server = "serving"
  /\ server' = "closing"
  /\ closed' = TRUE
  /\ UNCHANGED <<queue, worker, holds, reply>>

(* incoming_requests is over: the queue is closed and every worker woken.   *)
Close ==
  /\ server = "serving"
  /\ server' = "closing"
  /\ closed' = TRUE
  /\ worker' = [w \in Workers |-> IF worker[w] = "asleep" THEN "awake" ELSE worker[w]]
  /\ UNCHANGED <<queue, holds, reply>>

(* handle_api returns without joining the workers, and the process ends.    *)
ProcessEnds ==
  /\ server = "closing"
  /\ server' = "ended"
  /\ UNCHANGED <<queue, closed, worker, holds, reply>>

WorkerStep(w) == Dequeue(w) \/ DequeueNothing(w) \/ Handle(w)

Next ==
  \/ \E r \in Requests : Enqueue(r)
  \/ \E r \in Requests : Refuse(r)
  \/ \E w \in Workers : WorkerStep(w)
  \/ \E w \in Workers : SpuriousWakeup(w)
  \/ Close
  \/ ProcessEnds

Spec == Init /\ [][Next]_vars

(* Threads that can run do, and every command a worker starts ends (a run   *)
(* by its time limit).  Nothing wakes a worker but a notification.          *)
FairSpec == Spec /\ \A w \in Workers : WF_vars(WorkerStep(w))

-----------------------------------------------------------------------------
(* Properties                                                               *)

(* No wakeup is lost: while requests wait, some worker is awake to take one *)
(* or busy, never all of them asleep.                                       *)
NoLostWakeup == queue # <<>> => Asleep # Workers

(* A request that was accepted is answered, unless the process ends first.  *)
AcceptedAnswered ==
  \A r \in Requests : r \in Queued ~> (reply[r] = "result" \/ server = "ended")

(* Closing leaves no worker asleep for good and no accepted request behind. *)
CloseDrains ==
  closed ~> (server = "ended" \/ (queue = <<>> /\ \A w \in Workers : worker[w] = "exited"))

(* What was accepted is answered, and the pool comes to rest when closed.   *)
RequestsComplete == AcceptedAnswered /\ CloseDrains

(* The pool implements the service its clients see.                         *)
StatusOf(r) ==
  IF reply[r] = "busy" THEN "turned away"
  ELSE IF reply[r] = "result" THEN "answered"
  ELSE IF r \in Queued THEN "accepted"
  ELSE IF r \in Handled THEN "started"
  ELSE "unsent"

Service == INSTANCE ApiService
  WITH PoolSize <- Cardinality(Workers), status <- [r \in Requests |-> StatusOf(r)]
ImplementsService == Service!Spec

=============================================================================
