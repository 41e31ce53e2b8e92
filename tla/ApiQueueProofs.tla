--------------------------- MODULE ApiQueueProofs ---------------------------
(***************************************************************************)
(* Proofs about ApiQueue: the queue respects its capacity, no wakeup is    *)
(* lost, and the pool implements ApiService, for every set of requests and *)
(* workers and every capacity.                                             *)
(***************************************************************************)
EXTENDS ApiQueue, SequenceTheorems, FiniteSetTheorems, TLAPS

(* A worker that handles a request holds one.                               *)
HoldsInv == \A w \in Workers : worker[w] = "handling" => holds[w] \in Requests

QueueInv == TypeOK /\ HoldsInv /\ NoLostWakeup

LEMMA QueueInit == Init => QueueInv
<1>. SUFFICES ASSUME Init PROVE QueueInv
  OBVIOUS
<1>1. <<>> \in Seq(Requests) /\ Len(<<>>) = 0
  BY EmptySeq
<1>2. Capacity \in Nat
  BY QueueAssumption
<1>3. TypeOK
  <2>1. queue \in Seq(Requests) /\ Len(queue) <= Capacity
    BY <1>1, <1>2 DEF Init
  <2>2. closed \in BOOLEAN /\ server = "serving"
    BY DEF Init
  <2>3. /\ worker \in [Workers -> {"awake", "asleep", "handling", "exited"}]
        /\ holds \in [Workers -> Requests \cup {Nothing}]
        /\ reply \in [Requests -> {"none", "result", "busy"}]
    BY DEF Init
  <2>. QED BY <2>1, <2>2, <2>3 DEF TypeOK
<1>4. HoldsInv /\ NoLostWakeup
  BY DEF Init, HoldsInv, NoLostWakeup
<1>. QED BY <1>3, <1>4 DEF QueueInv

(* Waking at most one of the sleepers leaves somebody awake.                *)
LEMMA NotifyOneWakes ==
  ASSUME TypeOK, NotifyOne
  PROVE  /\ worker' \in [Workers -> {"awake", "asleep", "handling", "exited"}]
         /\ \E w \in Workers : worker'[w] # "asleep"
         /\ \A w \in Workers : worker'[w] = "handling" => worker[w] = "handling"
<1>1. PICK v \in Workers : TRUE
  BY QueueAssumption
<1>2. CASE Asleep = {}
  BY <1>1, <1>2 DEF NotifyOne, Asleep, TypeOK
<1>3. CASE Asleep # {}
  <2>1. PICK w \in Asleep : worker' = [worker EXCEPT ![w] = "awake"]
    BY <1>3 DEF NotifyOne
  <2>. QED BY <2>1 DEF Asleep, TypeOK
<1>. QED BY <1>2, <1>3

LEMMA EnqueueStep ==
  ASSUME QueueInv, NEW r \in Requests, Enqueue(r)
  PROVE  QueueInv'
<1>1. queue \in Seq(Requests) /\ Len(queue) \in Nat /\ Capacity \in Nat
  BY LenProperties, QueueAssumption DEF QueueInv, TypeOK
<1>2. queue' \in Seq(Requests) /\ Len(queue') = Len(queue) + 1
  BY <1>1, AppendProperties DEF Enqueue
<1>3. Len(queue') <= Capacity
  BY <1>1, <1>2 DEF Enqueue
<1>4. /\ worker' \in [Workers -> {"awake", "asleep", "handling", "exited"}]
      /\ \E w \in Workers : worker'[w] # "asleep"
      /\ \A w \in Workers : worker'[w] = "handling" => worker[w] = "handling"
  BY NotifyOneWakes DEF QueueInv, Enqueue
<1>5. TypeOK'
  BY <1>2, <1>3, <1>4 DEF QueueInv, TypeOK, Enqueue
<1>6. HoldsInv'
  BY <1>4 DEF QueueInv, HoldsInv, Enqueue
<1>7. NoLostWakeup'
  BY <1>4 DEF NoLostWakeup, Asleep
<1>. QED BY <1>5, <1>6, <1>7 DEF QueueInv

LEMMA DequeueStep ==
  ASSUME QueueInv, NEW w \in Workers, Dequeue(w)
  PROVE  QueueInv'
<1>1. queue \in Seq(Requests) /\ queue # <<>> /\ Len(queue) \in Nat /\ Capacity \in Nat
  BY LenProperties, QueueAssumption DEF QueueInv, TypeOK, Dequeue
<1>2. /\ Head(queue) \in Requests
      /\ Tail(queue) \in Seq(Requests)
      /\ Len(Tail(queue)) = Len(queue) - 1
  BY <1>1, HeadTailProperties
<1>3. TypeOK'
  <2>1. Len(queue') <= Capacity
    BY <1>1, <1>2 DEF Dequeue, QueueInv, TypeOK
  <2>. QED BY <1>2, <2>1 DEF QueueInv, TypeOK, Dequeue
<1>4. HoldsInv'
  BY <1>2 DEF QueueInv, TypeOK, HoldsInv, Dequeue
<1>5. NoLostWakeup'
  <2>1. worker'[w] = "handling"
    BY DEF QueueInv, TypeOK, Dequeue
  <2>. QED BY <2>1 DEF NoLostWakeup, Asleep
<1>. QED BY <1>3, <1>4, <1>5 DEF QueueInv

LEMMA QueueStep == QueueInv /\ [Next]_vars => QueueInv'
<1>. SUFFICES ASSUME QueueInv, [Next]_vars PROVE QueueInv'
  OBVIOUS
<1>1. ASSUME NEW r \in Requests, Enqueue(r) PROVE QueueInv'
  BY <1>1, EnqueueStep
<1>2. ASSUME NEW w \in Workers, Dequeue(w) PROVE QueueInv'
  BY <1>2, DequeueStep
<1>. USE DEF QueueInv, TypeOK, HoldsInv, NoLostWakeup, Asleep
<1>3. ASSUME NEW r \in Requests, Refuse(r) PROVE QueueInv'
  BY <1>3 DEF Refuse
<1>4. ASSUME NEW w \in Workers, DequeueNothing(w) PROVE QueueInv'
  BY <1>4 DEF DequeueNothing
<1>5. ASSUME NEW w \in Workers, Handle(w) PROVE QueueInv'
  BY <1>5 DEF Handle
<1>6. ASSUME NEW w \in Workers, SpuriousWakeup(w) PROVE QueueInv'
  BY <1>6 DEF SpuriousWakeup
<1>7. CASE Close
  BY <1>7, QueueAssumption DEF Close
<1>8. CASE ProcessEnds \/ UNCHANGED vars
  BY <1>8 DEF ProcessEnds, vars
<1>. QED
  BY <1>1, <1>2, <1>3, <1>4, <1>5, <1>6, <1>7, <1>8 DEF Next, WorkerStep

LEMMA QueueInvariant == Spec => []QueueInv
  BY QueueInit, QueueStep, PTL DEF Spec

(* The queue, the workers and the answers only hold what they may.          *)
THEOREM QueueTypeCorrect == Spec => []TypeOK
<1>1. QueueInv => TypeOK
  BY DEF QueueInv
<1>. QED BY <1>1, QueueInvariant, PTL

(* While a request waits some worker is not asleep, however the threads,    *)
(* the notifications and the spurious wakeups interleave.                   *)
THEOREM WakeupsNotLost == Spec => []NoLostWakeup
<1>1. QueueInv => NoLostWakeup
  BY DEF QueueInv
<1>. QED BY <1>1, QueueInvariant, PTL

-----------------------------------------------------------------------------
(* Where a request is                                                       *)

InQueue(q, r) == \E i \in DOMAIN q : q[i] = r
Held(h, r) == \E w \in Workers : h[w] = r

(* A request is in one place of the queue, or held by one worker, or        *)
(* answered, and never in two of these.                                     *)
PlaceInv ==
  /\ \A i, j \in DOMAIN queue : queue[i] = queue[j] => i = j
  /\ \A r \in Requests : InQueue(queue, r) => ~Held(holds, r)
  /\ \A r \in Requests : InQueue(queue, r) \/ Held(holds, r) => reply[r] = "none"
  /\ \A w \in Workers : holds[w] # Nothing <=> worker[w] = "handling"
  /\ \A v, w \in Workers : holds[v] = holds[w] /\ holds[v] # Nothing => v = w

PoolInv == QueueInv /\ PlaceInv

LEMMA Places ==
  ASSUME NEW r \in Requests
  PROVE  (r \in Queued <=> InQueue(queue, r)) /\ (r \in Handled <=> Held(holds, r))
BY QueueAssumption DEF Queued, Handled, ToSet, InQueue, Held

LEMMA PlacesAfter ==
  ASSUME NEW r \in Requests
  PROVE  (r \in Queued' <=> InQueue(queue', r)) /\ (r \in Handled' <=> Held(holds', r))
BY QueueAssumption DEF Queued, Handled, ToSet, InQueue, Held

(* Waking a worker does not change which of them are handling.              *)
LEMMA NotifyKeepsHandlers ==
  ASSUME TypeOK, NotifyOne, NEW w \in Workers
  PROVE  worker'[w] = "handling" <=> worker[w] = "handling"
<1>1. CASE Asleep = {}
  BY <1>1 DEF NotifyOne
<1>2. CASE Asleep # {}
  <2>1. PICK v \in Asleep : worker' = [worker EXCEPT ![v] = "awake"]
    BY <1>2 DEF NotifyOne
  <2>. QED BY <2>1 DEF Asleep, TypeOK
<1>. QED BY <1>1, <1>2

LEMMA EnqueuePlaces ==
  ASSUME PoolInv, NEW r \in Requests, Enqueue(r)
  PROVE  /\ PlaceInv'
         /\ \A q \in Requests : InQueue(queue', q) <=> InQueue(queue, q) \/ q = r
         /\ ~InQueue(queue, r) /\ ~Held(holds, r) /\ reply[r] = "none"
         /\ holds' = holds /\ reply' = reply
<1>1. queue \in Seq(Requests) /\ Len(queue) \in Nat /\ DOMAIN queue = 1 .. Len(queue)
  BY LenProperties DEF PoolInv, QueueInv, TypeOK
<1>2. queue' = Append(queue, r) /\ holds' = holds /\ reply' = reply
  BY DEF Enqueue
<1>3. /\ queue' \in Seq(Requests) /\ Len(queue') = Len(queue) + 1
      /\ \A i \in 1 .. Len(queue) : queue'[i] = queue[i]
      /\ queue'[Len(queue) + 1] = r
  BY <1>1, <1>2, AppendProperties
<1>4. DOMAIN queue' = 1 .. (Len(queue) + 1)
  BY <1>3, LenProperties
<1>5. \A q : InQueue(queue', q) <=> InQueue(queue, q) \/ q = r
  BY <1>1, <1>3, <1>4 DEF InQueue
<1>6. ~InQueue(queue, r) /\ ~Held(holds, r) /\ reply[r] = "none"
  BY Places DEF Enqueue
<1>7. \A i, j \in DOMAIN queue' : queue'[i] = queue'[j] => i = j
  BY <1>1, <1>3, <1>4, <1>6 DEF PoolInv, PlaceInv, InQueue
<1>8. \A w \in Workers : worker'[w] = "handling" <=> worker[w] = "handling"
  BY NotifyKeepsHandlers DEF PoolInv, QueueInv, Enqueue
<1>9. PlaceInv'
  BY <1>2, <1>5, <1>6, <1>7, <1>8 DEF PoolInv, PlaceInv, Held
<1>. QED BY <1>2, <1>5, <1>6, <1>9

LEMMA DequeuePlaces ==
  ASSUME PoolInv, NEW w \in Workers, Dequeue(w)
  PROVE  /\ PlaceInv'
         /\ Head(queue) \in Requests
         /\ InQueue(queue, Head(queue)) /\ ~InQueue(queue', Head(queue))
         /\ Held(holds', Head(queue)) /\ reply[Head(queue)] = "none"
         /\ \A q \in Requests \ {Head(queue)} :
              /\ InQueue(queue', q) <=> InQueue(queue, q)
              /\ Held(holds', q) <=> Held(holds, q)
         /\ reply' = reply /\ holds[w] = Nothing
<1>1. queue \in Seq(Requests) /\ queue # <<>> /\ Len(queue) \in Nat
      /\ DOMAIN queue = 1 .. Len(queue)
  BY LenProperties DEF PoolInv, QueueInv, TypeOK, Dequeue
<1>2. Len(queue) # 0
  BY <1>1, EmptySeq
<1>. DEFINE r == Head(queue)
<1>3. /\ queue' = Tail(queue) /\ reply' = reply
      /\ holds' = [holds EXCEPT ![w] = r] /\ worker' = [worker EXCEPT ![w] = "handling"]
      /\ worker[w] = "awake"
  BY DEF Dequeue
<1>4. /\ r \in Requests /\ r = queue[1]
      /\ queue' \in Seq(Requests) /\ Len(queue') = Len(queue) - 1
      /\ \A i \in 1 .. Len(queue') : queue'[i] = queue[i + 1]
  BY <1>1, <1>3, HeadTailProperties
<1>5. DOMAIN queue' = 1 .. (Len(queue) - 1)
  BY <1>4, LenProperties
<1>6. InQueue(queue, r) /\ reply[r] = "none" /\ ~Held(holds, r)
  BY <1>1, <1>2, <1>4 DEF InQueue, PoolInv, PlaceInv
<1>7. ASSUME NEW i \in DOMAIN queue', NEW j \in DOMAIN queue', queue'[i] = queue'[j]
      PROVE  i = j
  <2>1. i + 1 \in DOMAIN queue /\ j + 1 \in DOMAIN queue
    BY <1>1, <1>5
  <2>2. queue[i + 1] = queue[j + 1]
    BY <1>4, <1>5, <1>7
  <2>3. i + 1 = j + 1
    BY <2>1, <2>2 DEF PoolInv, PlaceInv
  <2>. QED BY <1>5, <2>3
<1>8. ~InQueue(queue', r)
  BY <1>1, <1>2, <1>4, <1>5 DEF InQueue, PoolInv, PlaceInv
<1>9. \A q \in Requests \ {r} : InQueue(queue', q) <=> InQueue(queue, q)
  <2>. SUFFICES ASSUME NEW q \in Requests \ {r}
                PROVE  InQueue(queue', q) <=> InQueue(queue, q)
    OBVIOUS
  <2>1. InQueue(queue', q) => InQueue(queue, q)
    BY <1>1, <1>4, <1>5 DEF InQueue
  <2>2. ASSUME NEW i \in DOMAIN queue, queue[i] = q PROVE InQueue(queue', q)
    <3>1. i # 1 /\ i - 1 \in DOMAIN queue'
      BY <1>1, <1>4, <1>5, <2>2
    <3>2. queue'[i - 1] = q
      BY <1>1, <1>4, <1>5, <2>2, <3>1
    <3>. QED BY <3>1, <3>2 DEF InQueue
  <2>. QED BY <2>1, <2>2 DEF InQueue
<1>10. /\ holds[w] = Nothing /\ holds'[w] = r
       /\ \A v \in Workers \ {w} : holds'[v] = holds[v] /\ worker'[v] = worker[v]
       /\ worker'[w] = "handling"
  BY <1>3 DEF PoolInv, QueueInv, TypeOK, PlaceInv
<1>11. Held(holds', r) /\ \A q \in Requests \ {r} : Held(holds', q) <=> Held(holds, q)
  BY <1>10, QueueAssumption DEF Held
<1>12. PlaceInv'
  <2>1. \A q \in Requests : InQueue(queue', q) => ~Held(holds', q)
    BY <1>8, <1>9, <1>11 DEF PoolInv, PlaceInv
  <2>2. \A q \in Requests : InQueue(queue', q) \/ Held(holds', q) => reply'[q] = "none"
    BY <1>3, <1>6, <1>9, <1>11 DEF PoolInv, PlaceInv
  <2>3. \A v \in Workers : holds'[v] # Nothing <=> worker'[v] = "handling"
    BY <1>4, <1>10, QueueAssumption DEF PoolInv, PlaceInv
  <2>4. \A u, v \in Workers : holds'[u] = holds'[v] /\ holds'[u] # Nothing => u = v
    BY <1>6, <1>10 DEF PoolInv, PlaceInv, Held
  <2>. QED BY <1>7, <2>1, <2>2, <2>3, <2>4 DEF PlaceInv
<1>. QED BY <1>3, <1>4, <1>6, <1>8, <1>9, <1>10, <1>11, <1>12

LEMMA HandlePlaces ==
  ASSUME PoolInv, NEW w \in Workers, Handle(w)
  PROVE  /\ PlaceInv'
         /\ holds[w] \in Requests /\ ~InQueue(queue, holds[w]) /\ Held(holds, holds[w])
         /\ reply[holds[w]] = "none" /\ reply'[holds[w]] = "result"
         /\ \A q \in Requests \ {holds[w]} :
              (Held(holds', q) <=> Held(holds, q)) /\ reply'[q] = reply[q]
         /\ queue' = queue
<1>. DEFINE r == holds[w]
<1>1. /\ worker[w] = "handling" /\ queue' = queue
      /\ reply' = [reply EXCEPT ![r] = "result"]
      /\ holds' = [holds EXCEPT ![w] = Nothing] /\ worker' = [worker EXCEPT ![w] = "awake"]
  BY DEF Handle
<1>2. r \in Requests /\ r # Nothing
  BY <1>1, QueueAssumption DEF PoolInv, QueueInv, HoldsInv
<1>3. Held(holds, r) /\ reply[r] = "none" /\ ~InQueue(queue, r)
  BY <1>2 DEF Held, PoolInv, PlaceInv
<1>4. /\ reply'[r] = "result" /\ \A q \in Requests \ {r} : reply'[q] = reply[q]
      /\ holds'[w] = Nothing /\ worker'[w] = "awake"
      /\ \A v \in Workers \ {w} : holds'[v] = holds[v] /\ worker'[v] = worker[v]
  BY <1>1, <1>2 DEF PoolInv, QueueInv, TypeOK
<1>5. ~Held(holds', r) /\ \A q \in Requests \ {r} : Held(holds', q) <=> Held(holds, q)
  BY <1>2, <1>4, QueueAssumption DEF Held, PoolInv, PlaceInv
<1>6. PlaceInv'
  <2>1. \A q \in Requests : InQueue(queue', q) => ~Held(holds', q)
    BY <1>1, <1>5 DEF PoolInv, PlaceInv
  <2>2. ASSUME NEW q \in Requests, InQueue(queue', q) \/ Held(holds', q)
        PROVE  reply'[q] = "none"
    <3>1. InQueue(queue, q) \/ Held(holds', q)
      BY <1>1, <2>2
    <3>2. q # r
      BY <1>3, <1>5, <3>1
    <3>3. InQueue(queue, q) \/ Held(holds, q)
      BY <1>5, <3>1, <3>2
    <3>4. reply[q] = "none"
      BY <3>3 DEF PoolInv, PlaceInv
    <3>. QED BY <1>4, <3>2, <3>4
  <2>3. \A v \in Workers : holds'[v] # Nothing <=> worker'[v] = "handling"
    BY <1>4 DEF PoolInv, PlaceInv
  <2>4. \A u, v \in Workers : holds'[u] = holds'[v] /\ holds'[u] # Nothing => u = v
    BY <1>4 DEF PoolInv, PlaceInv
  <2>. QED BY <1>1, <2>1, <2>2, <2>3, <2>4 DEF PoolInv, PlaceInv
<1>. QED BY <1>1, <1>2, <1>3, <1>4, <1>5, <1>6

LEMMA PoolStep == PoolInv /\ [Next]_vars => PoolInv'
<1>. SUFFICES ASSUME PoolInv, [Next]_vars PROVE PlaceInv'
  BY QueueStep DEF PoolInv
<1>1. ASSUME NEW r \in Requests, Enqueue(r) PROVE PlaceInv'
  BY <1>1, EnqueuePlaces
<1>2. ASSUME NEW w \in Workers, Dequeue(w) PROVE PlaceInv'
  BY <1>2, DequeuePlaces
<1>3. ASSUME NEW w \in Workers, Handle(w) PROVE PlaceInv'
  BY <1>3, HandlePlaces
<1>4. ASSUME NEW r \in Requests, Refuse(r) PROVE PlaceInv'
  <2>1. /\ ~InQueue(queue, r) /\ ~Held(holds, r)
        /\ \A q \in Requests \ {r} : reply'[q] = reply[q]
        /\ UNCHANGED <<queue, worker, holds>>
    BY <1>4, Places DEF Refuse, PoolInv, QueueInv, TypeOK
  <2>. QED BY <2>1 DEF PoolInv, PlaceInv
<1>5. ASSUME UNCHANGED <<queue, holds, reply>>,
             \A w \in Workers : worker'[w] = "handling" <=> worker[w] = "handling"
      PROVE  PlaceInv'
  BY <1>5 DEF PoolInv, PlaceInv
<1>6. ASSUME NEW w \in Workers, DequeueNothing(w) \/ SpuriousWakeup(w) PROVE PlaceInv'
  BY <1>5, <1>6 DEF DequeueNothing, SpuriousWakeup, PoolInv, QueueInv, TypeOK
<1>7. CASE Close
  BY <1>5, <1>7 DEF Close, PoolInv, QueueInv, TypeOK
<1>8. CASE ProcessEnds \/ UNCHANGED vars
  BY <1>5, <1>8 DEF ProcessEnds, vars
<1>. QED BY <1>1, <1>2, <1>3, <1>4, <1>6, <1>7, <1>8 DEF Next, WorkerStep

LEMMA PoolInvariant == Spec => []PoolInv
<1>1. Init => PoolInv
  <2>. SUFFICES ASSUME Init PROVE PlaceInv
    BY QueueInit DEF PoolInv
  <2>1. DOMAIN queue = {}
    BY DEF Init
  <2>2. \A r \in Requests : ~InQueue(queue, r) /\ ~Held(holds, r)
    BY <2>1, QueueAssumption DEF InQueue, Held, Init
  <2>. QED BY <2>1, <2>2 DEF Init, PlaceInv
<1>. QED BY <1>1, PoolStep, PTL DEF Spec

-----------------------------------------------------------------------------
(* The pool implements the service                                          *)

statusBar == [r \in Requests |-> StatusOf(r)]

LEMMA StatusChanges ==
  ASSUME NEW r \in Requests, NEW s,
         StatusOf(r)' = s, \A q \in Requests \ {r} : StatusOf(q)' = StatusOf(q)
  PROVE  statusBar' = [statusBar EXCEPT ![r] = s]
BY DEF statusBar

(* Where a request is, is what its client has come to.                      *)
LEMMA StatusIs ==
  ASSUME NEW r \in Requests
  PROVE  StatusOf(r) = IF reply[r] = "busy" THEN "turned away"
                       ELSE IF reply[r] = "result" THEN "answered"
                       ELSE IF InQueue(queue, r) THEN "accepted"
                       ELSE IF Held(holds, r) THEN "started"
                       ELSE "unsent"
BY Places DEF StatusOf

LEMMA StatusAfter ==
  ASSUME NEW r \in Requests
  PROVE  StatusOf(r)' = IF reply'[r] = "busy" THEN "turned away"
                        ELSE IF reply'[r] = "result" THEN "answered"
                        ELSE IF InQueue(queue', r) THEN "accepted"
                        ELSE IF Held(holds', r) THEN "started"
                        ELSE "unsent"
BY PlacesAfter DEF StatusOf

(* No more wait than the queue is long.                                     *)
LEMMA AcceptedAreFew ==
  ASSUME PoolInv
  PROVE  LET accepted == {r \in Requests : statusBar[r] = "accepted"}
         IN Cardinality(accepted) \in Nat /\ Cardinality(accepted) <= Len(queue)
<1>. DEFINE accepted == {r \in Requests : statusBar[r] = "accepted"}
            at == [i \in 1 .. Len(queue) |-> queue[i]]
<1>1. Len(queue) \in Nat /\ DOMAIN queue = 1 .. Len(queue)
  BY LenProperties DEF PoolInv, QueueInv, TypeOK
<1>2. IsFiniteSet(1 .. Len(queue)) /\ Cardinality(1 .. Len(queue)) = Len(queue)
  <2>1. 1 \in Int /\ Len(queue) \in Int
    BY <1>1
  <2>2. /\ IsFiniteSet(1 .. Len(queue))
        /\ Cardinality(1 .. Len(queue)) = IF 1 > Len(queue) THEN 0 ELSE Len(queue) - 1 + 1
    BY <2>1, FS_Interval
  <2>. QED BY <1>1, <2>2
<1>3. /\ IsFiniteSet({queue[i] : i \in 1 .. Len(queue)})
      /\ Cardinality({queue[i] : i \in 1 .. Len(queue)}) <= Len(queue)
  <2>1. at \in Surjection(1 .. Len(queue), {queue[i] : i \in 1 .. Len(queue)})
    BY DEF Surjection
  <2>. QED BY <1>2, <2>1, FS_Surjection
<1>4. accepted \subseteq {queue[i] : i \in 1 .. Len(queue)}
  BY <1>1, StatusIs DEF statusBar, InQueue
<1>5. IsFiniteSet(accepted) /\ Cardinality(accepted) <= Cardinality({queue[i] : i \in 1 .. Len(queue)})
  BY <1>3, <1>4, FS_Subset
<1>. QED BY <1>1, <1>3, <1>5, FS_CardinalityType

(* While a worker is free, fewer are carried out than there are workers.    *)
LEMMA StartedAreFew ==
  ASSUME PoolInv, NEW w \in Workers, holds[w] = Nothing
  PROVE  LET started == {r \in Requests : statusBar[r] = "started"}
         IN Cardinality(started) < Cardinality(Workers)
<1>. DEFINE started == {r \in Requests : statusBar[r] = "started"}
            others == Workers \ {w}
            by == [v \in others |-> holds[v]]
<1>1. IsFiniteSet(others) /\ Cardinality(others) = Cardinality(Workers) - 1
  BY QueueAssumption, FS_RemoveElement
<1>2. /\ IsFiniteSet({holds[v] : v \in others})
      /\ Cardinality({holds[v] : v \in others}) <= Cardinality(others)
  <2>1. by \in Surjection(others, {holds[v] : v \in others})
    BY DEF Surjection
  <2>. QED BY <1>1, <2>1, FS_Surjection
<1>3. started \subseteq {holds[v] : v \in others}
  BY StatusIs, QueueAssumption DEF statusBar, Held
<1>4. IsFiniteSet(started) /\ Cardinality(started) <= Cardinality({holds[v] : v \in others})
  BY <1>2, <1>3, FS_Subset
<1>. QED BY <1>1, <1>2, <1>4, QueueAssumption, FS_CardinalityType

(* One step of the pool for each step of the service, and the rest stutter. *)
LEMMA HavingIs ==
  \A s : Service!Having(s) = {r \in Requests : statusBar[r] = s}
BY DEF Service!Having, statusBar

LEMMA CardinalityIs == \A S : Service!Cardinality(S) = Cardinality(S)
BY DEF Service!Cardinality, Cardinality

LEMMA EnqueueAccepts ==
  ASSUME PoolInv, NEW r \in Requests, Enqueue(r)
  PROVE  Service!Accept(r)
<1>1. /\ statusBar[r] = "unsent" /\ StatusOf(r)' = "accepted"
      /\ \A q \in Requests \ {r} : StatusOf(q)' = StatusOf(q)
  BY EnqueuePlaces, StatusIs, StatusAfter DEF statusBar
<1>2. Service!Becomes(r, "accepted")
  BY <1>1, StatusChanges DEF Service!Becomes, statusBar
<1>3. Cardinality(Service!Having("accepted")) < Capacity
  <2>1. Len(queue) < Capacity /\ Len(queue) \in Nat /\ Capacity \in Nat
    BY LenProperties, QueueAssumption DEF Enqueue, PoolInv, QueueInv, TypeOK
  <2>2. Service!Having("accepted") = {q \in Requests : statusBar[q] = "accepted"}
    BY HavingIs
  <2>3. Cardinality(Service!Having("accepted")) \in Nat
        /\ Cardinality(Service!Having("accepted")) <= Len(queue)
    BY <2>2, AcceptedAreFew, Zenon
  <2>. QED BY <2>1, <2>3
<1>4. r \in Service!Having("unsent")
  BY <1>1, HavingIs
<1>. QED BY <1>2, <1>3, <1>4, CardinalityIs DEF Service!Accept

LEMMA RefuseTurnsAway ==
  ASSUME PoolInv, NEW r \in Requests, Refuse(r)
  PROVE  Service!TurnAway(r)
<1>1. /\ ~InQueue(queue, r) /\ ~Held(holds, r) /\ reply[r] = "none" /\ reply'[r] = "busy"
      /\ \A q \in Requests \ {r} : reply'[q] = reply[q]
      /\ UNCHANGED <<queue, holds>>
  BY Places DEF Refuse, PoolInv, QueueInv, TypeOK
<1>2. /\ statusBar[r] = "unsent" /\ StatusOf(r)' = "turned away"
      /\ \A q \in Requests \ {r} : StatusOf(q)' = StatusOf(q)
  BY <1>1, StatusIs, StatusAfter DEF statusBar
<1>3. Service!Becomes(r, "turned away")
  BY <1>2, StatusChanges DEF Service!Becomes, statusBar
<1>. QED BY <1>2, <1>3, HavingIs DEF Service!TurnAway

LEMMA DequeueStarts ==
  ASSUME PoolInv, NEW w \in Workers, Dequeue(w)
  PROVE  \E r \in Requests : Service!Start(r)
<1>1. PICK r \in Requests : r = Head(queue)
  BY DequeuePlaces
<1>2. /\ InQueue(queue, r) /\ ~InQueue(queue', r) /\ Held(holds', r) /\ reply[r] = "none"
      /\ \A q \in Requests \ {r} : /\ InQueue(queue', q) <=> InQueue(queue, q)
                                   /\ Held(holds', q) <=> Held(holds, q)
      /\ reply' = reply /\ holds[w] = Nothing
  BY <1>1, DequeuePlaces
<1>3. /\ statusBar[r] = "accepted" /\ StatusOf(r)' = "started"
      /\ \A q \in Requests \ {r} : StatusOf(q)' = StatusOf(q)
  BY <1>2, StatusIs, StatusAfter DEF statusBar
<1>4. Service!Becomes(r, "started")
  BY <1>3, StatusChanges DEF Service!Becomes, statusBar
<1>5. Cardinality(Service!Having("started")) < Cardinality(Workers)
  BY <1>2, StartedAreFew, HavingIs
<1>. QED BY <1>3, <1>4, <1>5, HavingIs, CardinalityIs DEF Service!Start

LEMMA HandleAnswers ==
  ASSUME PoolInv, NEW w \in Workers, Handle(w)
  PROVE  \E r \in Requests : Service!Answer(r)
<1>1. PICK r \in Requests : r = holds[w]
  BY HandlePlaces
<1>2. /\ ~InQueue(queue, r) /\ Held(holds, r) /\ reply[r] = "none" /\ reply'[r] = "result"
      /\ \A q \in Requests \ {r} : (Held(holds', q) <=> Held(holds, q)) /\ reply'[q] = reply[q]
      /\ queue' = queue
  BY <1>1, HandlePlaces
<1>3. /\ statusBar[r] = "started" /\ StatusOf(r)' = "answered"
      /\ \A q \in Requests \ {r} : StatusOf(q)' = StatusOf(q)
  BY <1>2, StatusIs, StatusAfter DEF statusBar
<1>4. Service!Becomes(r, "answered")
  BY <1>3, StatusChanges DEF Service!Becomes, statusBar
<1>. QED BY <1>3, <1>4, HavingIs DEF Service!Answer

LEMMA OthersStutter ==
  ASSUME UNCHANGED <<queue, holds, reply>>
  PROVE  statusBar' = statusBar
BY StatusIs, StatusAfter DEF statusBar

(* Each step of the pool is a step of the service its clients see, or none: *)
(* BoundedWorkQueue and its workers accept, carry out and answer every      *)
(* request once, within the two bounds, for every number of threads.        *)
THEOREM PoolImplementsService == Spec => ImplementsService
<1>1. Init => Service!Init
  <2>. SUFFICES ASSUME Init PROVE \A r \in Requests : StatusOf(r) = "unsent"
    BY DEF Service!Init
  <2>. QED BY StatusIs, QueueAssumption DEF Init, InQueue, Held
<1>2. PoolInv /\ [Next]_vars => [Service!Next]_statusBar
  <2>. SUFFICES ASSUME PoolInv, [Next]_vars PROVE [Service!Next]_statusBar
    OBVIOUS
  <2>1. ASSUME NEW r \in Requests, Enqueue(r) \/ Refuse(r) PROVE Service!Next
    BY <2>1, EnqueueAccepts, RefuseTurnsAway DEF Service!Next
  <2>2. ASSUME NEW w \in Workers, Dequeue(w) \/ Handle(w) PROVE Service!Next
    BY <2>2, DequeueStarts, HandleAnswers DEF Service!Next
  <2>3. ASSUME NEW w \in Workers, DequeueNothing(w) \/ SpuriousWakeup(w)
        PROVE  statusBar' = statusBar
    BY <2>3, OthersStutter DEF DequeueNothing, SpuriousWakeup
  <2>4. CASE Close \/ ProcessEnds \/ UNCHANGED vars
    BY <2>4, OthersStutter DEF Close, ProcessEnds, vars
  <2>. QED BY <2>1, <2>2, <2>3, <2>4 DEF Next, WorkerStep
<1>. QED
  BY <1>1, <1>2, PoolInvariant, PTL DEF Spec, ImplementsService, Service!Spec, statusBar

=============================================================================
