------------------------- MODULE SeccompNotifyProofs -------------------------
(***************************************************************************)
(* Proofs about SeccompNotify: the record of denials stays within its cap, *)
(* and it is complete with respect to what the processes were refused, for *)
(* every set of processes and system calls and every cap.                  *)
(***************************************************************************)
EXTENDS SeccompNotify, FiniteSetTheorems, TLAPS

(* The record is finite, so that the cap on its cardinality means something.*)
FiniteLog == IsFiniteSet(log.denials)

(* A suspended process is suspended in a call, and from the notification to *)
(* the reply the supervisor knows which denial it is answering.             *)
CallInv == \A p \in Procs : Suspended(p) => call[p] \in Syscalls
RequestInv == superv \in {"recording", "replying"} => request \in Denials

TypeInv == TypeOK /\ FiniteLog /\ CallInv /\ RequestInv

LEMMA RecordedType ==
  ASSUME NEW buffer \in Buffers, IsFiniteSet(buffer.denials),
         Cardinality(buffer.denials) <= MaxRecorded, NEW d \in Denials
  PROVE  /\ Recorded(buffer, d) \in Buffers
         /\ IsFiniteSet(Recorded(buffer, d).denials)
         /\ Cardinality(Recorded(buffer, d).denials) <= MaxRecorded
         /\ buffer.denials \subseteq Recorded(buffer, d).denials
         /\ buffer.dropped <= Recorded(buffer, d).dropped
         /\ d \in Recorded(buffer, d).denials \/ Recorded(buffer, d).dropped > 0
<1>1. /\ Cardinality(buffer.denials) \in Nat
      /\ MaxRecorded \in Nat
      /\ buffer.dropped \in Nat
      /\ buffer.denials \subseteq Denials
  BY FS_CardinalityType, NotifyAssumption DEF Buffers
<1>2. CASE d \in buffer.denials
  BY <1>1, <1>2 DEF Recorded
<1>3. CASE d \notin buffer.denials /\ Cardinality(buffer.denials) >= MaxRecorded
  <2>1. Recorded(buffer, d) = [buffer EXCEPT !.dropped = @ + 1]
    BY <1>3 DEF Recorded
  <2>. QED BY <1>1, <2>1 DEF Buffers
<1>4. CASE d \notin buffer.denials /\ Cardinality(buffer.denials) < MaxRecorded
  <2>1. Recorded(buffer, d) = [buffer EXCEPT !.denials = @ \cup {d}]
    BY <1>1, <1>4 DEF Recorded
  <2>2. /\ IsFiniteSet(buffer.denials \cup {d})
        /\ Cardinality(buffer.denials \cup {d}) = Cardinality(buffer.denials) + 1
    BY <1>4, FS_AddElement
  <2>3. /\ Recorded(buffer, d).denials = buffer.denials \cup {d}
        /\ Recorded(buffer, d).dropped = buffer.dropped
        /\ Recorded(buffer, d) \in Buffers
    BY <1>1, <2>1 DEF Buffers
  <2>. QED BY <1>1, <1>4, <2>2, <2>3
<1>. QED BY <1>1, <1>2, <1>3, <1>4

-----------------------------------------------------------------------------
(* Type correctness                                                         *)

LEMMA TypeInit == Init => TypeInv
<1>. SUFFICES ASSUME Init PROVE TypeInv
  OBVIOUS
<1>1. IsFiniteSet({}) /\ Cardinality({}) = 0
  BY FS_EmptySet
<1>2. EmptyBuffer \in Buffers /\ EmptyBuffer.denials = {}
  BY DEF EmptyBuffer, Buffers
<1>3. MaxRecorded \in Nat /\ MaxAttempts \in Nat
  BY NotifyAssumption
<1>4. TypeOK /\ FiniteLog
  <2>1. Cardinality(log.denials) <= MaxRecorded /\ FiniteLog /\ attempts \in 0 .. MaxAttempts
    BY <1>1, <1>2, <1>3 DEF Init, FiniteLog
  <2>2. proc \in [Procs -> {"unborn"}] /\ call \in [Procs -> {NoCall}]
    BY DEF Init
  <2>3. log \in Buffers /\ drained \in Buffers /\ refused \subseteq Denials
        /\ unheard \subseteq Denials
    BY <1>2 DEF Init
  <2>. QED BY <2>1, <2>2, <2>3 DEF Init, TypeOK
<1>5. CallInv /\ RequestInv
  BY DEF Init, CallInv, RequestInv, Suspended
<1>. QED BY <1>4, <1>5 DEF TypeInv

LEMMA EndsType ==
  ASSUME TypeOK, NEW p \in Procs, NEW state \in {"running", "dead", "aborted"}, Ends(p, state)
  PROVE  /\ \A q \in Procs \ {p} : proc'[q] = proc[q] /\ call'[q] = call[q]
         /\ proc'[p] = state
         /\ proc' \in [Procs -> {"unborn", "setup", "waiting", "running", "blocked", "held",
                                 "dead", "aborted"}]
         /\ call' \in [Procs -> Syscalls \cup {NoCall}]
         /\ parentEnd' \subseteq {"supervisor", "child"}
         /\ childEnd' \subseteq {"command", "child"}
  BY DEF TypeOK, Ends

LEMMA SupervisorEndsType ==
  ASSUME TypeInv, NEW end \in {"gone", "failed"}, SupervisorEnds(end)
  PROVE  TypeInv'
<1>1. \A p \in Procs : Suspended(p) => <<call[p], p>> \in Denials
  BY DEF TypeInv, CallInv, Denials
<1>2. unheard' \subseteq Denials
  BY <1>1 DEF TypeInv, TypeOK, SupervisorEnds
<1>. QED
  BY <1>2 DEF TypeInv, TypeOK, FiniteLog, CallInv, RequestInv, Suspended, SupervisorEnds, denials

LEMMA TypeStep == TypeInv /\ [Next]_vars => TypeInv'
<1>. SUFFICES ASSUME TypeInv, [Next]_vars PROVE TypeInv'
  OBVIOUS
<1>. USE DEF TypeInv, FiniteLog, CallInv, RequestInv, Suspended
<1>1. ASSUME NEW started \in BOOLEAN, StartSupervisor(started) PROVE TypeInv'
  BY <1>1 DEF StartSupervisor, TypeOK, denials
<1>2. CASE Fork
  BY <1>2, NotifyAssumption DEF Fork, TypeOK, denials
<1>3. CASE SpawnReturns
  BY <1>3 DEF SpawnReturns, TypeOK, denials
<1>4. CASE Reap \/ DropHandle \/ SpawnFails
  BY <1>4 DEF Reap, DropHandle, SpawnFails, TypeOK, denials, socket
<1>5. CASE Drain
  <2>1. EmptyBuffer \in Buffers /\ EmptyBuffer.denials = {}
    BY DEF EmptyBuffer, Buffers
  <2>2. IsFiniteSet({}) /\ Cardinality({}) = 0
    BY FS_EmptySet
  <2>. QED BY <1>5, <2>1, <2>2, NotifyAssumption DEF Drain, TypeOK, socket
<1>6. CASE Join
  BY <1>6 DEF Join, TypeOK, denials
<1>7. CASE SetupFails
  BY <1>7, EndsType, NotifyAssumption DEF SetupFails, TypeOK, denials
<1>8. CASE SendListener
  <2>1. CASE parentEnd # {}
    BY <1>8, <2>1, NotifyAssumption DEF SendListener, TypeOK, denials
  <2>2. CASE parentEnd = {}
    BY <1>8, <2>2, EndsType, NotifyAssumption DEF SendListener, TypeOK, denials
  <2>. QED BY <2>1, <2>2
<1>9. ASSUME NEW execed \in BOOLEAN, ReadReply(execed) PROVE TypeInv'
  BY <1>9, EndsType, NotifyAssumption DEF ReadReply, TypeOK, denials
<1>10. CASE ReceiveListener \/ Acknowledge
  BY <1>10 DEF ReceiveListener, Acknowledge, TypeOK, denials
<1>11. CASE ReceiveGivesUp \/ AcknowledgeFails \/ PollHangup
  BY <1>11, SupervisorEndsType DEF ReceiveGivesUp, AcknowledgeFails, PollHangup
<1>12. CASE SuperviseUntilShutdown
  <2>1. CASE shutdown
    BY <1>12, <2>1, SupervisorEndsType DEF SuperviseUntilShutdown
  <2>2. CASE ~shutdown
    BY <1>12, <2>2 DEF SuperviseUntilShutdown, TypeOK, denials, socket
  <2>. QED BY <2>1, <2>2
<1>13. CASE PollTimesOut \/ PollReady \/ RequestGone \/ Interrupted
  BY <1>13 DEF PollTimesOut, PollReady, RequestGone, Interrupted, TypeOK, denials, socket
<1>14. ASSUME NEW p \in Procs, ReceiveRequest(p) PROVE TypeInv'
  BY <1>14 DEF ReceiveRequest, Blocked, TypeOK, Denials, denials, socket
<1>15. CASE RecordDenial
  <2>1. request \in Denials /\ log' = Recorded(log, request)
    BY <1>15 DEF RecordDenial
  <2>2. log' \in Buffers /\ IsFiniteSet(log'.denials) /\ Cardinality(log'.denials) <= MaxRecorded
    BY <1>15, <2>1, RecordedType DEF TypeOK
  <2>. QED BY <1>15, <2>1, <2>2 DEF RecordDenial, TypeOK, socket
<1>16. CASE Reply
  BY <1>16 DEF Reply, TypeOK, Denials, denials, socket
<1>17. ASSUME NEW p \in Procs, NEW q \in Procs, Spawn(p, q) PROVE TypeInv'
  BY <1>17 DEF Spawn, TypeOK, denials, socket
<1>18. ASSUME NEW p \in Procs, NEW s \in Syscalls, Attempt(p, s) PROVE TypeInv'
  <2>1. CASE Stopped
    BY <1>18, <2>1, NotifyAssumption DEF Attempt, Stopped, TypeOK, Denials, socket
  <2>2. CASE ~Stopped
    BY <1>18, <2>2, NotifyAssumption DEF Attempt, Stopped, TypeOK, socket
  <2>. QED BY <2>1, <2>2
<1>19. ASSUME NEW p \in Procs, Die(p) PROVE TypeInv'
  BY <1>19, EndsType DEF Die, TypeOK, denials
<1>20. CASE SupervisorFails
  BY <1>20, SupervisorEndsType DEF SupervisorFails
<1>21. CASE UNCHANGED vars
  BY <1>21 DEF vars, TypeOK, denials, socket
<1>. QED
  BY <1>1, <1>2, <1>3, <1>4, <1>5, <1>6, <1>7, <1>8, <1>9, <1>10, <1>11, <1>12, <1>13,
     <1>14, <1>15, <1>16, <1>17, <1>18, <1>19, <1>20, <1>21
     DEF Next, MainStep, ChildStep, SupervisorStep

(* The supervisor and the launch only ever hold values of their types, and  *)
(* the record of denials never exceeds MAX_RECORDED_DENIALS.                *)
THEOREM NotifyTypeCorrect == Spec => []TypeOK
<1>1. Spec => []TypeInv
  BY TypeInit, TypeStep, PTL DEF Spec
<1>2. TypeInv => TypeOK
  BY DEF TypeInv
<1>. QED BY <1>1, <1>2, PTL

-----------------------------------------------------------------------------
(* The record is complete.  RefusedAreRecorded is not inductive: a reply    *)
(* may only come once its denial is kept, and draining keeps everything     *)
(* only because it happens once, into an empty result.                      *)

Kept(d) ==
  d \in log.denials \cup drained.denials \/ log.dropped + drained.dropped > 0

(* What the child was refused is in what was drained.                       *)
OwnRefusalsDrained ==
  main = "drained" =>
    \/ {d \in refused : d[2] = Child} \subseteq drained.denials
    \/ drained.dropped > 0

RecordInv ==
  /\ main \in {"preparing", "ready", "spawning", "running", "reaped"} => drained = EmptyBuffer
  /\ superv = "replying" => Kept(request)
  /\ \A d \in refused : Kept(d)
  /\ main \in {"reaped", "drained"} => proc[Child] = "dead"
  /\ OwnRefusalsDrained

NotifyInv == TypeInv /\ RecordInv

(* Steps that touch neither the record nor a reply in progress.             *)
LEMMA RecordQuiet ==
  ASSUME NotifyInv, UNCHANGED <<log, drained, refused>>,
         superv' = "replying" => superv = "replying" /\ request' = request,
         main' \in {"preparing", "ready", "spawning", "running", "reaped"} =>
           main \in {"preparing", "ready", "spawning", "running", "reaped"},
         main' = "drained" => main = "drained",
         main' = "reaped" => main = "reaped" \/ proc[Child] = "dead",
         proc[Child] = "dead" => proc'[Child] = "dead"
  PROVE  RecordInv'
BY DEF NotifyInv, RecordInv, Kept, OwnRefusalsDrained

LEMMA RecordDrain ==
  ASSUME NotifyInv, Drain
  PROVE  RecordInv'
<1>1. /\ drained = EmptyBuffer /\ log' = EmptyBuffer /\ drained' = log
      /\ log \in Buffers
      /\ main' = "drained" /\ proc[Child] = "dead" /\ proc' = proc
      /\ refused' = refused /\ superv' = superv /\ request' = request
  BY DEF NotifyInv, TypeInv, TypeOK, RecordInv, Drain, socket
<1>2. EmptyBuffer.denials = {} /\ EmptyBuffer.dropped = 0 /\ log.dropped \in Nat
  BY <1>1 DEF EmptyBuffer, Buffers
<1>3. ASSUME NEW d, Kept(d)
      PROVE  Kept(d)' /\ (d \in drained'.denials \/ drained'.dropped > 0)
  BY <1>1, <1>2, <1>3 DEF Kept
<1>4. \A d \in refused : Kept(d)
  BY DEF NotifyInv, RecordInv
<1>5. OwnRefusalsDrained'
  BY <1>1, <1>3, <1>4 DEF OwnRefusalsDrained
<1>6. superv' = "replying" => Kept(request)'
  <2>1. superv = "replying" => Kept(request)
    BY DEF NotifyInv, RecordInv
  <2>. QED BY <1>1, <1>2, <2>1 DEF Kept
<1>7. \A d \in refused' : Kept(d)'
  BY <1>1, <1>3, <1>4
<1>. QED BY <1>1, <1>5, <1>6, <1>7 DEF RecordInv

LEMMA RecordRecord ==
  ASSUME NotifyInv, RecordDenial
  PROVE  RecordInv'
<1>1. /\ log \in Buffers /\ drained \in Buffers /\ request \in Denials
      /\ IsFiniteSet(log.denials) /\ Cardinality(log.denials) <= MaxRecorded
      /\ log' = Recorded(log, request)
      /\ UNCHANGED <<main, proc, request, drained, refused>>
  BY DEF NotifyInv, TypeInv, TypeOK, FiniteLog, RequestInv, RecordDenial
<1>2. /\ log' \in Buffers
      /\ log.denials \subseteq log'.denials
      /\ log.dropped <= log'.dropped
      /\ request \in log'.denials \/ log'.dropped > 0
  BY <1>1, RecordedType
<1>3. log.dropped \in Nat /\ log'.dropped \in Nat /\ drained.dropped \in Nat
  BY <1>1, <1>2 DEF Buffers
<1>4. \A d : Kept(d) => Kept(d)'
  BY <1>1, <1>2, <1>3 DEF Kept
<1>5. Kept(request)'
  BY <1>1, <1>2, <1>3 DEF Kept
<1>6. OwnRefusalsDrained'
  BY <1>1 DEF NotifyInv, RecordInv, OwnRefusalsDrained
<1>. QED BY <1>1, <1>4, <1>5, <1>6 DEF NotifyInv, RecordInv

LEMMA RecordReply ==
  ASSUME NotifyInv, Reply
  PROVE  RecordInv'
<1>1. /\ request \in Denials /\ Kept(request)
      /\ UNCHANGED <<main, log, drained>> /\ superv' = "checking"
  BY DEF NotifyInv, TypeInv, RequestInv, RecordInv, Reply
<1>2. PICK s \in Syscalls, p \in Procs : request = <<s, p>>
  BY <1>1 DEF Denials
<1>3. CASE proc[p] = "held"
  <2>1. refused' = refused \cup {request} /\ proc' = [proc EXCEPT ![p] = "running"]
    BY <1>2, <1>3 DEF Reply
  <2>2. main \in {"reaped", "drained"} => p # Child /\ proc'[Child] = proc[Child]
    BY <1>3, <2>1, NotifyAssumption DEF NotifyInv, TypeInv, TypeOK, RecordInv
  <2>3. OwnRefusalsDrained'
    BY <1>1, <1>2, <2>1, <2>2 DEF NotifyInv, RecordInv, OwnRefusalsDrained
  <2>4. \A d \in refused' : Kept(d)'
    BY <1>1, <2>1 DEF NotifyInv, RecordInv, Kept
  <2>. QED BY <1>1, <2>2, <2>3, <2>4 DEF NotifyInv, RecordInv
<1>4. CASE proc[p] # "held"
  <2>1. refused' = refused /\ proc' = proc
    BY <1>2, <1>4 DEF Reply
  <2>. QED BY <1>1, <2>1 DEF NotifyInv, RecordInv, Kept, OwnRefusalsDrained
<1>. QED BY <1>3, <1>4

LEMMA RecordStep == NotifyInv /\ [Next]_vars => RecordInv'
<1>. SUFFICES ASSUME NotifyInv, [Next]_vars PROVE RecordInv'
  OBVIOUS
<1>. USE DEF denials
<1>0. proc \in [Procs -> {"unborn", "setup", "waiting", "running", "blocked", "held",
                          "dead", "aborted"}] /\ Child \in Procs /\ TypeOK
  BY NotifyAssumption DEF NotifyInv, TypeInv, TypeOK
<1>1. CASE Drain
  BY <1>1, RecordDrain
<1>2. CASE RecordDenial
  BY <1>2, RecordRecord
<1>3. CASE Reply
  BY <1>3, RecordReply
<1>4. ASSUME NEW started \in BOOLEAN, StartSupervisor(started) PROVE RecordInv'
  BY <1>4, RecordQuiet DEF StartSupervisor
<1>5. CASE Fork
  BY <1>5 DEF Fork, NotifyInv, RecordInv, Kept, OwnRefusalsDrained
<1>6. CASE SpawnReturns \/ Reap \/ DropHandle \/ SpawnFails \/ Join
  BY <1>6, RecordQuiet DEF SpawnReturns, Reap, DropHandle, SpawnFails, Join, socket
<1>7. CASE SetupFails \/ SendListener
  BY <1>0, <1>7, RecordQuiet, EndsType DEF SetupFails, SendListener
<1>8. ASSUME NEW execed \in BOOLEAN, ReadReply(execed) PROVE RecordInv'
  BY <1>0, <1>8, RecordQuiet, EndsType DEF ReadReply
<1>9. CASE \/ ReceiveListener \/ Acknowledge \/ PollTimesOut \/ PollReady \/ RequestGone
           \/ Interrupted
  BY <1>9, RecordQuiet
     DEF ReceiveListener, Acknowledge, PollTimesOut, PollReady, RequestGone, Interrupted, socket
<1>10. ASSUME NEW end \in {"gone", "failed"}, SupervisorEnds(end) PROVE RecordInv'
  BY <1>0, <1>10, RecordQuiet DEF SupervisorEnds, Suspended
<1>11. CASE SuperviseUntilShutdown
  BY <1>10, <1>11, RecordQuiet DEF SuperviseUntilShutdown, socket
<1>12. ASSUME NEW p \in Procs, NEW q \in Procs, Spawn(p, q) PROVE RecordInv'
  BY <1>0, <1>12, RecordQuiet DEF Spawn, socket
<1>13. ASSUME NEW p \in Procs, NEW s \in Syscalls, Attempt(p, s) PROVE RecordInv'
  <2>1. proc' = proc \/ (proc[p] = "running" /\ proc' = [proc EXCEPT ![p] = "blocked"])
    BY <1>13 DEF Attempt
  <2>. QED BY <1>0, <1>13, <2>1, RecordQuiet DEF Attempt, socket
<1>14. ASSUME NEW p \in Procs, Die(p) PROVE RecordInv'
  BY <1>0, <1>14, RecordQuiet, EndsType DEF Die, Alive
<1>15. ASSUME NEW p \in Procs, ReceiveRequest(p) PROVE RecordInv'
  BY <1>0, <1>15 DEF ReceiveRequest, Blocked, NotifyInv, RecordInv, Kept, OwnRefusalsDrained, socket
<1>16. CASE UNCHANGED vars
  BY <1>16, RecordQuiet DEF vars, socket
<1>. QED
  BY <1>1, <1>2, <1>3, <1>4, <1>5, <1>6, <1>7, <1>8, <1>9, <1>10, <1>11, <1>12, <1>13,
     <1>14, <1>15, <1>16
     DEF Next, MainStep, ChildStep, SupervisorStep, ReceiveGivesUp, AcknowledgeFails, PollHangup,
         SupervisorFails

LEMMA NotifyInvariant == Spec => []NotifyInv
<1>1. Init => NotifyInv
  <2>1. Init => RecordInv
    BY DEF Init, RecordInv, OwnRefusalsDrained
  <2>. QED BY <2>1, TypeInit DEF NotifyInv
<1>2. NotifyInv /\ [Next]_vars => NotifyInv'
  BY TypeStep, RecordStep DEF NotifyInv
<1>. QED BY <1>1, <1>2, PTL DEF Spec

(* What a process was refused is recorded or counted as dropped.            *)
THEOREM DenialsRecorded == Spec => []RefusedAreRecorded
<1>1. NotifyInv => RefusedAreRecorded
  BY DEF NotifyInv, RecordInv, Kept, RefusedAreRecorded
<1>. QED BY <1>1, NotifyInvariant, PTL

-----------------------------------------------------------------------------
(* Nobody runs without a supervisor.  Supervised itself is not inductive:   *)
(* the child starts on the strength of an acknowledgement sent earlier, so  *)
(* the invariant follows the listener and the acknowledgement.              *)

(* Someone is under the filter and has been let go.                         *)
Started == \E p \in Procs : proc[p] = "running" \/ Suspended(p)

SupervisedInv ==
  /\ main = "preparing" => superv = "none"
  /\ main \in {"preparing", "ready"} => proc[Child] = "unborn"
  /\ handover \/ ack \/ superv \notin {"none", "receiving", "gone"} =>
       proc[Child] \notin {"unborn", "setup"}
  /\ superv \in {"none", "receiving", "acking"} => ~ack /\ ~Started
  /\ superv = "gone" /\ (Started \/ (ack /\ proc[Child] = "waiting")) => shutdown

(* Steps that let nobody go and leave the handover as it is.                *)
LEMMA SupervisedQuiet ==
  ASSUME SupervisedInv, UNCHANGED <<handover, ack>>, shutdown => shutdown',
         \/ superv' = superv
         \/ /\ superv \notin {"none", "receiving", "acking", "gone"}
            /\ superv' \notin {"none", "receiving", "acking", "gone"},
         Started' => Started,
         main' \in {"preparing", "ready"} => main' = main,
         \/ proc'[Child] = proc[Child]
         \/ /\ proc[Child] \notin {"unborn", "setup"}
            /\ proc'[Child] \notin {"unborn", "setup", "waiting"}
  PROVE  SupervisedInv'
BY DEF SupervisedInv

(* The supervisor ends before it has let the child go, when it is told to,  *)
(* or when nobody is left.                                                  *)
LEMMA SupervisedEnds ==
  ASSUME TypeOK, SupervisedInv, SupervisorEnds("gone"), superv # "none",
         \/ superv \in {"receiving", "acking"}
         \/ shutdown
         \/ \A p \in Procs : ~Alive(p)
  PROVE  SupervisedInv'
<1>1. /\ superv' = "gone" /\ UNCHANGED <<main, handover, ack, shutdown>>
      /\ proc' = [p \in Procs |-> IF Suspended(p) THEN "running" ELSE proc[p]]
  BY DEF SupervisorEnds
<1>2. Child \in Procs
  BY NotifyAssumption
<1>3. (Started' => Started) /\ (proc'[Child] = "waiting" => proc[Child] = "waiting")
  BY <1>1, <1>2 DEF Started, Suspended
<1>4. (\A p \in Procs : ~Alive(p)) => ~Started /\ proc[Child] # "waiting"
  BY <1>2 DEF Started, Suspended, Alive
<1>5. proc[Child] \in {"unborn", "setup"} <=> proc'[Child] \in {"unborn", "setup"}
  BY <1>1, <1>2 DEF Suspended
<1>6. main \in {"preparing", "ready"} => main # "preparing" /\ proc'[Child] = "unborn"
  BY <1>1, <1>2, <1>3, <1>4 DEF SupervisedInv, Suspended
<1>. QED BY <1>1, <1>3, <1>4, <1>5, <1>6 DEF SupervisedInv

LEMMA SupervisedStep == TypeOK /\ SupervisedInv /\ [Next]_vars => SupervisedInv'
<1>. SUFFICES ASSUME TypeOK, SupervisedInv, [Next]_vars PROVE SupervisedInv'
  OBVIOUS
<1>0. /\ proc \in [Procs -> {"unborn", "setup", "waiting", "running", "blocked", "held",
                             "dead", "aborted"}]
      /\ Child \in Procs
  BY NotifyAssumption DEF TypeOK
<1>1. ASSUME NEW started \in BOOLEAN, StartSupervisor(started) PROVE SupervisedInv'
  BY <1>1 DEF StartSupervisor, SupervisedInv, Started, Suspended
<1>2. CASE Fork
  <2>1. Started' => Started
    BY <1>0, <1>2 DEF Fork, Started, Suspended
  <2>2. proc'[Child] = "setup" /\ main' = "spawning" /\ proc[Child] = "unborn"
    BY <1>0, <1>2 DEF Fork, SupervisedInv
  <2>. QED BY <1>2, <2>1, <2>2 DEF Fork, SupervisedInv
<1>3. CASE SpawnReturns \/ Reap \/ Drain \/ DropHandle \/ SpawnFails \/ Join
  BY <1>3, SupervisedQuiet
     DEF SpawnReturns, Reap, Drain, DropHandle, SpawnFails, Join, socket, Started, Suspended
<1>4. CASE SetupFails
  <2>1. Started' => Started
    BY <1>0, <1>4, EndsType DEF SetupFails, Started, Suspended
  <2>2. proc'[Child] = "aborted" /\ proc[Child] = "setup"
    BY <1>0, <1>4, EndsType DEF SetupFails
  <2>. QED BY <1>4, <2>1, <2>2 DEF SetupFails, SupervisedInv
<1>5. CASE SendListener
  <2>1. /\ Started' => Started
        /\ proc[Child] = "setup" /\ proc'[Child] \in {"waiting", "dead"}
    BY <1>0, <1>5, EndsType DEF SendListener, Started, Suspended
  <2>. QED BY <1>5, <2>1 DEF SendListener, SupervisedInv
<1>6. ASSUME NEW execed \in BOOLEAN, ReadReply(execed) PROVE SupervisedInv'
  <2>1. /\ proc[Child] = "waiting" /\ proc'[Child] \in {"running", "aborted"}
        /\ proc'[Child] = "running" => ack
        /\ UNCHANGED <<main, superv, handover, shutdown>> /\ ~ack'
    BY <1>0, <1>6, EndsType DEF ReadReply
  <2>2. Started' => Started \/ ack
    BY <1>0, <1>6, <2>1, EndsType DEF ReadReply, Started, Suspended
  <2>. QED BY <2>1, <2>2 DEF SupervisedInv
<1>7. CASE ReceiveListener \/ Acknowledge
  BY <1>7 DEF ReceiveListener, Acknowledge, SupervisedInv, Started, Suspended
<1>8. CASE ReceiveGivesUp \/ AcknowledgeFails \/ PollHangup
  BY <1>8, SupervisedEnds DEF ReceiveGivesUp, AcknowledgeFails, PollHangup
<1>9. CASE SuperviseUntilShutdown
  <2>1. CASE shutdown
    BY <1>9, <2>1, SupervisedEnds DEF SuperviseUntilShutdown
  <2>2. CASE ~shutdown
    BY <1>9, <2>2, SupervisedQuiet DEF SuperviseUntilShutdown, socket, Started, Suspended
  <2>. QED BY <2>1, <2>2
<1>10. CASE PollTimesOut \/ PollReady \/ RequestGone \/ Interrupted \/ RecordDenial
  BY <1>10, SupervisedQuiet
     DEF PollTimesOut, PollReady, RequestGone, Interrupted, RecordDenial, socket, Started,
         Suspended
<1>11. ASSUME NEW p \in Procs, ReceiveRequest(p) PROVE SupervisedInv'
  <2>1. Started /\ proc[p] = "blocked" /\ proc' = [proc EXCEPT ![p] = "held"]
    BY <1>11 DEF ReceiveRequest, Blocked, Started, Suspended
  <2>. QED BY <1>0, <1>11, <2>1, SupervisedQuiet DEF ReceiveRequest, socket
<1>12. CASE Reply
  <2>1. CASE proc[request[2]] = "held" /\ request[2] \in Procs
    <3>1. Started /\ proc' = [proc EXCEPT ![request[2]] = "running"]
      BY <1>12, <2>1 DEF Reply, Started, Suspended
    <3>. QED BY <1>0, <1>12, <2>1, <3>1, SupervisedQuiet DEF Reply, socket
  <2>2. CASE ~(proc[request[2]] = "held" /\ request[2] \in Procs)
    <3>1. proc' = proc
      BY <1>0, <1>12, <2>2 DEF Reply
    <3>. QED BY <1>12, <3>1, SupervisedQuiet DEF Reply, socket, Started, Suspended
  <2>. QED BY <2>1, <2>2
<1>13. ASSUME NEW p \in Procs, NEW q \in Procs, Spawn(p, q) PROVE SupervisedInv'
  <2>1. Started /\ q # Child /\ proc' = [proc EXCEPT ![q] = "running"]
    BY <1>13 DEF Spawn, Started, Suspended
  <2>. QED BY <1>0, <1>13, <2>1, SupervisedQuiet DEF Spawn, socket
<1>14. ASSUME NEW p \in Procs, NEW s \in Syscalls, Attempt(p, s) PROVE SupervisedInv'
  <2>1. /\ Started /\ proc[p] = "running"
        /\ proc' = proc \/ proc' = [proc EXCEPT ![p] = "blocked"]
    BY <1>14 DEF Attempt, Started, Suspended
  <2>. QED BY <1>0, <1>14, <2>1, SupervisedQuiet DEF Attempt, socket
<1>15. ASSUME NEW p \in Procs, Die(p) PROVE SupervisedInv'
  <2>1. /\ proc[p] # "unborn" /\ proc'[p] = "dead"
        /\ \A q \in Procs \ {p} : proc'[q] = proc[q]
    BY <1>0, <1>15, EndsType DEF Die, Alive
  <2>2. Started' => Started
    BY <1>0, <2>1 DEF Started, Suspended
  <2>. QED BY <1>0, <1>15, <2>1, <2>2 DEF Die, SupervisedInv
<1>16. CASE SupervisorFails
  <2>1. /\ superv \in {"polling", "ready", "replying"} /\ superv' = "failed"
        /\ UNCHANGED <<main, handover, ack, shutdown>>
        /\ proc' = [p \in Procs |-> IF Suspended(p) THEN "running" ELSE proc[p]]
    BY <1>16 DEF SupervisorFails, SupervisorEnds
  <2>2. (Started' => Started) /\ (proc'[Child] = proc[Child] \/ proc'[Child] = "running")
    BY <1>0, <2>1 DEF Started, Suspended
  <2>3. proc[Child] \notin {"unborn", "setup"}
    BY <2>1 DEF SupervisedInv
  <2>. QED BY <2>1, <2>2, <2>3, SupervisedQuiet
<1>17. CASE UNCHANGED vars
  BY <1>17, SupervisedQuiet DEF vars, socket, Started, Suspended
<1>. QED
  BY <1>1, <1>2, <1>3, <1>4, <1>5, <1>6, <1>7, <1>8, <1>9, <1>10, <1>11, <1>12, <1>13,
     <1>14, <1>15, <1>16, <1>17
     DEF Next, MainStep, ChildStep, SupervisorStep

LEMMA SupervisedInvariant == Spec => []SupervisedInv
<1>1. Init => SupervisedInv
  BY NotifyAssumption DEF Init, SupervisedInv, Started, Suspended
<1>. QED BY <1>1, SupervisedStep, NotifyTypeCorrect, PTL DEF Spec

(* No program runs under the filter before the supervisor answers, and it   *)
(* stops answering only because the run has let go of the child, or because *)
(* poll or the listener failed.                                             *)
THEOREM NobodyRunsAlone == Spec => []Supervised
<1>1. SupervisedInv => Supervised
  BY SMT DEF SupervisedInv, Supervised, Started
<1>. QED BY <1>1, SupervisedInvariant, PTL

-----------------------------------------------------------------------------
(* As long as poll and the listener work, and the run has not told the      *)
(* supervisor to stop, nothing is denied without it.                        *)

UnheardInv ==
  /\ main \notin {"joining", "done"} => ~shutdown
  /\ shutdown \/ superv = "failed" \/ unheard = {}

LEMMA UnheardEnds ==
  ASSUME SupervisedInv, UnheardInv, SupervisorEnds("gone"), superv # "failed",
         \/ superv \in {"receiving", "acking"}
         \/ shutdown
         \/ \A p \in Procs : ~Alive(p)
  PROVE  UnheardInv'
<1>1. /\ UNCHANGED <<main, shutdown>>
      /\ unheard' = unheard \cup {<<call[p], p>> : p \in {q \in Procs : Suspended(q)}}
  BY DEF SupervisorEnds
<1>2. CASE shutdown
  BY <1>1, <1>2 DEF UnheardInv
<1>3. CASE ~shutdown
  <2>1. \A p \in Procs : ~Suspended(p)
    BY <1>3 DEF SupervisedInv, Started, Suspended, Alive
  <2>2. unheard' = unheard
    BY <1>1, <2>1
  <2>. QED BY <1>1, <1>3, <2>2 DEF UnheardInv
<1>. QED BY <1>2, <1>3

LEMMA UnheardStep == SupervisedInv /\ UnheardInv /\ [Next]_vars => UnheardInv'
<1>. SUFFICES ASSUME SupervisedInv, UnheardInv, [Next]_vars PROVE UnheardInv'
  OBVIOUS
<1>. USE DEF denials, UnheardInv
<1>1. ASSUME NEW started \in BOOLEAN, StartSupervisor(started) PROVE UnheardInv'
  BY <1>1 DEF StartSupervisor, SupervisedInv
<1>2. CASE Fork \/ SpawnFails \/ SpawnReturns \/ Reap \/ Drain \/ DropHandle \/ Join
  BY <1>2 DEF Fork, SpawnFails, SpawnReturns, Reap, Drain, DropHandle, Join, socket
<1>3. CASE SetupFails \/ SendListener
  BY <1>3 DEF SetupFails, SendListener
<1>4. ASSUME NEW execed \in BOOLEAN, ReadReply(execed) PROVE UnheardInv'
  BY <1>4 DEF ReadReply
<1>5. CASE \/ ReceiveListener \/ Acknowledge \/ PollTimesOut \/ PollReady \/ RequestGone
           \/ Interrupted \/ RecordDenial \/ Reply
  BY <1>5
     DEF ReceiveListener, Acknowledge, PollTimesOut, PollReady, RequestGone, Interrupted,
         RecordDenial, Reply, socket
<1>6. CASE ReceiveGivesUp \/ AcknowledgeFails \/ PollHangup
  BY <1>6, UnheardEnds DEF ReceiveGivesUp, AcknowledgeFails, PollHangup
<1>7. CASE SuperviseUntilShutdown
  <2>1. CASE shutdown
    BY <1>7, <2>1, UnheardEnds DEF SuperviseUntilShutdown
  <2>2. CASE ~shutdown
    BY <1>7, <2>2 DEF SuperviseUntilShutdown, socket
  <2>. QED BY <2>1, <2>2
<1>8. CASE SupervisorFails
  BY <1>8 DEF SupervisorFails, SupervisorEnds
<1>9. ASSUME NEW p \in Procs, NEW q \in Procs, Spawn(p, q) PROVE UnheardInv'
  BY <1>9 DEF Spawn, socket
<1>10. ASSUME NEW p \in Procs, NEW s \in Syscalls, Attempt(p, s) PROVE UnheardInv'
  <2>1. CASE Stopped
    <3>1. shutdown \/ superv = "failed"
      BY <1>10, <2>1 DEF Attempt, Stopped, SupervisedInv, Started
    <3>. QED BY <1>10, <3>1 DEF Attempt, socket
  <2>2. CASE ~Stopped
    BY <1>10, <2>2 DEF Attempt, socket
  <2>. QED BY <2>1, <2>2
<1>11. ASSUME NEW p \in Procs, Die(p) PROVE UnheardInv'
  BY <1>11 DEF Die
<1>12. ASSUME NEW p \in Procs, ReceiveRequest(p) PROVE UnheardInv'
  BY <1>12 DEF ReceiveRequest, socket
<1>13. CASE UNCHANGED vars
  BY <1>13 DEF vars, socket
<1>. QED
  BY <1>1, <1>2, <1>3, <1>4, <1>5, <1>6, <1>7, <1>8, <1>9, <1>10, <1>11, <1>12, <1>13
     DEF Next, MainStep, ChildStep, SupervisorStep

(* What the launched child itself was refused is in what the run drains,    *)
(* and unless the supervisor had failed nothing was denied without it.      *)
THEOREM ChildDenialsDrained == Spec => []OwnDenialsDrained
<1>1. Init => UnheardInv
  BY DEF Init, UnheardInv
<1>2. NotifyInv /\ UnheardInv => OwnDenialsDrained
  BY DEF NotifyInv, RecordInv, UnheardInv, OwnRefusalsDrained, OwnDenialsDrained
<1>. QED BY <1>1, <1>2, UnheardStep, SupervisedInvariant, NotifyInvariant, PTL DEF Spec

=============================================================================
