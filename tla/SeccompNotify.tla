---------------------------- MODULE SeccompNotify ----------------------------
(***************************************************************************)
(* The launch of a sandboxed child under a notifying seccomp filter, and   *)
(* the supervisor thread that answers and records what the filter denies:  *)
(* crates/clawcrate-sandbox/src/linux_notify.rs, and launch_with_stdio,    *)
(* apply_linux_seccomp_filter and LinuxSandboxedChild of linux.rs, used    *)
(* by launch_and_capture of crates/clawcrate-cli/src/run.rs.               *)
(*                                                                         *)
(* Three parties: the main thread, the supervisor thread and the child,    *)
(* which may fork others that inherit the filter.  The kernel's part (fork *)
(* copies descriptors, exec and death close them, an unanswered denial     *)
(* suspends its caller, closing the listener releases it with ENOSYS) is   *)
(* modelled as this code relies on it.                                     *)
(***************************************************************************)
EXTENDS Naturals, FiniteSets

CONSTANTS
  Procs,         (* the launched child and the processes it may fork         *)
  Child,         (* the launched child                                       *)
  Syscalls,      (* the system calls the profile denies                      *)
  MaxRecorded,   (* MAX_RECORDED_DENIALS                                     *)
  MaxAttempts,   (* bound: denied calls attempted in one run                 *)
  NoCall         (* no call is suspended, no denial is being answered        *)

ASSUME NotifyAssumption ==
  /\ Child \in Procs
  /\ IsFiniteSet(Procs)
  /\ NoCall \notin Syscalls \cup (Syscalls \X Procs)
  /\ MaxRecorded \in Nat \ {0}
  /\ MaxAttempts \in Nat

VARIABLES
  main,        (* where launch_with_stdio and launch_and_capture are         *)
  superv,      (* where the supervisor thread is                             *)
  proc,        (* process -> its state                                       *)
  call,        (* process -> the denied call it is suspended in              *)
  parentEnd,   (* who holds a descriptor of the socket's parent end          *)
  childEnd,    (* who holds a descriptor of its child end                    *)
  handover,    (* the listener is on its way to the supervisor               *)
  ack,         (* the acknowledgement is on its way to the child             *)
  shutdown,    (* SupervisorShutdown                                         *)
  request,     (* the denial the supervisor is answering                     *)
  log,         (* DenialBuffer: the denials and the number dropped           *)
  drained,     (* what drain returned, in the same form                      *)
  attempts,    (* bound: how many denied calls were attempted                *)
  refused,     (* history: the denials a process was answered EPERM for      *)
  unheard      (* history: those the kernel failed with ENOSYS instead       *)

socket == <<parentEnd, childEnd, handover, ack>>
denials == <<log, drained, refused, unheard>>
vars == <<main, superv, proc, call, socket, shutdown, request, denials, attempts>>

Denials == Syscalls \X Procs
Buffers == [denials : SUBSET Denials, dropped : Nat]
EmptyBuffer == [denials |-> {}, dropped |-> 0]

TypeOK ==
  /\ main \in {"preparing", "ready", "spawning", "running", "reaped", "drained",
               "joining", "done"}
  /\ superv \in {"none", "receiving", "acking", "checking", "polling", "ready",
                 "recording", "replying", "gone", "failed"}
  /\ proc \in [Procs -> {"unborn", "setup", "waiting", "running", "blocked", "held",
                         "dead", "aborted"}]
  /\ call \in [Procs -> Syscalls \cup {NoCall}]
  /\ parentEnd \subseteq {"supervisor", "child"}
  /\ childEnd \subseteq {"command", "child"}
  /\ handover \in BOOLEAN /\ ack \in BOOLEAN /\ shutdown \in BOOLEAN
  /\ request \in Denials \cup {NoCall}
  /\ log \in Buffers /\ drained \in Buffers
  /\ Cardinality(log.denials) <= MaxRecorded
  /\ attempts \in 0 .. MaxAttempts
  /\ refused \subseteq Denials /\ unheard \subseteq Denials

Alive(p) == proc[p] \in {"setup", "waiting", "running", "blocked", "held"}
Suspended(p) == proc[p] \in {"blocked", "held"}
Blocked == {p \in Procs : proc[p] = "blocked"}

(* The supervisor thread has returned, or never started.                    *)
Stopped == superv \in {"gone", "failed"}

Init ==
  /\ main = "preparing"
  /\ superv = "none"
  /\ proc = [p \in Procs |-> "unborn"]
  /\ call = [p \in Procs |-> NoCall]
  /\ parentEnd = {"supervisor"}
  /\ childEnd = {"command"}
  /\ handover = FALSE /\ ack = FALSE /\ shutdown = FALSE
  /\ request = NoCall
  /\ log = EmptyBuffer /\ drained = EmptyBuffer
  /\ attempts = 0
  /\ refused = {} /\ unheard = {}

-----------------------------------------------------------------------------
(* The main thread                                                          *)

(* The thread is created before the fork, or cannot be, and then its end of *)
(* the socket is dropped and the launch goes on (`.ok()`).                  *)
StartSupervisor(started) ==
  /\ main = "preparing"
  /\ main' = "ready"
  /\ superv' = IF started THEN "receiving" ELSE "gone"
  /\ parentEnd' = IF started THEN parentEnd ELSE {}
  /\ UNCHANGED <<proc, call, childEnd, handover, ack, shutdown, request, denials, attempts>>

(* fork: the child gets a copy of every descriptor open at that moment, the *)
(* supervisor's end of the socket included.  CLOEXEC closes them at exec.   *)
Fork ==
  /\ main = "ready"
  /\ main' = "spawning"
  /\ proc' = [proc EXCEPT ![Child] = "setup"]
  /\ parentEnd' = IF parentEnd = {} THEN {} ELSE parentEnd \cup {"child"}
  /\ childEnd' = childEnd \cup {"child"}
  /\ UNCHANGED <<superv, call, handover, ack, shutdown, request, denials, attempts>>

(* spawn returns an error: fork failed, or the child reported one before    *)
(* exec.  The supervisor is dropped first, `command` and its end after it.  *)
SpawnFails ==
  /\ \/ main = "ready"
     \/ main = "spawning" /\ proc[Child] = "aborted"
  /\ main' = "joining"
  /\ shutdown' = TRUE
  /\ UNCHANGED <<superv, proc, call, socket, request, denials, attempts>>

(* The child's exec, or its death, closes the pipe spawn reads errors from. *)
SpawnReturns ==
  /\ main = "spawning"
  /\ proc[Child] \in {"running", "blocked", "held", "dead"}
  /\ main' = "running"
  /\ childEnd' = childEnd \ {"command"}
  /\ UNCHANGED <<superv, proc, call, parentEnd, handover, ack, shutdown, request,
                 denials, attempts>>

Reap ==
  /\ main = "running" /\ proc[Child] = "dead"
  /\ main' = "reaped"
  /\ UNCHANGED <<superv, proc, call, socket, shutdown, request, denials, attempts>>

(* A faulty variant: the count is reset before it is returned.              *)
DrainResetFirst ==
  /\ main = "reaped"
  /\ main' = "drained"
  /\ drained' = [log EXCEPT !.dropped = 0]
  /\ log' = EmptyBuffer
  /\ UNCHANGED <<superv, proc, call, socket, shutdown, request, attempts, refused, unheard>>

Drain ==
  /\ main = "reaped"
  /\ main' = "drained"
  /\ drained' = log
  /\ log' = EmptyBuffer
  /\ UNCHANGED <<superv, proc, call, socket, shutdown, request, attempts, refused, unheard>>

(* launch_and_capture returns: at its end, or early because monitoring the  *)
(* child failed, and then nothing is drained and the child may still run.   *)
DropHandle ==
  /\ main \in {"running", "drained"}
  /\ main' = "joining"
  /\ shutdown' = TRUE
  /\ UNCHANGED <<superv, proc, call, socket, request, denials, attempts>>

Join ==
  /\ main = "joining" /\ Stopped
  /\ main' = "done"
  /\ childEnd' = childEnd \ {"command"}
  /\ UNCHANGED <<superv, proc, call, parentEnd, handover, ack, shutdown, request,
                 denials, attempts>>

-----------------------------------------------------------------------------
(* The child and its descendants                                            *)

(* Ends the process p with the given state: its descriptors are closed and  *)
(* what it waited for is forgotten.                                         *)
Ends(p, state) ==
  /\ proc' = [proc EXCEPT ![p] = state]
  /\ call' = [call EXCEPT ![p] = NoCall]
  /\ parentEnd' = IF p = Child THEN parentEnd \ {"child"} ELSE parentEnd
  /\ childEnd' = IF p = Child THEN childEnd \ {"child"} ELSE childEnd

(* Limits, Landlock or the filter cannot be applied: spawn gets the error.  *)
SetupFails ==
  /\ proc[Child] = "setup"
  /\ Ends(Child, "aborted")
  /\ UNCHANGED <<main, superv, handover, ack, shutdown, request, denials, attempts>>

(* The filter is live and the listener is sent.  With nobody left at the    *)
(* other end, sendmsg raises SIGPIPE, whose default action std restored.    *)
SendListener ==
  /\ proc[Child] = "setup"
  /\ IF parentEnd # {}
     THEN /\ proc' = [proc EXCEPT ![Child] = "waiting"]
          /\ handover' = TRUE
          /\ UNCHANGED <<call, parentEnd, childEnd>>
     ELSE Ends(Child, "dead") /\ UNCHANGED handover
  /\ UNCHANGED <<main, superv, ack, shutdown, request, denials, attempts>>

(* The read after the handover returns: the acknowledgement, and exec       *)
(* succeeds or does not, or end of file once every parent end is closed.    *)
ReadReply(execed) ==
  /\ proc[Child] = "waiting"
  /\ ack \/ parentEnd = {}
  /\ ack' = FALSE
  /\ Ends(Child, IF ack /\ execed THEN "running" ELSE "aborted")
  /\ UNCHANGED <<main, superv, handover, shutdown, request, denials, attempts>>

Spawn(p, q) ==
  /\ proc[p] = "running" /\ proc[q] = "unborn" /\ q # Child
  /\ proc' = [proc EXCEPT ![q] = "running"]
  /\ UNCHANGED <<main, superv, call, socket, shutdown, request, denials, attempts>>

(* A denied call suspends its caller, or fails with ENOSYS at once when the *)
(* listener is closed.                                                      *)
Attempt(p, s) ==
  /\ proc[p] = "running" /\ attempts < MaxAttempts
  /\ attempts' = attempts + 1
  /\ IF Stopped
     THEN unheard' = unheard \cup {<<s, p>>} /\ UNCHANGED <<proc, call>>
     ELSE /\ proc' = [proc EXCEPT ![p] = "blocked"]
          /\ call' = [call EXCEPT ![p] = s]
          /\ UNCHANGED unheard
  /\ UNCHANGED <<main, superv, socket, shutdown, request, log, drained, refused>>

(* A process exits when it is running, or is killed, wherever it is.        *)
Die(p) ==
  /\ Alive(p)
  /\ Ends(p, "dead")
  /\ UNCHANGED <<main, superv, handover, ack, shutdown, request, denials, attempts>>

-----------------------------------------------------------------------------
(* The supervisor thread                                                    *)

(* The thread ends: its end of the socket and the listener are closed, and  *)
(* the kernel releases every caller still suspended with ENOSYS.            *)
SupervisorEnds(end) ==
  /\ superv' = end
  /\ parentEnd' = parentEnd \ {"supervisor"}
  /\ request' = NoCall
  /\ proc' = [p \in Procs |-> IF Suspended(p) THEN "running" ELSE proc[p]]
  /\ call' = [p \in Procs |-> NoCall]
  /\ unheard' = unheard \cup {<<call[p], p>> : p \in {q \in Procs : Suspended(q)}}
  /\ UNCHANGED <<main, childEnd, handover, ack, shutdown, log, drained, refused, attempts>>

ReceiveListener ==
  /\ superv = "receiving" /\ handover
  /\ superv' = "acking"
  /\ handover' = FALSE
  /\ UNCHANGED <<main, proc, call, parentEnd, childEnd, ack, shutdown, request,
                 denials, attempts>>

(* recvmsg gives up after LISTENER_HANDOVER_TIMEOUT_SECONDS, or at once     *)
(* when every child end is closed.                                          *)
ReceiveGivesUp ==
  /\ superv = "receiving" /\ ~handover
  /\ SupervisorEnds("gone")

(* A faulty variant: supervising starts without releasing the child.        *)
SuperviseUnacknowledged ==
  /\ superv = "acking" /\ childEnd # {}
  /\ superv' = "checking"
  /\ UNCHANGED <<main, proc, call, socket, shutdown, request, denials, attempts>>

Acknowledge ==
  /\ superv = "acking" /\ childEnd # {}
  /\ superv' = "checking"
  /\ ack' = TRUE
  /\ UNCHANGED <<main, proc, call, parentEnd, childEnd, handover, shutdown, request,
                 denials, attempts>>

AcknowledgeFails ==
  /\ superv = "acking" /\ childEnd = {}
  /\ SupervisorEnds("gone")

SuperviseUntilShutdown ==
  /\ superv = "checking"
  /\ IF shutdown THEN SupervisorEnds("gone")
     ELSE /\ superv' = "polling"
          /\ UNCHANGED <<main, proc, call, socket, shutdown, request, denials, attempts>>

(* A faulty variant: the launched child's end is taken for the end of every *)
(* process under the filter.                                                *)
HangupOfChild ==
  /\ superv = "polling" /\ ~Alive(Child)
  /\ SupervisorEnds("gone")

(* poll: nothing within the slice, a notification, or a hangup because no   *)
(* process is left under the filter.                                        *)
PollTimesOut ==
  /\ superv = "polling" /\ Blocked = {}
  /\ superv' = "checking"
  /\ UNCHANGED <<main, proc, call, socket, shutdown, request, denials, attempts>>

PollReady ==
  /\ superv = "polling" /\ Blocked # {}
  /\ superv' = "ready"
  /\ UNCHANGED <<main, proc, call, socket, shutdown, request, denials, attempts>>

PollHangup ==
  /\ superv = "polling" /\ \A p \in Procs : ~Alive(p)
  /\ SupervisorEnds("gone")

(* A signal interrupts poll or NOTIF_RECV: both are tried again.            *)
Interrupted ==
  /\ superv \in {"polling", "ready"}
  /\ superv' = "checking"
  /\ UNCHANGED <<main, proc, call, socket, shutdown, request, denials, attempts>>

(* Any other error of poll or NOTIF_RECV, and any error of NOTIF_SEND but   *)
(* that its caller has died, an interruption included, ends supervise while *)
(* the processes go on.                                                     *)
SupervisorFails ==
  /\ superv \in {"polling", "ready", "replying"}
  /\ SupervisorEnds("failed")

(* NOTIF_RECV: a suspended caller, or ENOENT because it died after poll.    *)
ReceiveRequest(p) ==
  /\ superv = "ready" /\ p \in Blocked
  /\ superv' = "recording"
  /\ request' = <<call[p], p>>
  /\ proc' = [proc EXCEPT ![p] = "held"]
  /\ UNCHANGED <<main, call, socket, shutdown, denials, attempts>>

RequestGone ==
  /\ superv = "ready" /\ Blocked = {}
  /\ superv' = "checking"
  /\ UNCHANGED <<main, proc, call, socket, shutdown, request, denials, attempts>>

(* A faulty variant: a cap that forgets without counting.                   *)
RecordedForgetful(buffer, d) ==
  IF Cardinality(buffer.denials) >= MaxRecorded THEN buffer
  ELSE [buffer EXCEPT !.denials = @ \cup {d}]

(* DeniedSyscallLog::record: repeats collapse, and what does not fit any    *)
(* more is counted.                                                         *)
Recorded(buffer, d) ==
  IF d \in buffer.denials THEN buffer
  ELSE IF Cardinality(buffer.denials) >= MaxRecorded
  THEN [buffer EXCEPT !.dropped = @ + 1]
  ELSE [buffer EXCEPT !.denials = @ \cup {d}]

RecordDenial ==
  /\ superv = "recording"
  /\ superv' = "replying"
  /\ log' = Recorded(log, request)
  /\ UNCHANGED <<main, proc, call, socket, shutdown, request, drained, attempts, refused, unheard>>

(* A faulty variant: a denial that did not fit is not answered.             *)
ReplyIfRecorded ==
  /\ superv = "replying"
  /\ superv' = "checking"
  /\ request' = NoCall
  /\ LET p == request[2] IN
     IF proc[p] = "held" /\ request \in log.denials
     THEN /\ proc' = [proc EXCEPT ![p] = "running"]
          /\ call' = [call EXCEPT ![p] = NoCall]
          /\ refused' = refused \cup {request}
     ELSE UNCHANGED <<proc, call, refused>>
  /\ UNCHANGED <<main, socket, shutdown, log, drained, attempts, unheard>>

(* NOTIF_SEND: EPERM for the caller, or ENOENT because it has died.         *)
Reply ==
  /\ superv = "replying"
  /\ superv' = "checking"
  /\ request' = NoCall
  /\ LET p == request[2] IN
     IF proc[p] = "held"
     THEN /\ proc' = [proc EXCEPT ![p] = "running"]
          /\ call' = [call EXCEPT ![p] = NoCall]
          /\ refused' = refused \cup {request}
     ELSE UNCHANGED <<proc, call, refused>>
  /\ UNCHANGED <<main, socket, shutdown, log, drained, attempts, unheard>>

-----------------------------------------------------------------------------

MainStep ==
  \/ \E started \in BOOLEAN : StartSupervisor(started)
  \/ Fork
  \/ SpawnReturns
  \/ Reap
  \/ Drain
  \/ Join

ChildStep ==
  \/ SendListener
  \/ \E execed \in BOOLEAN : ReadReply(execed)

SupervisorStep ==
  \/ ReceiveListener
  \/ ReceiveGivesUp
  \/ Acknowledge
  \/ AcknowledgeFails
  \/ SuperviseUntilShutdown
  \/ PollTimesOut
  \/ PollReady
  \/ PollHangup
  \/ \E p \in Procs : ReceiveRequest(p)
  \/ RequestGone
  \/ RecordDenial
  \/ Reply

Next ==
  \/ MainStep
  \/ SpawnFails
  \/ DropHandle
  \/ ChildStep
  \/ SetupFails
  \/ SupervisorStep
  \/ Interrupted
  \/ SupervisorFails
  \/ \E p, q \in Procs : Spawn(p, q)
  \/ \E p \in Procs, s \in Syscalls : Attempt(p, s)
  \/ \E p \in Procs : Die(p)

(* Threads and the launched child are scheduled; no program need fork, make *)
(* a denied call, fail or end.  The main thread always leaves these states, *)
(* and signals do not interrupt every poll there is.                        *)
Fairness ==
  /\ WF_vars(MainStep)
  /\ WF_vars(SpawnFails /\ main = "spawning")
  /\ WF_vars(DropHandle /\ main = "drained")
  /\ WF_vars(ChildStep)
  /\ WF_vars(SupervisorStep)
  /\ SF_vars(PollReady)
  /\ SF_vars(\E p \in Procs : ReceiveRequest(p))

Spec == Init /\ [][Next]_vars
FairSpec == Spec /\ Fairness

-----------------------------------------------------------------------------
(* Properties                                                               *)

(* "Record before replying, so the trail cannot claim fewer denials than    *)
(* the child actually experienced": whatever a process was refused is       *)
(* recorded, or counted as dropped, drained or not.                         *)
RefusedAreRecorded ==
  refused \subseteq log.denials \cup drained.denials
    \/ log.dropped + drained.dropped > 0

(* What the launched child itself was refused is in what the run drains,    *)
(* wherever the supervisor and the other processes are at that moment; and  *)
(* unless poll or the listener failed no process was denied anything behind *)
(* the supervisor's back by then, with nothing to tell it.                  *)
OwnDenialsDrained ==
  main = "drained" =>
    /\ \/ {d \in refused : d[2] = Child} \subseteq drained.denials
       \/ drained.dropped > 0
    /\ superv # "failed" => unheard = {}

(* No program runs under the filter before someone answers its denials, and *)
(* while the run holds the child nobody stops answering them unless poll or *)
(* the listener failed: what others of the processes do or how they end     *)
(* never brings the supervisor to stop.                                     *)
Supervised ==
  (\E p \in Procs : proc[p] = "running" \/ Suspended(p)) =>
    /\ superv \notin {"none", "receiving", "acking"}
    /\ superv = "gone" => shutdown

(* A denied call returns: nothing leaves its caller suspended for good.     *)
AttemptAnswered == \A p \in Procs : Suspended(p) ~> ~Suspended(p)

(* Giving up the child handle ends: the supervisor notices and is joined.   *)
JoinReturns == main = "joining" ~> main = "done"

(* Nobody waits for the supervisor for ever: neither the processes it has to *)
(* answer nor the thread that joins it.                                     *)
NobodyLeftWaiting == AttemptAnswered /\ JoinReturns

(* While a supervisor exists, spawn returns.                                *)
LaunchEndsIfSupervised == main = "spawning" ~> (main # "spawning" \/ superv = "gone")

(* "If the parent closes the channel instead of acknowledging, the read     *)
(* sees EOF and this fails, aborting the launch": spawn returns, whatever   *)
(* became of the supervisor.                                                *)
LaunchEnds == main = "spawning" ~> main # "spawning"

=============================================================================
