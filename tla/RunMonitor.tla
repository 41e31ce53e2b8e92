----------------------------- MODULE RunMonitor -----------------------------
(***************************************************************************)
(* run_monitored_child of crates/clawcrate-cli/src/run.rs: the loop that   *)
(* forwards interrupts to the sandboxed child, enforces the time limit and *)
(* waits for the exit, and the loop after it that waits for the captured   *)
(* output.  Around it: the child and a descendant in its process group,    *)
(* the thread of capture_streams, and the user's signals.                  *)
(*                                                                         *)
(* Time is counted down: a turn of a loop lasts POLL_INTERVAL or longer,   *)
(* and a deadline is over when its counter is 0.                           *)
(***************************************************************************)
EXTENDS Naturals, FiniteSets

CONSTANTS
  Limit,       (* max_cpu_seconds of the profile, in turns of the loop       *)
  Grace,       (* INTERRUPT_GRACE_PERIOD                                     *)
  DrainGrace,  (* CAPTURE_DRAIN_GRACE_PERIOD                                 *)
  DrainMax,    (* CAPTURE_DRAIN_MAX_WAIT                                     *)
  MaxDelay,    (* bound: how many intervals one turn may last                *)
  MaxPresses   (* bound: how many signals the user sends                     *)

ASSUME MonitorAssumption ==
  /\ {Limit, Grace, DrainGrace, MaxDelay} \subseteq Nat \ {0}
  /\ DrainMax \in Nat /\ DrainGrace <= DrainMax
  /\ MaxPresses \in Nat

VARIABLES
  phase,       (* the next check of the loop, then draining, then returned   *)
  limited,     (* timeout_seconds > 0                                        *)
  limit,       (* time left to the limit                                     *)
  grace,       (* time left since SIGTERM was sent                           *)
  drain,       (* time spent waiting for the capture thread                  *)
  interrupted, timedOut, forced, drainKilled,   (* the flags of the loops    *)
  result,      (* what the function returned                                 *)
  pending,     (* the signals that arrived since the last poll               *)
  child,       (* running, zombie, reaped                                    *)
  cause,       (* what ended it: itself, this program's signal, another's    *)
  termSent,    (* SIGTERM was sent to the group                              *)
  desc,        (* a descendant: in the child's process group or away from it *)
  writers,     (* who holds the write ends of stdout and stderr              *)
  capture,     (* the capture thread: reading, done, failed                  *)
  presses,     (* bound: signals sent by the user                            *)
  kills        (* history: why SIGKILL was sent                              *)

loopVars == <<limited, limit, grace, interrupted, timedOut, forced>>
drainVars == <<drain, drainKilled, result>>
processes == <<child, cause, desc, writers>>
monitorVars == <<phase, loopVars, drainVars, pending, processes, termSent, capture, presses, kills>>

MonitorInit ==
  /\ phase = "polling"
  /\ limited \in BOOLEAN
  /\ limit = Limit /\ grace = Grace /\ drain = 0
  /\ interrupted = FALSE /\ timedOut = FALSE /\ forced = FALSE /\ drainKilled = FALSE
  /\ result = "none"
  /\ pending = {}
  /\ child = "running" /\ cause = "none" /\ termSent = FALSE
  /\ desc = "unborn"
  /\ writers = {"child"}
  /\ capture = "reading"
  /\ presses = 0
  /\ kills = {}

Less(t, d) == IF t > d THEN t - d ELSE 0

(* A faulty variant: only the child's pid is signalled.                     *)
KillChild(why) ==
  /\ kills' = kills \cup {why}
  /\ child' = IF child = "running" THEN "zombie" ELSE child
  /\ cause' = IF child = "running" THEN "ours" ELSE cause
  /\ writers' = writers \ {"child"}
  /\ UNCHANGED desc

(* send_kill_signal: to the child's pid, then to its process group; a       *)
(* process that is gone is no error.                                        *)
Kill(why) ==
  /\ kills' = kills \cup {why}
  /\ child' = IF child = "running" THEN "zombie" ELSE child
  /\ cause' = IF child = "running" THEN "ours" ELSE cause
  /\ desc' = IF desc = "group" THEN "dead" ELSE desc
  /\ writers' = IF desc = "group" THEN {} ELSE writers \ {"child"}

KillNothing == UNCHANGED <<processes, kills>>

-----------------------------------------------------------------------------
(* The first loop                                                           *)

(* Both signals may be pending at once; each of them counts once however    *)
(* often it was sent.                                                       *)
PollInterrupts ==
  /\ phase = "polling"
  /\ phase' = "limit"
  /\ pending' = {}
  /\ interrupted' = (interrupted \/ pending # {})
  /\ termSent' = (termSent \/ pending # {})
  /\ grace' = IF interrupted' /\ ~interrupted THEN Grace ELSE grace
  /\ IF /\ Cardinality(pending) > 1 \/ (pending # {} /\ interrupted)
        /\ ~timedOut /\ ~forced
     THEN forced' = TRUE /\ Kill("repeated")
     ELSE UNCHANGED forced /\ KillNothing
  /\ UNCHANGED <<limited, limit, timedOut, drainVars, capture, presses>>

(* A faulty variant: the timeout is not remembered.                         *)
CheckLimitForgetful ==
  /\ phase = "limit"
  /\ phase' = "grace"
  /\ IF ~timedOut /\ limited /\ limit = 0 THEN Kill("limit") ELSE KillNothing
  /\ UNCHANGED <<loopVars, drainVars, pending, termSent, capture, presses>>

CheckLimit ==
  /\ phase = "limit"
  /\ phase' = "grace"
  /\ IF ~timedOut /\ limited /\ limit = 0
     THEN timedOut' = TRUE /\ Kill("limit")
     ELSE UNCHANGED timedOut /\ KillNothing
  /\ UNCHANGED <<limited, limit, grace, interrupted, forced, drainVars, pending, termSent,
                 capture, presses>>

CheckGrace ==
  /\ phase = "grace"
  /\ phase' = "waiting"
  /\ IF interrupted /\ ~timedOut /\ ~forced /\ grace = 0
     THEN forced' = TRUE /\ Kill("grace")
     ELSE UNCHANGED forced /\ KillNothing
  /\ UNCHANGED <<limited, limit, grace, interrupted, timedOut, drainVars, pending, termSent,
                 capture, presses>>

TryWait ==
  /\ phase = "waiting"
  /\ IF child = "zombie"
     THEN child' = "reaped" /\ phase' = "draining"
     ELSE UNCHANGED child /\ phase' = "sleeping"
  /\ UNCHANGED <<loopVars, drainVars, pending, cause, desc, writers, termSent, capture,
                 presses, kills>>

(* A faulty variant: the run's start is taken anew on every turn.           *)
SleepAndRestart(d) ==
  /\ phase = "sleeping"
  /\ phase' = "polling"
  /\ limit' = Limit
  /\ grace' = IF interrupted THEN Less(grace, d) ELSE grace
  /\ UNCHANGED <<limited, interrupted, timedOut, forced, drainVars, pending, processes,
                 termSent, capture, presses, kills>>

Sleep(d) ==
  /\ phase = "sleeping"
  /\ phase' = "polling"
  /\ limit' = IF limited THEN Less(limit, d) ELSE limit
  /\ grace' = IF interrupted THEN Less(grace, d) ELSE grace
  /\ UNCHANGED <<limited, interrupted, timedOut, forced, drainVars, pending, processes,
                 termSent, capture, presses, kills>>

-----------------------------------------------------------------------------
(* The second loop.  Signals are no longer polled.                          *)

ReceiveCapture ==
  /\ phase = "draining" /\ capture # "reading"
  /\ phase' = "returned"
  /\ result' = IF capture = "failed" THEN "failed"
               ELSE IF timedOut THEN "timeout"
               ELSE IF interrupted THEN "interrupted"
               ELSE "exited"
  /\ UNCHANGED <<loopVars, drain, drainKilled, pending, processes, termSent, capture,
                 presses, kills>>

(* A faulty variant: giving up the wait is reported as a result.            *)
DrainTimeoutAccepts(d) ==
  /\ phase = "draining" /\ capture = "reading"
  /\ drain' = IF drain + d < DrainMax THEN drain + d ELSE DrainMax
  /\ IF ~drainKilled /\ drain' >= DrainGrace
     THEN drainKilled' = TRUE /\ Kill("drain")
     ELSE UNCHANGED drainKilled /\ KillNothing
  /\ IF drain' >= DrainMax
     THEN phase' = "returned" /\ result' = "exited"
     ELSE UNCHANGED <<phase, result>>
  /\ UNCHANGED <<loopVars, pending, termSent, capture, presses>>

(* Nothing came within an interval: the group is killed once the grace      *)
(* period is over, and the wait given up at its maximum.                    *)
DrainTimeout(d) ==
  /\ phase = "draining" /\ capture = "reading"
  /\ drain' = IF drain + d < DrainMax THEN drain + d ELSE DrainMax
  /\ IF ~drainKilled /\ drain' >= DrainGrace
     THEN drainKilled' = TRUE /\ Kill("drain")
     ELSE UNCHANGED drainKilled /\ KillNothing
  /\ IF drain' >= DrainMax
     THEN phase' = "returned" /\ result' = "stuck"
     ELSE UNCHANGED <<phase, result>>
  /\ UNCHANGED <<loopVars, pending, termSent, capture, presses>>

-----------------------------------------------------------------------------
(* The other parties                                                        *)

unchangedMonitor == UNCHANGED <<phase, loopVars, drainVars, termSent, kills>>

(* capture_streams ends when nobody holds the pipes any more, or before,    *)
(* with an error, when a log cannot be created or written.                  *)
CaptureEnds(outcome) ==
  /\ capture = "reading"
  /\ outcome = "done" => writers = {}
  /\ capture' = outcome
  /\ unchangedMonitor /\ UNCHANGED <<pending, processes, presses>>

UserSignal(s) ==
  /\ phase # "returned" /\ presses < MaxPresses
  /\ presses' = presses + 1
  /\ pending' = pending \cup {s}
  /\ unchangedMonitor /\ UNCHANGED <<processes, capture>>

ChildEnds(why) ==
  /\ child = "running"
  /\ why = "ours" => termSent
  /\ child' = "zombie" /\ cause' = why
  /\ writers' = writers \ {"child"}
  /\ unchangedMonitor /\ UNCHANGED <<pending, desc, capture, presses>>

Fork ==
  /\ child = "running" /\ desc = "unborn"
  /\ desc' = "group"
  /\ writers' = writers \cup {"desc"}
  /\ unchangedMonitor /\ UNCHANGED <<pending, child, cause, capture, presses>>

LeaveGroup ==
  /\ desc = "group"
  /\ desc' = "away"
  /\ unchangedMonitor /\ UNCHANGED <<pending, child, cause, writers, capture, presses>>

CloseOutput ==
  /\ desc \in {"group", "away"} /\ "desc" \in writers
  /\ writers' = writers \ {"desc"}
  /\ unchangedMonitor /\ UNCHANGED <<pending, child, cause, desc, capture, presses>>

DescendantEnds ==
  /\ desc \in {"group", "away"}
  /\ desc' = "dead"
  /\ writers' = writers \ {"desc"}
  /\ unchangedMonitor /\ UNCHANGED <<pending, child, cause, capture, presses>>

-----------------------------------------------------------------------------

MonitorStep ==
  \/ PollInterrupts
  \/ CheckLimit
  \/ CheckGrace
  \/ TryWait
  \/ \E d \in 1 .. MaxDelay : Sleep(d)
  \/ ReceiveCapture
  \/ \E d \in 1 .. MaxDelay : DrainTimeout(d)

MonitorNext ==
  \/ MonitorStep
  \/ \E outcome \in {"done", "failed"} : CaptureEnds(outcome)
  \/ \E s \in {"SIGINT", "SIGTERM"} : UserSignal(s)
  \/ \E why \in {"itself", "ours", "other"} : ChildEnds(why)
  \/ Fork
  \/ LeaveGroup
  \/ CloseOutput
  \/ DescendantEnds

MonitorSpec == MonitorInit /\ [][MonitorNext]_monitorVars

(* The monitor runs on.  The child need never end, nor the descendant, nor  *)
(* the capture thread be scheduled: the loops are bounded by their clocks.  *)
FairMonitorSpec == MonitorSpec /\ WF_monitorVars(MonitorStep)

-----------------------------------------------------------------------------
(* Properties                                                               *)

(* A run this program ended by a signal is never reported as one that ended *)
(* by itself, whatever the order of exits, signals and deadlines.           *)
OwnSignalReported == result = "exited" => cause # "ours"

(* Nothing stays behind in the process group when a run was killed or its   *)
(* output never ended; a process that left the group may.                   *)
KilledGroupIsGone ==
  phase = "returned" /\ (kills # {} \/ result = "stuck") =>
    child = "reaped" /\ desc # "group"

(* A result with output has all of it: the child is reaped and nobody can   *)
(* write any more.                                                          *)
OutputComplete ==
  result \in {"exited", "timeout", "interrupted"} => child = "reaped" /\ writers = {}

(* A run with a time limit ends, whatever the sandboxed processes do.       *)
LimitedRunEnds == limited ~> result # "none"

(* An interrupt the loop still polls for ends the run, limit or not.        *)
InterruptEndsRun == pending # {} ~> result # "none"

(* The monitor does not go on for ever where it promises an end, though the *)
(* processes it watches may never exit and hold their output open.          *)
RunEnds == LimitedRunEnds /\ InterruptEndsRun

=============================================================================
