---------------------------- MODULE OutputStreams ----------------------------
(***************************************************************************)
(* What a command writes to stdout and stderr, and the two threads that    *)
(* take it: capture_streams of crates/clawcrate-capture/src/lib.rs, which  *)
(* logs it, and relay_mcp_streams of crates/clawcrate-cli/src/mcp.rs, which*)
(* gives it to the client first.  Both logs share one budget.  Bytes are   *)
(* counted.  How long the run waits for the threads is the subject of      *)
(* RunMonitor.                                                             *)
(***************************************************************************)
EXTENDS Naturals

CONSTANTS
  Kinds,      (* of "capture", "relay"                                       *)
  Budgets,    (* max_output_bytes                                            *)
  ChunkSize,  (* READ_CHUNK_SIZE, MCP_RELAY_CHUNK_SIZE                       *)
  PipeSize,   (* what a pipe holds                                           *)
  Emits       (* bound: the bytes written to one stream                      *)

ASSUME OutputAssumption ==
  /\ Budgets \subseteq Nat
  /\ ChunkSize \in Nat \ {0} /\ PipeSize \in Nat \ {0} /\ Emits \in Nat

Streams == {"stdout", "stderr"}
Processes == {"child", "descendant"}

VARIABLES
  kind,       (* who takes the output                                        *)
  budget,     (* max_output_bytes                                            *)
  remaining,  (* SharedBudget                                                *)
  holders,    (* the processes that hold the writing ends                    *)
  emitted,    (* the bytes written to a stream so far                        *)
  pipe,       (* those among them nobody has read                            *)
  place,      (* where a stream's thread is                                  *)
  chunk,      (* what it has read last                                       *)
  allowed,    (* what of it goes to the log                                  *)
  written, dropped,   (* StreamCaptureStats                                  *)
  given,      (* what the client has been given                              *)
  cut,        (* the client closed a stream                                  *)
  summary,    (* none, ok, error                                             *)
  gap         (* history: the log left something out and went on             *)

outputVars == <<kind, budget, remaining, holders, emitted, pipe, place, chunk, allowed, written,
                dropped, given, cut, summary, gap>>
others == <<kind, budget, holders, emitted>>

Zero == [s \in Streams |-> 0]
No == [s \in Streams |-> FALSE]

OutputInit ==
  /\ kind \in Kinds /\ budget \in Budgets /\ remaining = budget
  /\ holders = Processes
  /\ emitted = Zero /\ pipe = Zero /\ chunk = Zero /\ allowed = Zero
  /\ written = Zero /\ dropped = Zero /\ given = Zero
  /\ place = [s \in Streams |-> "read"]
  /\ cut = No /\ gap = No
  /\ summary = "none"

-----------------------------------------------------------------------------
(* The writers.  A pipe nobody reads any more cannot be written to.         *)

Reading(s) == place[s] \notin {"ended", "failed"}

Emit(s) ==
  /\ holders # {} /\ Reading(s)
  /\ pipe[s] < PipeSize /\ emitted[s] < Emits
  /\ emitted' = [emitted EXCEPT ![s] = @ + 1]
  /\ pipe' = [pipe EXCEPT ![s] = @ + 1]
  /\ UNCHANGED <<kind, budget, remaining, holders, place, chunk, allowed, written, dropped, given, cut,
                 summary, gap>>

Leave(p) ==
  /\ p \in holders
  /\ holders' = holders \ {p}
  /\ UNCHANGED <<kind, budget, remaining, emitted, pipe, place, chunk, allowed, written, dropped, given,
                 cut, summary, gap>>

-----------------------------------------------------------------------------
(* The thread of a stream                                                   *)

Go(s, next) == place' = [place EXCEPT ![s] = next]
Smaller(m, n) == IF m <= n THEN m ELSE n

(* A faulty variant: with the budget used up, nothing is read any more.     *)
ReadWithinBudget(s) ==
  /\ place[s] = "read" /\ pipe[s] > 0 /\ remaining > 0
  /\ chunk' = [chunk EXCEPT ![s] = Smaller(pipe[s], ChunkSize)]
  /\ pipe' = [pipe EXCEPT ![s] = @ - Smaller(pipe[s], ChunkSize)]
  /\ Go(s, IF kind = "relay" THEN "give" ELSE "reserve")
  /\ UNCHANGED <<others, remaining, allowed, written, dropped, given, cut, summary, gap>>

Read(s) ==
  /\ place[s] = "read" /\ pipe[s] > 0
  /\ chunk' = [chunk EXCEPT ![s] = Smaller(pipe[s], ChunkSize)]
  /\ pipe' = [pipe EXCEPT ![s] = @ - Smaller(pipe[s], ChunkSize)]
  /\ Go(s, IF kind = "relay" THEN "give" ELSE "reserve")
  /\ UNCHANGED <<others, remaining, allowed, written, dropped, given, cut, summary, gap>>

(* The end of a stream: nobody holds its writing end.                       *)
ReadEnd(s) ==
  /\ place[s] = "read" /\ pipe[s] = 0 /\ holders = {}
  /\ Go(s, "flush")
  /\ UNCHANGED <<others, remaining, pipe, chunk, allowed, written, dropped, given, cut, summary, gap>>

(* write_mcp_relay_output: a client that is gone ends the loop without an   *)
(* error.                                                                   *)
Give(s) ==
  /\ place[s] = "give"
  /\ \/ /\ ~cut[s]
        /\ given' = [given EXCEPT ![s] = @ + chunk[s]]
        /\ Go(s, "reserve") /\ UNCHANGED cut
     \/ /\ cut' = [cut EXCEPT ![s] = TRUE]
        /\ Go(s, "flush") /\ UNCHANGED given
  /\ UNCHANGED <<others, remaining, pipe, chunk, allowed, written, dropped, summary, gap>>

(* A faulty variant: every stream has the whole budget.                     *)
AllowedByOwn(s) == Smaller(chunk[s], IF written[s] <= budget THEN budget - written[s] ELSE 0)

Allowed(s) == Smaller(chunk[s], remaining)

(* Under the lock                                                           *)
Reserve(s) ==
  /\ place[s] = "reserve"
  /\ allowed' = [allowed EXCEPT ![s] = Allowed(s)]
  /\ remaining' = IF Allowed(s) <= remaining THEN remaining - Allowed(s) ELSE 0
  /\ Go(s, "log")
  /\ UNCHANGED <<others, pipe, chunk, written, dropped, given, cut, summary, gap>>

(* What has been read before this chunk                                     *)
Before(s) == emitted[s] - pipe[s] - chunk[s]

WriteLog(s) ==
  /\ place[s] = "log"
  /\ written' = [written EXCEPT ![s] = @ + allowed[s]]
  /\ dropped' = [dropped EXCEPT ![s] = @ + (chunk[s] - allowed[s])]
  /\ gap' = [gap EXCEPT ![s] = @ \/ (allowed[s] > 0 /\ written[s] # Before(s))]
  /\ Go(s, "read")
  /\ UNCHANGED <<others, remaining, pipe, chunk, allowed, given, cut, summary>>

Flush(s) ==
  /\ place[s] = "flush"
  /\ Go(s, "ended")
  /\ UNCHANGED <<others, remaining, pipe, chunk, allowed, written, dropped, given, cut, summary, gap>>

(* Any of its calls may fail; that drops the reader.                        *)
StreamFails(s) ==
  /\ Reading(s)
  /\ Go(s, "failed")
  /\ UNCHANGED <<others, remaining, pipe, chunk, allowed, written, dropped, given, cut, summary, gap>>

-----------------------------------------------------------------------------

(* A faulty variant: the first thread that ends decides.                    *)
JoinAny ==
  /\ summary = "none"
  /\ \/ /\ \E s \in Streams : place[s] = "ended"
        /\ summary' = "ok"
     \/ /\ \E s \in Streams : place[s] = "failed"
        /\ summary' = "error"
  /\ UNCHANGED <<others, remaining, pipe, place, chunk, allowed, written, dropped, given, cut, gap>>

(* capture_streams waits for both threads; relay_mcp_streams for stdout     *)
(* first, and not for stderr when stdout failed.                            *)
Join ==
  /\ summary = "none"
  /\ \/ /\ \A s \in Streams : place[s] = "ended"
        /\ summary' = "ok"
     \/ /\ kind = "capture" => ~\E s \in Streams : Reading(s)
        /\ \/ place["stdout"] = "failed"
           \/ place["stdout"] = "ended" /\ place["stderr"] = "failed"
        /\ summary' = "error"
  /\ UNCHANGED <<others, remaining, pipe, place, chunk, allowed, written, dropped, given, cut, gap>>

Work(s) ==
  \/ Read(s)
  \/ ReadEnd(s)
  \/ Give(s)
  \/ Reserve(s)
  \/ WriteLog(s)
  \/ Flush(s)

OutputNext ==
  \/ \E s \in Streams : Emit(s) \/ Work(s) \/ StreamFails(s)
  \/ \E p \in Processes : Leave(p)
  \/ Join

OutputSpec == OutputInit /\ [][OutputNext]_outputVars

(* The threads and the client go on; the command need not.                  *)
FairOutputSpec == OutputSpec /\ (\A s \in Streams : WF_outputVars(Work(s))) /\ WF_outputVars(Join)

-----------------------------------------------------------------------------
(* Properties                                                               *)

(* The logs together never exceed the budget, however the two threads take  *)
(* turns, and each log is the beginning of its stream: what came after the  *)
(* first byte left out is left out as well.                                 *)
LogsWithinBudget ==
  /\ written["stdout"] + written["stderr"] <= budget
  /\ \A s \in Streams : ~gap[s]

(* A summary without an error: nobody can write any more and everything     *)
(* written was read, unless the client closed that stream; the counts add up*)
(* to it; and something is left out only when the budget is used up.        *)
SummaryIsComplete ==
  summary = "ok" =>
    /\ \A s \in Streams : ~cut[s] =>
         /\ holders = {} /\ pipe[s] = 0
         /\ written[s] + dropped[s] = emitted[s]
         /\ kind = "relay" => given[s] = emitted[s]
    /\ (\E s \in Streams : dropped[s] > 0) => written["stdout"] + written["stderr"] = budget

(* The command is never held up by its own output, the budget used up or    *)
(* not, and when it has let go of its output, the summary or an error comes.*)
OutputFlows ==
  /\ \A s \in Streams : (pipe[s] = PipeSize /\ Reading(s)) ~> (pipe[s] < PipeSize \/ ~Reading(s))
  /\ (holders = {}) ~> (summary # "none")

=============================================================================
