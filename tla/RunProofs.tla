------------------------------ MODULE RunProofs -----------------------------
(***************************************************************************)
(* What is proved of one run: the artifacts it leaves (RunPipeline), how   *)
(* the command is watched and ended (RunMonitor), and the budget its two   *)
(* logs share (OutputStreams), for all bounds, limits, grace periods and   *)
(* sizes.  Each specification stands for itself.                           *)
(***************************************************************************)
EXTENDS RunPipeline, RunMonitor, OutputStreams, FiniteSetTheorems, TLAPS

-----------------------------------------------------------------------------
(* The shared budget of the two logs                                        *)

Places == {"read", "give", "reserve", "log", "flush", "ended", "failed"}
Counts == [Streams -> Nat]

TypesHold ==
  /\ budget \in Nat /\ remaining \in Nat
  /\ emitted \in Counts /\ pipe \in Counts /\ chunk \in Counts /\ allowed \in Counts
  /\ written \in Counts /\ dropped \in Counts
  /\ place \in [Streams -> Places] /\ gap \in [Streams -> BOOLEAN]

(* What a thread has taken from the budget and not written yet              *)
Held(s) == IF place[s] = "log" THEN allowed[s] ELSE 0

BudgetHolds ==
  remaining + Held("stdout") + Held("stderr") + written["stdout"] + written["stderr"] <= budget

(* Where a thread stands in its stream, and that it leaves bytes out only   *)
(* when the budget is used up, for good.                                    *)
StreamHolds(s) ==
  /\ place[s] = "read" => pipe[s] + written[s] + dropped[s] = emitted[s]
  /\ place[s] \in {"give", "reserve", "log"} => pipe[s] + chunk[s] + written[s] + dropped[s] = emitted[s]
  /\ place[s] = "log" => allowed[s] <= chunk[s] /\ (allowed[s] < chunk[s] => remaining = 0)
  /\ dropped[s] > 0 => remaining = 0 /\ (place[s] = "log" => allowed[s] = 0)
  /\ ~gap[s]

OutputHolds == TypesHold /\ BudgetHolds /\ \A s \in Streams : StreamHolds(s)

-----------------------------------------------------------------------------

LEMMA OutputStarts == OutputInit => OutputHolds
BY OutputAssumption
DEF OutputInit, OutputHolds, TypesHold, BudgetHolds, Held, StreamHolds, Counts, Places, Zero, No, Streams

LEMMA SmallerOf ==
  ASSUME NEW m \in Nat, NEW n \in Nat
  PROVE  /\ Smaller(m, n) \in Nat /\ Smaller(m, n) <= m /\ Smaller(m, n) <= n
         /\ Smaller(m, n) < m => Smaller(m, n) = n
BY DEF Smaller

LEMMA OutputEmit == ASSUME OutputHolds, NEW s \in Streams, Emit(s)  PROVE OutputHolds'
<1>1. TypesHold'
  BY DEF OutputHolds, TypesHold, Emit, Counts
<1>2. BudgetHolds'
  BY DEF OutputHolds, BudgetHolds, Held, Emit
<1>3. ASSUME NEW t \in Streams  PROVE StreamHolds(t)'
  BY DEF OutputHolds, TypesHold, StreamHolds, Emit, Counts
<1>4. QED  BY <1>1, <1>2, <1>3 DEF OutputHolds

(* Steps of a thread that leave the budget and the counts alone             *)
LEMMA OutputQuiet ==
  ASSUME OutputHolds, NEW s \in Streams, NEW next \in {"reserve", "flush", "ended", "failed"},
         Go(s, next), place[s] # "log" \/ next = "failed", next = "reserve" => place[s] = "give",
         UNCHANGED <<budget, remaining, emitted, pipe, chunk, allowed, written, dropped, gap>>
  PROVE  OutputHolds'
<1>1. TypesHold'
  BY DEF OutputHolds, TypesHold, Go, Places
<1>2. \A t \in Streams : Held(t)' \in Nat /\ Held(t)' <= Held(t)
  BY DEF OutputHolds, TypesHold, Counts, Go, Held
<1>3. BudgetHolds'
  <2>1. /\ Held("stdout")' \in Nat /\ Held("stderr")' \in Nat /\ Held("stdout") \in Nat
        /\ Held("stderr") \in Nat /\ Held("stdout")' <= Held("stdout") /\ Held("stderr")' <= Held("stderr")
    BY <1>2 DEF OutputHolds, TypesHold, Counts, Held, Streams
  <2>2. remaining \in Nat /\ written["stdout"] \in Nat /\ written["stderr"] \in Nat /\ budget \in Nat
    BY DEF OutputHolds, TypesHold, Counts, Streams
  <2>3. QED  BY <2>1, <2>2 DEF OutputHolds, BudgetHolds
<1>4. ASSUME NEW t \in Streams  PROVE StreamHolds(t)'
  BY DEF OutputHolds, TypesHold, StreamHolds, Go, Places
<1>5. QED  BY <1>1, <1>3, <1>4 DEF OutputHolds

LEMMA OutputRead == ASSUME OutputHolds, NEW s \in Streams, Read(s)  PROVE OutputHolds'
<1> DEFINE n == Smaller(pipe[s], ChunkSize)
<1>1. n \in Nat /\ n <= pipe[s] /\ pipe[s] \in Nat
  BY OutputAssumption, SmallerOf DEF OutputHolds, TypesHold, Counts
<1>2. /\ place[s] = "read" /\ chunk' = [chunk EXCEPT ![s] = n] /\ pipe' = [pipe EXCEPT ![s] = @ - n]
      /\ place' = [place EXCEPT ![s] = IF kind = "relay" THEN "give" ELSE "reserve"]
      /\ UNCHANGED <<budget, remaining, emitted, allowed, written, dropped, gap>>
  BY DEF Read, Go, others
<1> HIDE DEF n
<1>3. TypesHold'
  BY <1>1, <1>2 DEF OutputHolds, TypesHold, Counts, Places
<1>4. BudgetHolds'
  BY <1>2 DEF OutputHolds, TypesHold, BudgetHolds, Held, Places
<1>5. ASSUME NEW t \in Streams  PROVE StreamHolds(t)'
  BY <1>1, <1>2 DEF OutputHolds, TypesHold, StreamHolds, Counts, Places
<1>6. QED  BY <1>3, <1>4, <1>5 DEF OutputHolds

LEMMA OutputReserve == ASSUME OutputHolds, NEW s \in Streams, Reserve(s)  PROVE OutputHolds'
<1> DEFINE n == Allowed(s)
<1>1. /\ n \in Nat /\ n <= chunk[s] /\ n <= remaining /\ (n < chunk[s] => n = remaining)
      /\ chunk[s] \in Nat /\ remaining \in Nat
  BY SmallerOf DEF OutputHolds, TypesHold, Counts, Allowed
<1>2. /\ place[s] = "reserve" /\ allowed' = [allowed EXCEPT ![s] = n] /\ remaining' = remaining - n
      /\ place' = [place EXCEPT ![s] = "log"]
      /\ UNCHANGED <<budget, emitted, pipe, chunk, written, dropped, gap>>
  BY <1>1 DEF Reserve, Go, others
<1> HIDE DEF n
<1>3. TypesHold'
  BY <1>1, <1>2 DEF OutputHolds, TypesHold, Counts, Places
<1>4. BudgetHolds'
  BY <1>1, <1>2 DEF OutputHolds, TypesHold, BudgetHolds, Held, Counts, Streams
<1>5. ASSUME NEW t \in Streams  PROVE StreamHolds(t)'
  BY <1>1, <1>2 DEF OutputHolds, TypesHold, StreamHolds, Counts, Places
<1>6. QED  BY <1>3, <1>4, <1>5 DEF OutputHolds

LEMMA OutputWrite == ASSUME OutputHolds, NEW s \in Streams, WriteLog(s)  PROVE OutputHolds'
<1>1. /\ place[s] = "log" /\ written' = [written EXCEPT ![s] = @ + allowed[s]]
      /\ dropped' = [dropped EXCEPT ![s] = @ + (chunk[s] - allowed[s])]
      /\ gap' = [gap EXCEPT ![s] = @ \/ (allowed[s] > 0 /\ written[s] # Before(s))]
      /\ place' = [place EXCEPT ![s] = "read"]
      /\ UNCHANGED <<budget, remaining, emitted, pipe, chunk, allowed>>
  BY DEF WriteLog, Go, others
<1>2. /\ allowed[s] \in Nat /\ chunk[s] \in Nat /\ allowed[s] <= chunk[s] /\ written[s] \in Nat
      /\ dropped[s] \in Nat /\ emitted[s] \in Nat /\ pipe[s] \in Nat
      /\ pipe[s] + chunk[s] + written[s] + dropped[s] = emitted[s]
      /\ dropped[s] > 0 => allowed[s] = 0
  BY <1>1 DEF OutputHolds, TypesHold, StreamHolds, Counts
<1>3. allowed[s] > 0 => written[s] = Before(s)
  BY <1>2 DEF Before
<1>4. TypesHold'
  BY <1>1, <1>2 DEF OutputHolds, TypesHold, Counts, Places
<1>5. BudgetHolds'
  BY <1>1, <1>2 DEF OutputHolds, TypesHold, BudgetHolds, Held, Counts, Streams, Places
<1>6. ASSUME NEW t \in Streams  PROVE StreamHolds(t)'
  <2>1. CASE t = s
    <3>1. ~gap'[s]
      BY <1>1, <1>3 DEF OutputHolds, StreamHolds, TypesHold
    <3>2. pipe'[s] + written'[s] + dropped'[s] = emitted'[s] /\ place'[s] = "read"
      BY <1>1, <1>2 DEF OutputHolds, TypesHold, Counts
    <3>3. dropped'[s] > 0 => remaining' = 0
      BY <1>1, <1>2 DEF OutputHolds, StreamHolds, TypesHold, Counts
    <3>4. QED  BY <2>1, <3>1, <3>2, <3>3 DEF StreamHolds
  <2>2. CASE t # s
    BY <1>1, <2>2 DEF OutputHolds, StreamHolds, TypesHold, Counts
  <2>3. QED  BY <2>1, <2>2
<1>7. QED  BY <1>4, <1>5, <1>6 DEF OutputHolds

LEMMA OutputStep == ASSUME OutputHolds, [OutputNext]_outputVars  PROVE OutputHolds'
<1>1. CASE UNCHANGED <<budget, remaining, emitted, pipe, place, chunk, allowed, written, dropped, gap>>
  BY <1>1 DEF OutputHolds, TypesHold, BudgetHolds, Held, StreamHolds
<1>2. ASSUME NEW s \in Streams, Emit(s) \/ Work(s) \/ StreamFails(s)  PROVE OutputHolds'
  <2>1. CASE ReadEnd(s) \/ Flush(s) \/ StreamFails(s) \/ Give(s)
    BY <2>1, OutputQuiet DEF ReadEnd, Flush, StreamFails, Give, Go, others
  <2>2. QED
    BY <1>2, <2>1, OutputEmit, OutputRead, OutputReserve, OutputWrite DEF Work
<1>3. QED
  BY <1>1, <1>2 DEF OutputNext, Leave, Join, outputVars, others

(* However the two threads take turns and wherever one of them fails, the   *)
(* logs together stay within the budget and each is the beginning of its    *)
(* stream.                                                                  *)
THEOREM BudgetIsShared == OutputSpec => []LogsWithinBudget
<1>1. OutputHolds => LogsWithinBudget
  BY DEF OutputHolds, TypesHold, BudgetHolds, Held, StreamHolds, LogsWithinBudget, Counts, Streams
<1>2. QED  BY <1>1, OutputStarts, OutputStep, PTL DEF OutputSpec

-----------------------------------------------------------------------------
(* The summary                                                              *)

(* Unless a thread has failed, every byte of the budget is there, or is     *)
(* held or written.                                                         *)
BudgetIsAccounted ==
  (\A s \in Streams : place[s] # "failed") =>
    remaining + Held("stdout") + Held("stderr") + written["stdout"] + written["stderr"] = budget

(* What the client has been given, and how a stream came to its end.        *)
EndHolds(s) ==
  /\ cut[s] => place[s] \in {"flush", "ended", "failed"}
  /\ place[s] \in {"flush", "ended"} /\ ~cut[s] =>
       holders = {} /\ pipe[s] = 0 /\ written[s] + dropped[s] = emitted[s]
  /\ kind = "relay" /\ place[s] = "give" => given[s] + pipe[s] + chunk[s] = emitted[s]
  /\ kind = "relay" /\ ~cut[s] /\ place[s] \in {"read", "reserve", "log", "flush", "ended"} =>
       given[s] + pipe[s] = emitted[s]

SummaryHolds ==
  /\ given \in Counts /\ cut \in [Streams -> BOOLEAN]
  /\ BudgetIsAccounted
  /\ \A s \in Streams : EndHolds(s)
  /\ summary = "ok" => \A s \in Streams : place[s] = "ended"

(* Steps of a thread that has not failed and is not at the log              *)
LEMMA AccountedKept ==
  ASSUME OutputHolds, BudgetIsAccounted, NEW s \in Streams, NEW next,
         place' = [place EXCEPT ![s] = next], place[s] \notin {"log", "failed"}, next # "log",
         UNCHANGED <<budget, remaining, written, allowed>>
  PROVE  BudgetIsAccounted'
<1>1. Held("stdout")' = Held("stdout") /\ Held("stderr")' = Held("stderr")
  BY DEF OutputHolds, TypesHold, Held, Streams
<1>2. (\A t \in Streams : place'[t] # "failed") => \A t \in Streams : place[t] # "failed"
  BY DEF OutputHolds, TypesHold
<1>3. QED  BY <1>1, <1>2 DEF BudgetIsAccounted

LEMMA SummaryEmit ==
  ASSUME OutputHolds, SummaryHolds, NEW s \in Streams, Emit(s)  PROVE SummaryHolds'
<1>1. BudgetIsAccounted'
  BY DEF SummaryHolds, BudgetIsAccounted, Held, Emit
<1>2. ASSUME NEW t \in Streams  PROVE EndHolds(t)'
  BY DEF OutputHolds, TypesHold, SummaryHolds, EndHolds, Emit, Counts
<1>3. QED  BY <1>1, <1>2 DEF SummaryHolds, Emit

LEMMA SummaryRead ==
  ASSUME OutputHolds, SummaryHolds, NEW s \in Streams, Read(s)  PROVE SummaryHolds'
<1> DEFINE n == Smaller(pipe[s], ChunkSize)
<1>1. n \in Nat /\ n <= pipe[s] /\ pipe[s] \in Nat
  BY OutputAssumption, SmallerOf DEF OutputHolds, TypesHold, Counts
<1>2. /\ place[s] = "read" /\ chunk' = [chunk EXCEPT ![s] = n] /\ pipe' = [pipe EXCEPT ![s] = @ - n]
      /\ place' = [place EXCEPT ![s] = IF kind = "relay" THEN "give" ELSE "reserve"]
      /\ UNCHANGED <<kind, budget, holders, remaining, emitted, allowed, written, dropped, given,
                     cut, summary>>
  BY DEF Read, Go, others
<1> HIDE DEF n
<1>3. BudgetIsAccounted'
  BY <1>2, AccountedKept DEF SummaryHolds
<1>4. ASSUME NEW t \in Streams  PROVE EndHolds(t)'
  BY <1>1, <1>2 DEF OutputHolds, TypesHold, SummaryHolds, EndHolds, Counts, Places
<1>5. QED  BY <1>2, <1>3, <1>4 DEF OutputHolds, TypesHold, SummaryHolds

LEMMA SummaryReadEnd ==
  ASSUME OutputHolds, SummaryHolds, NEW s \in Streams, ReadEnd(s)  PROVE SummaryHolds'
<1>1. /\ place[s] = "read" /\ pipe[s] = 0 /\ holders = {} /\ place' = [place EXCEPT ![s] = "flush"]
      /\ UNCHANGED <<kind, budget, holders, remaining, emitted, pipe, chunk, allowed, written,
                     dropped, given, cut, summary>>
  BY DEF ReadEnd, Go, others
<1>2. BudgetIsAccounted'
  BY <1>1 DEF OutputHolds, TypesHold, SummaryHolds, BudgetIsAccounted, Held, Places
<1>3. ASSUME NEW t \in Streams  PROVE EndHolds(t)'
  BY <1>1 DEF OutputHolds, TypesHold, StreamHolds, SummaryHolds, EndHolds, Counts, Places
<1>4. QED  BY <1>1, <1>2, <1>3 DEF OutputHolds, TypesHold, SummaryHolds

LEMMA SummaryGive ==
  ASSUME OutputHolds, SummaryHolds, NEW s \in Streams, Give(s)  PROVE SummaryHolds'
<1>1. /\ place[s] = "give" /\ ~cut[s]
      /\ UNCHANGED <<kind, budget, holders, remaining, emitted, pipe, chunk, allowed, written,
                     dropped, summary>>
  BY DEF Give, SummaryHolds, EndHolds, others
<1>2. \/ /\ given' = [given EXCEPT ![s] = @ + chunk[s]] /\ cut' = cut
         /\ place' = [place EXCEPT ![s] = "reserve"]
      \/ /\ given' = given /\ cut' = [cut EXCEPT ![s] = TRUE]
         /\ place' = [place EXCEPT ![s] = "flush"]
  BY DEF Give, Go
<1>3. BudgetIsAccounted'
  BY <1>1, <1>2, AccountedKept DEF SummaryHolds
<1>4. ASSUME NEW t \in Streams  PROVE EndHolds(t)'
  BY <1>1, <1>2 DEF OutputHolds, TypesHold, SummaryHolds, EndHolds, Counts, Places
<1>5. given' \in Counts /\ cut' \in [Streams -> BOOLEAN]
  <2>1. given[s] + chunk[s] \in Nat /\ given \in Counts /\ cut \in [Streams -> BOOLEAN]
    BY DEF OutputHolds, TypesHold, SummaryHolds, Counts
  <2>2. [given EXCEPT ![s] = @ + chunk[s]] \in Counts
    BY <2>1 DEF Counts
  <2>3. [cut EXCEPT ![s] = TRUE] \in [Streams -> BOOLEAN]
    BY <2>1, Zenon
  <2>4. CASE given' = [given EXCEPT ![s] = @ + chunk[s]] /\ cut' = cut
    BY <2>1, <2>2, <2>4
  <2>5. CASE given' = given /\ cut' = [cut EXCEPT ![s] = TRUE]
    BY <2>1, <2>3, <2>5
  <2>6. QED  BY <1>2, <2>4, <2>5
<1>6. QED  BY <1>1, <1>3, <1>4, <1>5 DEF SummaryHolds

LEMMA SummaryReserve ==
  ASSUME OutputHolds, SummaryHolds, NEW s \in Streams, Reserve(s)  PROVE SummaryHolds'
<1> DEFINE n == Allowed(s)
<1>1. n \in Nat /\ n <= remaining /\ remaining \in Nat
  BY SmallerOf DEF OutputHolds, TypesHold, Counts, Allowed
<1>2. /\ place[s] = "reserve" /\ allowed' = [allowed EXCEPT ![s] = n] /\ remaining' = remaining - n
      /\ place' = [place EXCEPT ![s] = "log"]
      /\ UNCHANGED <<kind, budget, holders, emitted, pipe, chunk, written, dropped, given, cut,
                     summary>>
  BY <1>1 DEF Reserve, Go, others
<1> HIDE DEF n
<1>3. BudgetIsAccounted'
  BY <1>1, <1>2 DEF OutputHolds, TypesHold, SummaryHolds, BudgetIsAccounted, Held, Counts, Streams
<1>4. ASSUME NEW t \in Streams  PROVE EndHolds(t)'
  BY <1>2 DEF OutputHolds, TypesHold, SummaryHolds, EndHolds, Places
<1>5. QED  BY <1>2, <1>3, <1>4 DEF OutputHolds, TypesHold, SummaryHolds

LEMMA SummaryWrite ==
  ASSUME OutputHolds, SummaryHolds, NEW s \in Streams, WriteLog(s)  PROVE SummaryHolds'
<1>1. /\ place[s] = "log" /\ written' = [written EXCEPT ![s] = @ + allowed[s]]
      /\ dropped' = [dropped EXCEPT ![s] = @ + (chunk[s] - allowed[s])]
      /\ place' = [place EXCEPT ![s] = "read"]
      /\ UNCHANGED <<kind, budget, holders, remaining, emitted, pipe, chunk, allowed, given, cut,
                     summary>>
  BY DEF WriteLog, Go, others
<1>2. BudgetIsAccounted'
  BY <1>1 DEF OutputHolds, TypesHold, SummaryHolds, BudgetIsAccounted, Held, Counts, Streams, Places
<1>3. ASSUME NEW t \in Streams  PROVE EndHolds(t)'
  BY <1>1 DEF OutputHolds, TypesHold, SummaryHolds, EndHolds, Counts, Places
<1>4. QED  BY <1>1, <1>2, <1>3 DEF OutputHolds, TypesHold, SummaryHolds

(* A thread comes to its end, in one way or the other.                      *)
LEMMA SummaryEnd ==
  ASSUME OutputHolds, SummaryHolds, NEW s \in Streams, Flush(s) \/ StreamFails(s)
  PROVE  SummaryHolds'
<1>1. /\ \/ place' = [place EXCEPT ![s] = "ended"] /\ place[s] = "flush"
         \/ place' = [place EXCEPT ![s] = "failed"] /\ place[s] \notin {"ended", "failed"}
      /\ UNCHANGED <<kind, budget, holders, remaining, emitted, pipe, chunk, allowed, written,
                     dropped, given, cut, summary>>
  BY DEF Flush, StreamFails, Go, Reading, others
<1>2. BudgetIsAccounted'
  <2>1. CASE place' = [place EXCEPT ![s] = "ended"] /\ place[s] = "flush"
    BY <1>1, <2>1, AccountedKept DEF SummaryHolds
  <2>2. CASE place' = [place EXCEPT ![s] = "failed"]
    BY <2>2 DEF OutputHolds, TypesHold, BudgetIsAccounted
  <2>3. QED  BY <1>1, <2>1, <2>2
<1>3. ASSUME NEW t \in Streams  PROVE EndHolds(t)'
  BY <1>1 DEF OutputHolds, TypesHold, SummaryHolds, EndHolds, Places
<1>4. summary # "ok"
  BY <1>1 DEF SummaryHolds
<1>5. QED  BY <1>1, <1>2, <1>3, <1>4 DEF SummaryHolds

LEMMA SummaryStep == ASSUME OutputHolds, SummaryHolds, [OutputNext]_outputVars  PROVE SummaryHolds'
<1>1. ASSUME NEW s \in Streams, Emit(s) \/ Work(s) \/ StreamFails(s)  PROVE SummaryHolds'
  BY <1>1, SummaryEmit, SummaryRead, SummaryReadEnd, SummaryGive, SummaryReserve, SummaryWrite,
     SummaryEnd DEF Work
<1>2. ASSUME NEW p \in Processes, Leave(p)  PROVE SummaryHolds'
  BY <1>2 DEF SummaryHolds, BudgetIsAccounted, Held, EndHolds, Leave
<1>3. CASE Join \/ UNCHANGED outputVars
  BY <1>3 DEF SummaryHolds, BudgetIsAccounted, Held, EndHolds, Join, outputVars, others
<1>4. QED  BY <1>1, <1>2, <1>3 DEF OutputNext

(* A summary without an error tells the truth, for any budget and sizes: it *)
(* comes after the last byte, counts every byte once, and leaves none out   *)
(* while there is budget.                                                   *)
THEOREM SummaryIsTrue == OutputSpec => []SummaryIsComplete
<1>1. OutputInit => SummaryHolds
  BY OutputAssumption
  DEF OutputInit, SummaryHolds, BudgetIsAccounted, Held, EndHolds, Counts, Zero, No, Streams
<1>2. OutputHolds /\ SummaryHolds => SummaryIsComplete
  <2> SUFFICES ASSUME OutputHolds, SummaryHolds, summary = "ok"  PROVE SummaryIsComplete
    BY DEF SummaryIsComplete
  <2>1. \A s \in Streams : place[s] = "ended" /\ EndHolds(s) /\ StreamHolds(s)
    BY DEF OutputHolds, SummaryHolds
  <2>2. ASSUME NEW s \in Streams, ~cut[s]
        PROVE  /\ holders = {} /\ pipe[s] = 0 /\ written[s] + dropped[s] = emitted[s]
               /\ kind = "relay" => given[s] = emitted[s]
    BY <2>1, <2>2 DEF EndHolds, OutputHolds, TypesHold, SummaryHolds, Counts
  <2>3. (\E s \in Streams : dropped[s] > 0) => written["stdout"] + written["stderr"] = budget
    BY <2>1 DEF StreamHolds, OutputHolds, SummaryHolds, TypesHold, BudgetIsAccounted, Held, Counts,
       Streams
  <2>4. QED  BY <2>2, <2>3 DEF SummaryIsComplete
<1>3. QED  BY <1>1, <1>2, OutputStarts, OutputStep, SummaryStep, PTL DEF OutputSpec

-----------------------------------------------------------------------------
(* The child and its monitor                                                *)

MonitorTypes ==
  /\ phase \in {"polling", "limit", "grace", "waiting", "sleeping", "draining", "returned"}
  /\ interrupted \in BOOLEAN /\ timedOut \in BOOLEAN
  /\ drainKilled \in BOOLEAN /\ termSent \in BOOLEAN
  /\ child \in {"running", "zombie", "reaped"}
  /\ capture \in {"reading", "done", "failed"}
  /\ drain \in Nat

(* This program ends the child by the SIGTERM of an interrupt or by a       *)
(* SIGKILL of the first loop, and remembers why.  After that loop the child *)
(* is reaped, so that the SIGKILL of the second ends others only.           *)
CauseHolds ==
  /\ phase \in {"draining", "returned"} => child = "reaped"
  /\ termSent => interrupted
  /\ cause = "ours" => interrupted \/ timedOut
  /\ result # "none" => phase = "returned"
  /\ result = "exited" => ~interrupted /\ ~timedOut

(* Every SIGKILL is meant for the whole group; afterwards nobody is left to *)
(* fork into it.                                                            *)
GroupHolds ==
  /\ kills # {} => child # "running" /\ desc # "group"
  /\ drainKilled => kills # {}
  /\ result = "stuck" => drainKilled

(* Once nobody holds the pipes nobody can pass them on.                     *)
WritersHold ==
  /\ child = "running" => "child" \in writers
  /\ capture = "done" => writers = {}
  /\ result \in {"exited", "timeout", "interrupted"} => capture = "done"

MonitorHolds == MonitorTypes /\ CauseHolds /\ GroupHolds /\ WritersHold

LEMMA MonitorStarts == MonitorInit => MonitorHolds
<1> SUFFICES ASSUME MonitorInit  PROVE MonitorHolds
  OBVIOUS
<1>1. MonitorTypes
  BY DEF MonitorInit, MonitorTypes
<1>2. CauseHolds
  BY DEF MonitorInit, CauseHolds
<1>3. GroupHolds
  BY DEF MonitorInit, GroupHolds
<1>4. WritersHold
  BY DEF MonitorInit, WritersHold
<1>5. QED  BY <1>1, <1>2, <1>3, <1>4 DEF MonitorHolds

(* A signal leaves the child dead or as it was, and the group empty.        *)
LEMMA KillEmptiesGroup ==
  ASSUME MonitorHolds, NEW why, Kill(why)
  PROVE  /\ child' \in {"zombie", "reaped"} /\ (child # "running" => child' = child)
         /\ desc' # "group" /\ kills' # {}
         /\ cause' = IF child = "running" THEN "ours" ELSE cause
         /\ capture = "done" => writers' = {}
BY DEF MonitorHolds, MonitorTypes, GroupHolds, WritersHold, Kill

LEMMA MonitorPoll == ASSUME MonitorHolds, PollInterrupts  PROVE MonitorHolds'
<1>1. /\ phase = "polling" /\ phase' = "limit"
      /\ interrupted' = (interrupted \/ pending # {}) /\ termSent' = (termSent \/ pending # {})
      /\ UNCHANGED <<timedOut, drainVars, capture>>
      /\ (pending # {} /\ Kill("repeated")) \/ KillNothing
  <2>1. Cardinality(pending) > 1 \/ (pending # {} /\ interrupted) => pending # {}
    BY FS_EmptySet
  <2>2. QED  BY <2>1 DEF PollInterrupts
<1>2. CASE KillNothing
  BY <1>1, <1>2
  DEF MonitorHolds, MonitorTypes, CauseHolds, GroupHolds, WritersHold, drainVars, KillNothing, processes
<1>3. CASE pending # {} /\ Kill("repeated")
  BY <1>1, <1>3, KillEmptiesGroup
  DEF MonitorHolds, MonitorTypes, CauseHolds, GroupHolds, WritersHold, drainVars
<1>4. QED  BY <1>1, <1>2, <1>3

LEMMA MonitorLimits == ASSUME MonitorHolds, CheckLimit \/ CheckGrace  PROVE MonitorHolds'
<1>1. /\ phase \in {"limit", "grace"} /\ phase' \in {"grace", "waiting"}
      /\ UNCHANGED <<interrupted, drainVars, termSent, capture>>
      /\ \/ KillNothing /\ timedOut' = timedOut
         \/ timedOut' = TRUE /\ Kill("limit")
         \/ timedOut' = timedOut /\ interrupted /\ Kill("grace")
  BY DEF CheckLimit, CheckGrace
<1>2. CASE KillNothing /\ timedOut' = timedOut
  BY <1>1, <1>2
  DEF MonitorHolds, MonitorTypes, CauseHolds, GroupHolds, WritersHold, drainVars, KillNothing, processes
<1>3. ASSUME NEW why, Kill(why), timedOut' \/ (timedOut' = timedOut /\ interrupted)
      PROVE  MonitorHolds'
  BY <1>1, <1>3, KillEmptiesGroup
  DEF MonitorHolds, MonitorTypes, CauseHolds, GroupHolds, WritersHold, drainVars
<1>4. QED  BY <1>1, <1>2, <1>3

LEMMA MonitorDrain ==
  ASSUME MonitorHolds, NEW d \in 1 .. MaxDelay, DrainTimeout(d)  PROVE MonitorHolds'
<1>1. /\ phase = "draining" /\ capture = "reading"
      /\ UNCHANGED <<interrupted, timedOut, termSent, capture>>
      /\ drain' = IF drain + d < DrainMax THEN drain + d ELSE DrainMax
      /\ IF ~drainKilled /\ drain' >= DrainGrace
         THEN drainKilled' = TRUE /\ Kill("drain") ELSE UNCHANGED drainKilled /\ KillNothing
      /\ IF drain' >= DrainMax
         THEN phase' = "returned" /\ result' = "stuck" ELSE UNCHANGED <<phase, result>>
  BY DEF DrainTimeout, loopVars
<1>2. drain' \in Nat /\ (drain' >= DrainMax => drain' >= DrainGrace)
  BY <1>1, MonitorAssumption DEF MonitorHolds, MonitorTypes
<1>3. child' = "reaped" /\ cause' = cause
  BY <1>1, KillEmptiesGroup DEF MonitorHolds, CauseHolds, KillNothing, processes
<1>4. MonitorTypes' /\ CauseHolds'
  BY <1>1, <1>2, <1>3 DEF MonitorHolds, MonitorTypes, CauseHolds
<1>5. GroupHolds'
  BY <1>1, <1>2, <1>3, KillEmptiesGroup
  DEF MonitorHolds, MonitorTypes, CauseHolds, GroupHolds, KillNothing, processes
<1>6. WritersHold'
  BY <1>1, <1>3 DEF MonitorHolds, CauseHolds, WritersHold
<1>7. QED  BY <1>4, <1>5, <1>6 DEF MonitorHolds

(* The other steps of the monitor                                           *)
LEMMA MonitorWaits ==
  ASSUME MonitorHolds, TryWait \/ ReceiveCapture \/ \E d \in 1 .. MaxDelay : Sleep(d)
  PROVE  MonitorHolds'
<1>1. CASE TryWait
  BY <1>1 DEF MonitorHolds, MonitorTypes, CauseHolds, GroupHolds, WritersHold, TryWait, loopVars, drainVars
<1>2. CASE ReceiveCapture
  BY <1>2 DEF MonitorHolds, MonitorTypes, CauseHolds, GroupHolds, WritersHold, ReceiveCapture,
     loopVars, processes
<1>3. ASSUME NEW d \in 1 .. MaxDelay, Sleep(d)  PROVE MonitorHolds'
  BY <1>3 DEF MonitorHolds, MonitorTypes, CauseHolds, GroupHolds, WritersHold, Sleep, drainVars, processes
<1>4. QED  BY <1>1, <1>2, <1>3

(* The child, its descendant, the capture thread and the user               *)
LEMMA MonitorWatches ==
  ASSUME MonitorHolds, unchangedMonitor,
         \/ \E outcome \in {"done", "failed"} : CaptureEnds(outcome)
         \/ \E s \in {"SIGINT", "SIGTERM"} : UserSignal(s)
         \/ \E why \in {"itself", "ours", "other"} : ChildEnds(why)
         \/ Fork \/ LeaveGroup \/ CloseOutput \/ DescendantEnds
  PROVE  MonitorHolds'
<1> USE DEF MonitorHolds, MonitorTypes, CauseHolds, GroupHolds, WritersHold, unchangedMonitor,
            loopVars, drainVars, processes
<1>1. ASSUME NEW outcome \in {"done", "failed"}, CaptureEnds(outcome)  PROVE MonitorHolds'
  BY <1>1 DEF CaptureEnds
<1>2. ASSUME NEW s, UserSignal(s)  PROVE MonitorHolds'
  BY <1>2 DEF UserSignal
<1>3. ASSUME NEW why, ChildEnds(why)  PROVE MonitorHolds'
  BY <1>3 DEF ChildEnds
<1>4. CASE Fork
  BY <1>4 DEF Fork
<1>5. CASE LeaveGroup \/ CloseOutput \/ DescendantEnds
  BY <1>5 DEF LeaveGroup, CloseOutput, DescendantEnds
<1>6. QED  BY <1>1, <1>2, <1>3, <1>4, <1>5

LEMMA MonitorStepHolds == ASSUME MonitorHolds, [MonitorNext]_monitorVars  PROVE MonitorHolds'
<1>1. CASE UNCHANGED monitorVars
  BY <1>1 DEF MonitorHolds, MonitorTypes, CauseHolds, GroupHolds, WritersHold, monitorVars,
     loopVars, drainVars, processes
<1>2. CASE MonitorStep
  BY <1>2, MonitorPoll, MonitorLimits, MonitorDrain, MonitorWaits DEF MonitorStep
<1>3. CASE MonitorNext /\ ~MonitorStep
  BY <1>3, MonitorWatches
  DEF MonitorNext, CaptureEnds, UserSignal, ChildEnds, Fork, LeaveGroup, CloseOutput, DescendantEnds
<1>4. QED  BY <1>1, <1>2, <1>3

LEMMA MonitorInvariant == MonitorSpec => []MonitorHolds
BY MonitorStarts, MonitorStepHolds, PTL DEF MonitorSpec

(* For every limit and grace period and any timing of exits, signals and    *)
(* deadlines: a run that clawcrate ended is not reported as an exit.        *)
THEOREM OwnSignalIsReported == MonitorSpec => []OwnSignalReported
<1>1. MonitorHolds => OwnSignalReported
  BY DEF MonitorHolds, CauseHolds, OwnSignalReported
<1>2. QED  BY <1>1, MonitorInvariant, PTL

(* Whichever deadline or signal led to a kill, and also when the wait for   *)
(* the output was given up, nobody is left in the process group.            *)
THEOREM KillsEmptyTheGroup == MonitorSpec => []KilledGroupIsGone
<1>1. MonitorHolds => KilledGroupIsGone
  BY DEF MonitorHolds, CauseHolds, GroupHolds, KilledGroupIsGone
<1>2. QED  BY <1>1, MonitorInvariant, PTL

(* A result with output is returned after the last writer has gone.         *)
THEOREM OutputIsComplete == MonitorSpec => []OutputComplete
<1>1. MonitorHolds => OutputComplete
  BY DEF MonitorHolds, CauseHolds, WritersHold, OutputComplete
<1>2. QED  BY <1>1, MonitorInvariant, PTL

-----------------------------------------------------------------------------
(* The artifacts of a run                                                   *)

Opening == {"starting", "plan"}
Closing == {"errorDiff", "errorResult", "indexing", "ended"}
Synced == {"applying", "synced", "exiting", "result"}

PipelineTypes ==
  /\ at \in Opening \cup Guarded \cup Late \cup Closing
  /\ trail \in Seq(Events)
  /\ files \in [{"plan", "diff", "result"} -> {"absent", "cut", "written"}]
  /\ changes \in Nat /\ applied \in Nat /\ applied <= changes
  /\ verdict \in {"none", "exited", "error"} /\ answer \in BOOLEAN

(* What is there before the exit is recorded                                *)
Complete ==
  /\ files["plan"] = "written" /\ files["diff"] = "written"
  /\ Told("ProcessStarted") /\ command \in {"left", "reaped"}
  /\ ~broken /\ ~torn

(* The evidence grows along the steps of a run that meets no error: no step *)
(* goes on after an append that failed.                                     *)
EvidenceHolds ==
  /\ at \notin Opening \cup {"ended"} => files["plan"] = "written"
  /\ at \in Opening \cup Guarded \cup Late => ~broken /\ ~torn
  /\ at \in {"monitoring", "denials", "after"} \cup Late => Told("ProcessStarted")
  /\ at \in {"denials", "after"} \cup Late => command \in {"left", "reaped"}
  /\ at \in {"syncing"} \cup Synced => files["diff"] = "written"
  /\ at = "result" => Last(trail) = "ProcessExited"
  /\ verdict # "none" => at \in {"indexing", "ended"}
  /\ verdict = "exited" => Complete /\ Last(trail) = "ProcessExited"

(* Nothing has been brought back or said of it                              *)
Untouched ==
  ~Told("ProcessExited") /\ ~Told("SyncedBack") /\ ~Told("NotSyncedBack") /\ applied = 0 /\ ~answer

(* The errors that end in an error result come before the sync-back.        *)
StoryHolds ==
  /\ at \notin Synced \cup {"indexing", "ended"} => Untouched
  /\ verdict = "error" => Untouched
  /\ at = "indexing" => files["result"] = "written"
  /\ index # Nothing => at = "ended" /\ index = <<trail, verdict>> /\ files["result"] = "written"

AnswerHolds ==
  /\ answer => setup.replica /\ setup.interactive
  /\ applied > 0 => answer
  /\ at = "applying" => answer
  /\ at = "synced" => applied = IF answer THEN changes ELSE 0
  /\ Told("SyncedBack") => answer /\ applied = changes
  /\ Told("NotSyncedBack") => ~answer

PipelineHolds == PipelineTypes /\ EvidenceHolds /\ StoryHolds /\ AnswerHolds

LEMMA PipelineStarts == Init => PipelineHolds
<1> SUFFICES ASSUME Init  PROVE PipelineHolds
  OBVIOUS
<1>1. \A e : ~Told(e)
  BY DEF Init, Told, Contains
<1>2. PipelineTypes
  <2>1. <<>> \in Seq(Events)
    OBVIOUS
  <2>2. files \in [{"plan", "diff", "result"} -> {"absent", "cut", "written"}]
    BY DEF Init
  <2>3. trail = <<>> /\ at = "starting" /\ verdict = "none" /\ changes = 0 /\ applied = 0
    BY DEF Init
  <2>4. answer \in BOOLEAN
    BY DEF Init
  <2>5. QED  BY <2>1, <2>2, <2>3, <2>4 DEF PipelineTypes, Opening
<1>3. EvidenceHolds
  BY DEF Init, EvidenceHolds, Opening, Guarded, Late, Synced
<1>4. StoryHolds
  BY <1>1 DEF Init, StoryHolds, Untouched, Synced
<1>5. AnswerHolds
  BY <1>1 DEF Init, AnswerHolds
<1>6. QED  BY <1>2, <1>3, <1>4, <1>5 DEF PipelineHolds

LEMMA ToldSame == ASSUME trail' = trail, NEW e  PROVE Told(e)' <=> Told(e)
BY DEF Told, Contains

LEMMA ToldMore ==
  ASSUME trail \in Seq(Events), NEW event \in Events, trail' = Append(trail, event)
  PROVE  /\ trail' \in Seq(Events) /\ Last(trail)' = event
         /\ \A e : Told(e)' <=> Told(e) \/ e = event
<1>1. /\ trail' \in Seq(Events) /\ Len(trail) \in Nat /\ Len(trail') = Len(trail) + 1
      /\ trail'[Len(trail) + 1] = event
      /\ \A i \in 1 .. Len(trail) : trail'[i] = trail[i]
  OBVIOUS
<1>2. Last(trail)' = event
  BY <1>1 DEF Last
<1>3. ASSUME NEW e  PROVE Told(e)' <=> Told(e) \/ e = event
  BY <1>1 DEF Told, Contains
<1>4. QED  BY <1>1, <1>2, <1>3

(* An error before or in the launch and the capture is turned into an error *)
(* result; any other ends the run.                                          *)
LEMMA FailsTo ==
  ASSUME Fails
  PROVE  \/ at \in Guarded /\ at' = "errorDiff"
         \/ at \notin Guarded /\ at' = "ended"
BY DEF Fails, GoesTo, Ends

(* Steps that write nothing: the trail, the artifacts, the workspace and    *)
(* the index are as they were.                                              *)
LEMMA PipelineQuiet ==
  ASSUME PipelineHolds, UNCHANGED <<setup, evidence, artifacts, sync, index>>,
         \/ at = "starting" /\ at' = "plan" /\ command' = command
         \/ at = "copying" /\ at' \in {"copied", "before"} /\ command' = command
         \/ at = "approving" /\ at' = "copying" /\ command' = command
         \/ at = "before" /\ at' = "preparing" /\ command' = command
         \/ at = "preparing" /\ at' = "sandboxed" /\ command' = command
         \/ at = "launching" /\ at' = "started"
         \/ at = "monitoring" /\ at' = "denials" /\ command' \in {"left", "reaped"}
         \/ at = "denials" /\ at' = "after" /\ command' = command
         \/ Fails /\ at \in {"starting"} \cup Guarded
  PROVE  PipelineHolds'
<1>1. \A e : Told(e)' <=> Told(e)
  BY ToldSame DEF evidence
<1>2. UNCHANGED <<setup, trail, broken, torn, files, verdict, changes, answer, applied, index>>
  BY DEF evidence, artifacts, sync
<1>3. /\ at \in {"starting"} \cup Guarded /\ at' \in {"plan", "errorDiff", "ended"} \cup Guarded
      /\ at' = "ended" => at = "starting"
      /\ at = "starting" => at' \in {"plan", "ended"}
      /\ at' = "monitoring" => at = "monitoring"
      /\ at' = "denials" => command' \in {"left", "reaped"} /\ at = "monitoring"
      /\ at' = "after" => command' = command /\ at = "denials"
  BY FailsTo DEF Guarded
<1>4. PipelineTypes'
  BY <1>2, <1>3 DEF PipelineHolds, PipelineTypes, Opening, Closing
<1>5. EvidenceHolds'
  <2>1. /\ at' \notin Late \cup Synced \cup {"indexing"} /\ verdict' = "none"
        /\ at' \in Opening \cup Guarded => ~broken' /\ ~torn'
    BY <1>2, <1>3 DEF PipelineHolds, EvidenceHolds, Opening, Guarded, Late, Synced
  <2>2. at' \notin Opening \cup {"ended"} => files'["plan"] = "written"
    BY <1>2, <1>3 DEF PipelineHolds, EvidenceHolds, Opening, Guarded
  <2>3. /\ at' \in {"monitoring", "denials", "after"} => Told("ProcessStarted")'
        /\ at' \in {"denials", "after"} => command' \in {"left", "reaped"}
    BY <1>1, <1>3 DEF PipelineHolds, EvidenceHolds
  <2>4. QED  BY <2>1, <2>2, <2>3 DEF EvidenceHolds, Late, Synced
<1>6. StoryHolds'
  BY <1>1, <1>2, <1>3 DEF PipelineHolds, EvidenceHolds, StoryHolds, Untouched, Guarded, Synced
<1>7. AnswerHolds'
  BY <1>1, <1>2, <1>3 DEF PipelineHolds, AnswerHolds, Guarded
<1>8. QED  BY <1>4, <1>5, <1>6, <1>7 DEF PipelineHolds

(* What an append leaves, whether or not it returns an error                *)
LEMMA RecordsEffect ==
  ASSUME PipelineHolds, NEW event \in Events, NEW next, Records(event, next)
  PROVE  /\ trail' \in Seq(Events)
         /\ \/ /\ at' = next /\ broken' = broken /\ torn' = torn /\ Last(trail)' = event
               /\ \A e : Told(e)' <=> Told(e) \/ e = event
            \/ /\ at' = IF at \in Guarded THEN "errorDiff" ELSE "ended"
               /\ \/ \A e : Told(e)' <=> Told(e)
                  \/ \A e : Told(e)' <=> Told(e) \/ e = event
<1>1. CASE trail' = Append(trail, event) /\ UNCHANGED <<broken, torn>> /\ GoesTo(next)
  BY <1>1, ToldMore DEF PipelineHolds, PipelineTypes, GoesTo
<1>2. CASE trail' \in {trail, Append(trail, event)} /\ Fails
  BY <1>2, ToldMore, ToldSame, FailsTo DEF PipelineHolds, PipelineTypes
<1>3. QED  BY <1>1, <1>2 DEF Records

(* Steps from the approval to the denials that add an event of theirs, or   *)
(* fail in doing so.                                                        *)
LEMMA PipelineGrows ==
  ASSUME PipelineHolds, trail' \in Seq(Events), at \in Guarded,
         at' \in {"errorDiff", "copying", "before", "scrubbing", "launching", "monitoring", "denials"},
         at' # "errorDiff" => broken' = broken /\ torn' = torn,
         at' = "monitoring" => Told("ProcessStarted")',
         at' = "denials" => at = "denials",
         Told("ProcessStarted") => Told("ProcessStarted")',
         Untouched => Untouched',
         UNCHANGED <<command, files, verdict, changes, answer, applied, index>>
  PROVE  PipelineHolds'
<1>1. PipelineTypes'
  BY DEF PipelineHolds, PipelineTypes, Closing, Guarded
<1>2. verdict = "none" /\ Untouched /\ files["plan"] = "written" /\ ~broken /\ ~torn /\ index = Nothing
  BY DEF PipelineHolds, EvidenceHolds, StoryHolds, Guarded, Opening, Synced
<1>3. EvidenceHolds'
  BY <1>2 DEF PipelineHolds, EvidenceHolds, Opening, Guarded, Late, Synced
<1>4. StoryHolds' /\ AnswerHolds'
  BY <1>2 DEF StoryHolds, AnswerHolds, Untouched
<1>5. QED  BY <1>1, <1>3, <1>4 DEF PipelineHolds

LEMMA PipelineRecords ==
  ASSUME PipelineHolds, NEW event \in Events, NEW next, Records(event, next),
         UNCHANGED <<setup, artifacts, command, sync, index>>,
         \/ at = "approving" /\ event = "Approved" /\ next = "copying"
         \/ at = "approving" /\ event = "Declined" /\ next = "errorDiff"
         \/ at = "copied" /\ event = "ReplicaCreated" /\ next = "before"
         \/ at = "sandboxed" /\ event = "SandboxApplied" /\ next \in {"scrubbing", "launching"}
         \/ at = "scrubbing" /\ event = "EnvScrubbed" /\ next = "launching"
         \/ at = "started" /\ event = "ProcessStarted" /\ next = "monitoring"
         \/ at = "denials" /\ event = "PermissionBlocked" /\ next = "denials"
  PROVE  PipelineHolds'
<1>1. UNCHANGED <<command, files, verdict, changes, answer, applied, index>>
  BY DEF artifacts, sync
<1>2. /\ at \in Guarded /\ trail' \in Seq(Events)
      /\ at' \in {"errorDiff", "copying", "before", "scrubbing", "launching", "monitoring", "denials"}
      /\ at' # "errorDiff" => broken' = broken /\ torn' = torn
      /\ at' = "monitoring" => Told("ProcessStarted")'
      /\ at' = "denials" => at = "denials"
      /\ Told("ProcessStarted") => Told("ProcessStarted")'
      /\ Untouched => Untouched'
  BY <1>1, RecordsEffect DEF Guarded, Untouched
<1>3. QED  BY <1>1, <1>2, PipelineGrows, Zenon

(* What the trail says of the sync-back, when it is over                    *)
LEMMA PipelineRecordSync == ASSUME PipelineHolds, RecordSync  PROVE PipelineHolds'
<1> DEFINE event == IF answer THEN "SyncedBack" ELSE "NotSyncedBack"
<1>1. /\ at = "synced" /\ event \in Events /\ Records(event, "exiting")
      /\ UNCHANGED <<setup, command, files, verdict, changes, answer, applied, index>>
  BY DEF RecordSync, Events, restUnchanged, artifacts, sync, work
<1> HIDE DEF event
<1>2. /\ at' \in {"exiting", "ended"} /\ (at' = "exiting" => broken' = broken /\ torn' = torn)
      /\ trail' \in Seq(Events)
      /\ \A e : Told(e) => Told(e)'
      /\ \A e : Told(e)' => Told(e) \/ e = event
  BY <1>1, RecordsEffect DEF Guarded
<1>3. PipelineTypes'
  BY <1>1, <1>2 DEF PipelineHolds, PipelineTypes, Late, Closing
<1>4. verdict = "none" /\ index = Nothing /\ files["plan"] = "written"
  BY <1>1 DEF PipelineHolds, EvidenceHolds, StoryHolds, Opening
<1>5. EvidenceHolds'
  BY <1>1, <1>2, <1>4 DEF PipelineHolds, EvidenceHolds, Opening, Guarded, Late, Synced
<1>6. StoryHolds'
  BY <1>1, <1>2, <1>4 DEF StoryHolds, Synced
<1>7. AnswerHolds'
  BY <1>1, <1>2 DEF PipelineHolds, AnswerHolds, event
<1>8. QED  BY <1>3, <1>5, <1>6, <1>7 DEF PipelineHolds

LEMMA PipelineRecordExit == ASSUME PipelineHolds, RecordExit  PROVE PipelineHolds'
<1>1. /\ at = "exiting" /\ "ProcessExited" \in Events /\ Records("ProcessExited", "result")
      /\ UNCHANGED <<setup, command, files, verdict, changes, answer, applied, index>>
  BY DEF RecordExit, Events, restUnchanged, artifacts, sync, work
<1>2. /\ at' \in {"result", "ended"}
      /\ at' = "result" => broken' = broken /\ torn' = torn /\ Last(trail)' = "ProcessExited"
      /\ trail' \in Seq(Events)
      /\ \A e : Told(e) => Told(e)'
      /\ \A e : Told(e)' => Told(e) \/ e = "ProcessExited"
  BY <1>1, RecordsEffect DEF Guarded
<1>3. PipelineTypes'
  BY <1>1, <1>2 DEF PipelineHolds, PipelineTypes, Late, Closing
<1>4. verdict = "none" /\ index = Nothing /\ files["plan"] = "written"
  BY <1>1 DEF PipelineHolds, EvidenceHolds, StoryHolds, Opening
<1>5. EvidenceHolds'
  BY <1>1, <1>2, <1>4 DEF PipelineHolds, EvidenceHolds, Opening, Guarded, Late, Synced
<1>6. StoryHolds'
  BY <1>1, <1>2, <1>4 DEF StoryHolds, Synced
<1>7. AnswerHolds'
  BY <1>1, <1>2 DEF PipelineHolds, AnswerHolds
<1>8. QED  BY <1>3, <1>5, <1>6, <1>7 DEF PipelineHolds

(* A file that is written, cut off or not touched; the others stay.         *)
LEMMA WritesEffect ==
  ASSUME PipelineHolds, NEW file \in {"plan", "diff", "result"}, NEW next, Writes(file, next)
  PROVE  /\ files' \in [{"plan", "diff", "result"} -> {"absent", "cut", "written"}]
         /\ \A f \in {"plan", "diff", "result"} : f # file => files'[f] = files[f]
         /\ \/ files'[file] = "written" /\ at' = next
            \/ at' = IF at \in Guarded THEN "errorDiff" ELSE "ended"
<1>1. files \in [{"plan", "diff", "result"} -> {"absent", "cut", "written"}]
  BY DEF PipelineHolds, PipelineTypes
<1>2. CASE files' = [files EXCEPT ![file] = "written"] /\ GoesTo(next)
  BY <1>1, <1>2 DEF GoesTo
<1>3. CASE files' = [files EXCEPT ![file] = "cut"] /\ Fails
  BY <1>1, <1>3, FailsTo
<1>4. CASE UNCHANGED files /\ Fails
  BY <1>1, <1>4, FailsTo
<1>5. QED  BY <1>2, <1>3, <1>4 DEF Writes

LEMMA PipelinePlan == ASSUME PipelineHolds, WritePlan  PROVE PipelineHolds'
<1>1. /\ at = "plan" /\ Writes("plan", "approving")
      /\ UNCHANGED <<setup, trail, broken, torn, verdict, command, changes, answer, applied, index>>
  BY DEF WritePlan, evidence, sync, work
<1>2. /\ files' \in [{"plan", "diff", "result"} -> {"absent", "cut", "written"}]
      /\ (files'["plan"] = "written" /\ at' = "approving") \/ at' = "ended"
  BY <1>1, WritesEffect DEF Guarded
<1>3. \A e : Told(e)' <=> Told(e)
  BY <1>1, ToldSame
<1>4. Untouched /\ Untouched' /\ verdict = "none" /\ ~broken /\ ~torn /\ index = Nothing
  BY <1>1, <1>3
  DEF PipelineHolds, EvidenceHolds, StoryHolds, Untouched, Opening, Synced
<1>5. PipelineTypes'
  BY <1>1, <1>2 DEF PipelineHolds, PipelineTypes, Closing, Guarded
<1>6. EvidenceHolds'
  BY <1>1, <1>2, <1>4 DEF EvidenceHolds, Guarded, Opening, Late, Synced
<1>7. StoryHolds' /\ AnswerHolds'
  BY <1>1, <1>2, <1>4 DEF StoryHolds, AnswerHolds, Untouched
<1>8. QED  BY <1>5, <1>6, <1>7 DEF PipelineHolds

(* The file differences, and those of an error result                       *)
LEMMA PipelineDiff == ASSUME PipelineHolds, WriteDiff \/ WriteErrorDiff  PROVE PipelineHolds'
<1>1. /\ \/ at = "diff" /\ Writes("diff", "syncing")
         \/ at = "errorDiff" /\ Writes("diff", "errorResult")
      /\ UNCHANGED <<setup, trail, broken, torn, verdict, command, changes, answer, applied, index>>
  BY DEF WriteDiff, WriteErrorDiff, evidence, sync, work
<1>2. /\ files' \in [{"plan", "diff", "result"} -> {"absent", "cut", "written"}]
      /\ files'["plan"] = files["plan"]
      /\ \/ at = "diff" /\ at' = "syncing" /\ files'["diff"] = "written"
         \/ at = "errorDiff" /\ at' = "errorResult"
         \/ at' = "ended"
  BY <1>1, WritesEffect DEF Guarded
<1>3. \A e : Told(e)' <=> Told(e)
  BY <1>1, ToldSame
<1>4. Untouched /\ Untouched' /\ verdict = "none" /\ files["plan"] = "written" /\ index = Nothing
  BY <1>1, <1>3
  DEF PipelineHolds, EvidenceHolds, StoryHolds, Untouched, Opening, Synced
<1>5. PipelineTypes'
  BY <1>1, <1>2 DEF PipelineHolds, PipelineTypes, Late, Closing
<1>6. EvidenceHolds'
  BY <1>1, <1>2, <1>3, <1>4 DEF PipelineHolds, EvidenceHolds, Guarded, Opening, Late, Synced
<1>7. StoryHolds' /\ AnswerHolds'
  BY <1>1, <1>2, <1>4 DEF StoryHolds, AnswerHolds, Untouched
<1>8. QED  BY <1>5, <1>6, <1>7 DEF PipelineHolds

LEMMA PipelineResult == ASSUME PipelineHolds, WriteResult \/ WriteErrorResult  PROVE PipelineHolds'
<1>1. /\ \/ at = "result" /\ verdict' = "exited"
         \/ at = "errorResult" /\ verdict' = "error"
      /\ Writes("result", "indexing")
      /\ UNCHANGED <<setup, trail, broken, torn, command, changes, answer, applied, index>>
  BY DEF WriteResult, WriteErrorResult, evidence, sync, work
<1>2. /\ files' \in [{"plan", "diff", "result"} -> {"absent", "cut", "written"}]
      /\ files'["plan"] = files["plan"] /\ files'["diff"] = files["diff"]
      /\ (at' = "indexing" /\ files'["result"] = "written") \/ at' = "ended"
  BY <1>1, WritesEffect DEF Guarded
<1>3. (\A e : Told(e)' <=> Told(e)) /\ Last(trail)' = Last(trail)
  BY <1>1, ToldSame DEF Last
<1>4. files["plan"] = "written" /\ index = Nothing
  BY <1>1 DEF PipelineHolds, EvidenceHolds, StoryHolds, Opening
<1>5. PipelineTypes'
  BY <1>1, <1>2 DEF PipelineHolds, PipelineTypes, Closing
<1>6. EvidenceHolds'
  <2>1. CASE at = "result" /\ verdict' = "exited"
    <3>1. Complete /\ Last(trail) = "ProcessExited"
      BY <1>4, <2>1 DEF PipelineHolds, EvidenceHolds, Complete, Opening, Late, Synced
    <3>2. Complete'
      BY <1>1, <1>2, <1>3, <3>1 DEF Complete
    <3>3. QED
      BY <1>2, <1>3, <3>1, <3>2 DEF EvidenceHolds, Complete, Opening, Guarded, Late, Synced
  <2>2. CASE at = "errorResult" /\ verdict' = "error"
    BY <1>2, <1>4, <2>2 DEF EvidenceHolds, Opening, Guarded, Late, Synced
  <2>3. QED  BY <1>1, <2>1, <2>2
<1>7. verdict' = "error" => Untouched'
  BY <1>1, <1>3 DEF PipelineHolds, StoryHolds, Untouched, Synced
<1>8. StoryHolds'
  BY <1>1, <1>2, <1>4, <1>7 DEF StoryHolds
<1>9. AnswerHolds'
  BY <1>1, <1>2, <1>3 DEF PipelineHolds, AnswerHolds
<1>10. QED  BY <1>5, <1>6, <1>8, <1>9 DEF PipelineHolds

LEMMA PipelineSnapshot == ASSUME PipelineHolds, SnapshotAfter  PROVE PipelineHolds'
<1>1. /\ at = "after"
      /\ UNCHANGED <<trail, broken, torn, verdict, files, command, changes, answer, applied, index>>
      /\ at' \in {"diff", "errorDiff"}
  BY FailsTo DEF SnapshotAfter, GoesTo, Guarded, evidence, artifacts, work
<1>2. \A e : Told(e)' <=> Told(e)
  BY <1>1, ToldSame
<1>3. /\ Untouched /\ Untouched' /\ verdict = "none" /\ files["plan"] = "written" /\ index = Nothing
      /\ ~broken /\ ~torn /\ Told("ProcessStarted") /\ command \in {"left", "reaped"}
  BY <1>1, <1>2
  DEF PipelineHolds, EvidenceHolds, StoryHolds, Untouched, Opening, Guarded, Synced
<1>4. PipelineTypes'
  BY <1>1, <1>3 DEF PipelineHolds, PipelineTypes, Untouched, Late, Closing
<1>5. EvidenceHolds'
  BY <1>1, <1>2, <1>3 DEF EvidenceHolds, Synced
<1>6. StoryHolds' /\ AnswerHolds'
  BY <1>1, <1>3 DEF StoryHolds, AnswerHolds, Untouched
<1>7. QED  BY <1>4, <1>5, <1>6 DEF PipelineHolds

(* The steps of the sync-back, which leave the evidence alone               *)
LEMMA PipelineSyncs ==
  ASSUME PipelineHolds, at \in {"syncing", "applying"},
         at' \in {"applying", "synced", "exiting", "ended"},
         UNCHANGED <<evidence, artifacts, command, index>>,
         changes' \in Nat, applied' \in Nat, applied' <= changes', answer' \in BOOLEAN,
         AnswerHolds'
  PROVE  PipelineHolds'
<1>1. UNCHANGED <<trail, broken, torn, files, verdict, command, index>>
  BY DEF evidence, artifacts
<1>2. (\A e : Told(e)' <=> Told(e)) /\ verdict = "none" /\ index = Nothing
  BY <1>1, ToldSame DEF PipelineHolds, EvidenceHolds, StoryHolds
<1>3. PipelineTypes'
  BY <1>1 DEF PipelineHolds, PipelineTypes, Late, Closing
<1>4. /\ ~broken /\ ~torn /\ Told("ProcessStarted") /\ command \in {"left", "reaped"}
      /\ files["plan"] = "written" /\ files["diff"] = "written"
  BY DEF PipelineHolds, EvidenceHolds, Opening, Late, Synced
<1>5. EvidenceHolds'
  BY <1>1, <1>2, <1>4 DEF EvidenceHolds
<1>6. StoryHolds'
  BY <1>1, <1>2 DEF StoryHolds, Synced
<1>7. QED  BY <1>3, <1>5, <1>6 DEF PipelineHolds

LEMMA PipelineAsk == ASSUME PipelineHolds, AskToSync  PROVE PipelineHolds'
<1>1. /\ at = "syncing"
      /\ UNCHANGED <<setup, evidence, artifacts, command, applied, index>>
      /\ changes' = changes \/ changes' \in 0 .. found \/ changes' \in 1 .. found
      /\ \/ at' \in {"exiting", "ended"} /\ answer' = answer
         \/ at' = "synced" /\ answer' = answer
         \/ /\ setup.replica /\ setup.interactive /\ answer' \in BOOLEAN
            /\ at' = IF answer' THEN "applying" ELSE "synced"
  BY FailsTo DEF AskToSync, GoesTo, Guarded, work
<1>2. /\ Untouched /\ applied' = 0 /\ applied' \in Nat /\ answer' \in BOOLEAN
      /\ changes' \in Nat /\ applied' <= changes'
  BY <1>1 DEF PipelineHolds, PipelineTypes, StoryHolds, Untouched, Synced
<1>3. ~Told("SyncedBack")' /\ ~Told("NotSyncedBack")'
  BY <1>1, <1>2, ToldSame DEF Untouched, evidence
<1>4. /\ answer' => setup'.replica /\ setup'.interactive
      /\ at' = "applying" => answer'
      /\ at' = "synced" => applied' = IF answer' THEN changes' ELSE 0
  <2>1. CASE answer' = answer /\ at' # "applying"
    BY <1>1, <1>2, <2>1 DEF Untouched
  <2>2. CASE setup.replica /\ setup.interactive /\ at' = IF answer' THEN "applying" ELSE "synced"
    BY <1>1, <1>2, <2>2
  <2>3. QED  BY <1>1, <2>1, <2>2
<1>5. ~(applied' > 0)
  BY <1>2
<1>6. AnswerHolds'
  BY <1>3, <1>4, <1>5 DEF AnswerHolds
<1>7. QED  BY <1>1, <1>2, <1>6, PipelineSyncs

LEMMA PipelineApply == ASSUME PipelineHolds, ApplyChange \/ AllApplied  PROVE PipelineHolds'
<1>1. /\ at = "applying" /\ UNCHANGED <<setup, evidence, artifacts, command, changes, answer, index>>
      /\ \/ /\ applied < changes /\ applied' \in {applied, applied + 1}
            /\ at' \in {"applying", "ended"}
         \/ applied = changes /\ applied' = applied /\ at' = "synced"
  BY FailsTo DEF ApplyChange, AllApplied, GoesTo, Guarded, sync, work
<1>2. /\ answer /\ answer' = answer /\ setup.replica /\ setup.interactive
      /\ applied \in Nat /\ changes \in Nat
      /\ ~Told("NotSyncedBack") /\ (Told("SyncedBack") => applied = changes)
  BY <1>1 DEF PipelineHolds, PipelineTypes, AnswerHolds
<1>3. applied' \in Nat /\ applied' <= changes
  BY <1>1, <1>2
<1>4. ~Told("NotSyncedBack")' /\ (Told("SyncedBack")' => applied' = changes')
  BY <1>1, <1>2, ToldSame DEF evidence
<1>5. AnswerHolds'
  BY <1>1, <1>2, <1>4 DEF AnswerHolds
<1>6. QED  BY <1>1, <1>2, <1>3, <1>5, PipelineSyncs DEF PipelineHolds, PipelineTypes

(* The end, by the index or by a kill                                       *)
LEMMA PipelineEnds ==
  ASSUME PipelineHolds, at' = "ended", UNCHANGED <<setup, trail, broken, verdict, command, sync>>,
         files' \in [{"plan", "diff", "result"} -> {"absent", "cut", "written"}],
         verdict # "none" => files' = files /\ torn' = torn,
         index' = Nothing \/ (index' = <<trail, verdict>> /\ files'["result"] = "written")
  PROVE  PipelineHolds'
<1>1. (\A e : Told(e)' <=> Told(e)) /\ Last(trail)' = Last(trail)
  BY ToldSame DEF Last
<1>2. UNCHANGED <<changes, answer, applied>>
  BY DEF sync
<1>3. PipelineTypes'
  BY <1>2 DEF PipelineHolds, PipelineTypes, Closing
<1>4. verdict = "exited" => Complete'
  BY <1>1 DEF PipelineHolds, EvidenceHolds, Complete
<1>5. EvidenceHolds'
  BY <1>1, <1>4 DEF PipelineHolds, EvidenceHolds, Opening, Guarded, Late, Synced
<1>6. StoryHolds'
  BY <1>1, <1>2 DEF PipelineHolds, StoryHolds, Untouched
<1>7. AnswerHolds'
  BY <1>1, <1>2 DEF PipelineHolds, AnswerHolds
<1>8. QED  BY <1>3, <1>5, <1>6, <1>7 DEF PipelineHolds

LEMMA PipelineIndex == ASSUME PipelineHolds, Index  PROVE PipelineHolds'
<1>1. /\ at = "indexing" /\ at' = "ended"
      /\ UNCHANGED <<setup, trail, broken, torn, files, verdict, command, sync>>
      /\ index' = <<trail, verdict>> \/ index' = index
  BY DEF Index, Ends, evidence, artifacts, work
<1>2. index = Nothing /\ files["result"] = "written"
  BY <1>1 DEF PipelineHolds, StoryHolds
<1>3. files' \in [{"plan", "diff", "result"} -> {"absent", "cut", "written"}]
  BY <1>1 DEF PipelineHolds, PipelineTypes
<1>4. QED  BY <1>1, <1>2, <1>3, PipelineEnds

(* Only a write that goes on is cut off.                                    *)
LEMMA PipelineKilled == ASSUME PipelineHolds, Killed  PROVE PipelineHolds'
<1>1. /\ at # "ended" /\ at' = "ended"
      /\ UNCHANGED <<setup, trail, broken, verdict, command, sync, index>>
  BY DEF Killed, Ends, work
<1>2. index = Nothing
  BY <1>1 DEF PipelineHolds, StoryHolds
<1>3. /\ files \in [{"plan", "diff", "result"} -> {"absent", "cut", "written"}]
      /\ verdict # "none" => at = "indexing"
  BY <1>1 DEF PipelineHolds, PipelineTypes, EvidenceHolds
<1>4. DOMAIN FileOf = {"plan", "diff", "result", "errorDiff", "errorResult"}
  BY DEF FileOf
<1>5. /\ files' \in [{"plan", "diff", "result"} -> {"absent", "cut", "written"}]
      /\ at = "indexing" => files' = files /\ torn' = torn
  <2>1. CASE UNCHANGED <<files, torn>>
    BY <1>3, <2>1
  <2>2. CASE at \in DOMAIN FileOf /\ files' = [files EXCEPT ![FileOf[at]] = "cut"]
    BY <1>3, <1>4, <2>2
  <2>3. CASE at \in Appending /\ UNCHANGED files
    BY <1>3, <2>3 DEF Appending
  <2>4. QED  BY <2>1, <2>2, <2>3 DEF Killed
<1>6. QED  BY <1>1, <1>2, <1>3, <1>5, PipelineEnds

(* The command and what it leaves behind touch no artifact.                 *)
LEMMA PipelineWorks ==
  ASSUME PipelineHolds, UNCHANGED <<setup, at, evidence, artifacts, sync, index>>,
         command \in {"left", "reaped"} => command' \in {"left", "reaped"}
  PROVE  PipelineHolds'
<1>1. UNCHANGED <<setup, at, trail, broken, torn, files, verdict, changes, answer, applied, index>>
  BY DEF evidence, artifacts, sync
<1>2. \A e : Told(e)' <=> Told(e)
  BY <1>1, ToldSame
<1>3. QED
  BY <1>1, <1>2 DEF PipelineHolds, PipelineTypes, EvidenceHolds, Complete, StoryHolds, Untouched,
     AnswerHolds, Last

LEMMA PipelineStep == ASSUME PipelineHolds, [Next]_vars  PROVE PipelineHolds'
<1>1. CASE \/ Start \/ Copy \/ SnapshotBefore \/ Prepare \/ Launch \/ Monitor \/ DenialsRecorded
  <2>1. /\ UNCHANGED <<setup, evidence, artifacts, sync, index>>
        /\ \/ at = "starting" /\ at' = "plan" /\ command' = command
           \/ at = "copying" /\ at' \in {"copied", "before"} /\ command' = command
           \/ at = "before" /\ at' = "preparing" /\ command' = command
           \/ at = "preparing" /\ at' = "sandboxed" /\ command' = command
           \/ at = "launching" /\ at' = "started"
           \/ at = "monitoring" /\ at' = "denials" /\ command' \in {"left", "reaped"}
           \/ at = "denials" /\ at' = "after" /\ command' = command
           \/ Fails /\ at \in {"starting"} \cup Guarded
    BY <1>1 DEF Start, Copy, SnapshotBefore, Prepare, Launch, Monitor, DenialsRecorded, Tries,
       GoesTo, restUnchanged, Guarded, work
  <2>2. QED  BY <2>1, PipelineQuiet
<1>2. CASE \/ RecordCopy \/ RecordSandbox \/ RecordScrubbing \/ RecordStart \/ RecordDenial
  <2>1. UNCHANGED <<setup, artifacts, command, sync, index>>
    BY <1>2 DEF RecordCopy, RecordSandbox, RecordScrubbing, RecordStart, RecordDenial, restUnchanged,
       work
  <2>2. {"ReplicaCreated", "SandboxApplied", "EnvScrubbed", "ProcessStarted", "PermissionBlocked"}
          \subseteq Events
    BY DEF Events
  <2>3. CASE RecordCopy
    BY <2>1, <2>2, <2>3, PipelineRecords DEF RecordCopy
  <2>4. CASE RecordSandbox
    BY <2>1, <2>2, <2>4, PipelineRecords DEF RecordSandbox
  <2>5. CASE RecordScrubbing
    BY <2>1, <2>2, <2>5, PipelineRecords DEF RecordScrubbing
  <2>6. CASE RecordStart
    BY <2>1, <2>2, <2>6, PipelineRecords DEF RecordStart
  <2>7. CASE RecordDenial
    BY <2>1, <2>2, <2>7, PipelineRecords DEF RecordDenial
  <2>8. QED  BY <1>2, <2>3, <2>4, <2>5, <2>6, <2>7
<1>3. CASE Approve
  <2>1. at = "approving" /\ UNCHANGED <<setup, artifacts, command, sync, index>>
    BY <1>3 DEF Approve, restUnchanged, work
  <2>2. CASE UNCHANGED evidence /\ (at' = "copying" \/ Fails)
    <3>1. command' = command
      BY <2>1
    <3>2. at \in Guarded
      BY <2>1 DEF Guarded
    <3>3. QED  BY <2>1, <2>2, <3>1, <3>2, PipelineQuiet
  <2>3. CASE Records("Approved", "copying") \/ Records("Declined", "errorDiff")
    <3>1. "Approved" \in Events /\ "Declined" \in Events
      BY DEF Events
    <3>2. QED  BY <2>1, <2>3, <3>1, PipelineRecords
  <2>4. QED  BY <1>3, <2>2, <2>3 DEF Approve, GoesTo
<1>4. CASE CommandWorks \/ LeftEnd \/ UNCHANGED vars
  BY <1>4, PipelineWorks DEF CommandWorks, LeftEnd, vars, work
<1>5. QED
  BY <1>1, <1>2, <1>3, <1>4, PipelinePlan, PipelineDiff, PipelineResult, PipelineSnapshot,
     PipelineAsk, PipelineApply, PipelineRecordSync, PipelineRecordExit, PipelineIndex, PipelineKilled
  DEF Next

LEMMA PipelineInvariant == Spec => []PipelineHolds
BY PipelineStarts, PipelineStep, PTL DEF Spec

(* Through every early return and a kill at any moment: a complete result   *)
(* of a run that came to its end stands for complete evidence.              *)
THEOREM ResultIsTheLast == Spec => []ResultTellsAll
<1>1. PipelineHolds => ResultTellsAll
  BY DEF PipelineHolds, EvidenceHolds, Complete, ResultTellsAll
<1>2. QED  BY <1>1, PipelineInvariant, PTL

-----------------------------------------------------------------------------
(* The command's changes, and how the run ends                              *)

(* What is brought back was listed, what is listed was found, and what was  *)
(* found the command had made.                                              *)
WorkHolds ==
  /\ made \in Nat /\ found \in Nat /\ listed \in Nat
  /\ listed <= found /\ found <= made /\ changes <= found
  /\ command = "unborn" => made = 0
  /\ at \in {"syncing"} \cup Synced => listed = found
  /\ applied > 0 => files["diff"] = "written" /\ applied <= listed

(* Steps that leave the lists and the result alone                          *)
LEMMA WorkQuiet ==
  ASSUME WorkHolds, UNCHANGED <<made, found, listed, changes, applied, verdict>>,
         ~(applied > 0) \/ files'["diff"] = files["diff"],
         at' \in {"syncing"} \cup Synced => at \in {"syncing"} \cup Synced,
         command' = "unborn" => command = "unborn"
  PROVE  WorkHolds'
BY DEF WorkHolds

LEMMA WorkStep == ASSUME PipelineHolds, WorkHolds, [Next]_vars  PROVE WorkHolds'
<1> USE DEF evidence, artifacts, sync, work
<1>0. /\ files \in [{"plan", "diff", "result"} -> {"absent", "cut", "written"}]
      /\ applied \in Nat /\ changes \in Nat /\ applied <= changes
      /\ at \notin Synced \cup {"indexing", "ended"} => applied = 0
      /\ at \in {"syncing"} \cup Synced => files["diff"] = "written"
  BY DEF PipelineHolds, PipelineTypes, EvidenceHolds, StoryHolds, Untouched
<1>1. CASE CommandWorks \/ LeftEnd
  BY <1>1 DEF CommandWorks, LeftEnd, WorkHolds
<1>2. CASE SnapshotAfter
  <2>1. at' \in {"diff", "errorDiff"} /\ verdict = "none" /\ applied = 0
    BY <1>0, <1>2, FailsTo DEF SnapshotAfter, GoesTo, Guarded, Synced, PipelineHolds, EvidenceHolds
  <2>2. /\ UNCHANGED <<made, listed, changes, applied, verdict, command>>
        /\ found' = made \/ found' = found
    BY <1>2 DEF SnapshotAfter
  <2>3. /\ listed <= found' /\ found' <= made /\ changes <= found' /\ found' \in Nat
    <3>1. /\ made \in Nat /\ found \in Nat /\ listed \in Nat /\ changes \in Nat
          /\ listed <= found /\ found <= made /\ changes <= found
      BY DEF WorkHolds, PipelineHolds, PipelineTypes
    <3>2. QED  BY <2>2, <3>1
  <2>4. QED  BY <2>1, <2>2, <2>3 DEF WorkHolds, Synced
<1>3. CASE WriteDiff \/ WriteErrorDiff
  <2>1. verdict = "none" /\ UNCHANGED <<made, found, changes, applied, verdict, command>>
    BY <1>3 DEF WriteDiff, WriteErrorDiff, PipelineHolds, EvidenceHolds
  <2>2. applied = 0
    BY <1>0, <1>3 DEF WriteDiff, WriteErrorDiff, Synced
  <2>3. \/ listed' = found
        \/ listed' = 0 /\ at' \in {"errorResult", "ended"}
    BY <1>3, FailsTo DEF WriteDiff, WriteErrorDiff, Writes, GoesTo, Guarded
  <2>4. QED  BY <2>1, <2>2, <2>3 DEF WorkHolds, Synced
<1>4. CASE AskToSync
  <2>1. /\ at = "syncing" /\ verdict = "none" /\ files' = files
        /\ UNCHANGED <<made, found, listed, applied, verdict, command>>
        /\ changes' = changes \/ changes' \in 0 .. found \/ changes' \in 1 .. found
    BY <1>4 DEF AskToSync, PipelineHolds, EvidenceHolds
  <2>2. applied = 0
    BY <1>0, <2>1 DEF Synced
  <2>3. QED  BY <1>0, <2>1, <2>2 DEF WorkHolds
<1>5. CASE ApplyChange
  <2>1. /\ at = "applying" /\ verdict = "none"
        /\ UNCHANGED <<made, found, listed, changes, verdict, command, files>>
        /\ applied < changes /\ applied' \in {applied, applied + 1}
    BY <1>5 DEF ApplyChange, PipelineHolds, EvidenceHolds
  <2>2. listed = found /\ files["diff"] = "written" /\ changes <= found /\ found \in Nat
    BY <1>0, <2>1 DEF WorkHolds, Synced
  <2>3. applied' <= listed
    BY <1>0, <2>1, <2>2
  <2>4. QED  BY <2>1, <2>2, <2>3 DEF WorkHolds
<1>6. CASE WriteResult \/ WriteErrorResult
  <2>1. /\ UNCHANGED <<made, found, listed, changes, applied, command>>
        /\ at' \in {"indexing", "ended"}
        /\ Writes("result", "indexing")
    BY <1>6, FailsTo DEF WriteResult, WriteErrorResult, Writes, GoesTo, Guarded
  <2>2. files'["diff"] = files["diff"]
    BY <1>0, <2>1 DEF Writes
  <2>3. QED  BY <2>1, <2>2 DEF WorkHolds, Synced
<1>7. CASE \/ Start \/ Copy \/ SnapshotBefore \/ Prepare \/ Launch \/ Monitor \/ DenialsRecorded
           \/ WritePlan \/ Approve
  <2>1. /\ UNCHANGED <<made, found, listed, changes, applied, verdict>>
        /\ at' \notin {"syncing"} \cup Synced
        /\ command' = "unborn" => command = "unborn"
        /\ at \notin Synced \cup {"indexing", "ended"}
    BY <1>7, FailsTo
    DEF Start, Copy, SnapshotBefore, Prepare, Launch, Monitor, DenialsRecorded, WritePlan, Approve,
        Tries, Writes, Records, GoesTo, restUnchanged, Guarded, Synced
  <2>2. QED  BY <1>0, <2>1, WorkQuiet
<1>8. CASE RecordCopy \/ RecordSandbox \/ RecordScrubbing \/ RecordStart \/ RecordDenial
  <2>1. UNCHANGED <<made, found, listed, changes, applied, verdict, command, files>>
    BY <1>8 DEF RecordCopy, RecordSandbox, RecordScrubbing, RecordStart, RecordDenial, restUnchanged
  <2>2. at' \notin {"syncing"} \cup Synced
    BY <1>8, FailsTo
    DEF RecordCopy, RecordSandbox, RecordScrubbing, RecordStart, RecordDenial, Records, GoesTo,
        Guarded, Synced
  <2>3. QED  BY <2>1, <2>2, WorkQuiet
<1>9. CASE AllApplied \/ RecordSync \/ RecordExit \/ Index \/ Killed
  <2>1. UNCHANGED <<made, found, listed, changes, applied, verdict, command>>
    BY <1>9 DEF AllApplied, RecordSync, RecordExit, Index, Killed, restUnchanged
  <2>2. at' \in {"syncing"} \cup Synced => at \in {"syncing"} \cup Synced
    BY <1>9, FailsTo
    DEF AllApplied, RecordSync, RecordExit, Index, Killed, Records, GoesTo, Ends, Guarded, Synced
  <2>3. ~(applied > 0) \/ files'["diff"] = files["diff"]
    <3>1. CASE files' = files
      BY <3>1
    <3>2. CASE at \in DOMAIN FileOf /\ files' = [files EXCEPT ![FileOf[at]] = "cut"]
      <4>1. at = "result" => FileOf[at] = "result"
        BY DEF FileOf
      <4>2. at # "result" => applied = 0
        BY <1>0, <3>2 DEF FileOf, Synced
      <4>3. QED  BY <1>0, <3>2, <4>1, <4>2
    <3>3. QED
      BY <1>9, <3>1, <3>2 DEF AllApplied, RecordSync, RecordExit, Index, Killed, restUnchanged
  <2>4. QED  BY <2>1, <2>2, <2>3, WorkQuiet
<1>10. CASE UNCHANGED vars
  BY <1>10, WorkQuiet DEF vars
<1>11. QED
  BY <1>1, <1>2, <1>3, <1>4, <1>5, <1>6, <1>7, <1>8, <1>9, <1>10 DEF Next

(* Only a run that wrote the result of an exit ends well.                   *)
OutcomeHolds ==
  /\ exit = "none" <=> at # "ended"
  /\ at \notin {"indexing", "ended"} => files["result"] # "written"
  /\ exit = "ok" => verdict = "exited" /\ files["result"] = "written"
  /\ exit = "error" => ~(verdict = "exited" /\ files["result"] = "written")

(* Where a step leads that does not write the result                        *)
GoesOn == (at' \notin {"indexing", "ended"} /\ exit' = exit) \/ (at' = "ended" /\ exit' = "error")

LEMMA FailsGoesOn == Fails => GoesOn
BY DEF Fails, GoesTo, Ends, GoesOn

LEMMA GoesToGoesOn ==
  ASSUME NEW step, GoesTo(step), step \notin {"indexing", "ended"}  PROVE GoesOn
BY DEF GoesTo, GoesOn

LEMMA OutcomeStep == ASSUME PipelineHolds, OutcomeHolds, [Next]_vars  PROVE OutcomeHolds'
<1> USE DEF evidence, artifacts, sync, work
<1>1. files \in [{"plan", "diff", "result"} -> {"absent", "cut", "written"}]
  BY DEF PipelineHolds, PipelineTypes
<1>2. ASSUME at \notin {"indexing", "ended"}, verdict' = "none", files'["result"] # "written",
             GoesOn
      PROVE  OutcomeHolds'
  BY <1>2 DEF OutcomeHolds, GoesOn
<1>3. at \notin {"indexing", "ended"} => verdict = "none" /\ files["result"] # "written"
  BY DEF OutcomeHolds, PipelineHolds, EvidenceHolds
<1>4. CASE CommandWorks \/ LeftEnd \/ UNCHANGED vars
  BY <1>4 DEF CommandWorks, LeftEnd, vars, OutcomeHolds
<1>5. CASE \/ Start \/ Copy \/ SnapshotBefore \/ Prepare \/ Launch \/ Monitor \/ DenialsRecorded
           \/ SnapshotAfter \/ AskToSync \/ ApplyChange \/ AllApplied
  <2>1. at \notin {"indexing", "ended"} /\ UNCHANGED <<files, verdict>>
    BY <1>5 DEF Start, Copy, SnapshotBefore, Prepare, Launch, Monitor, DenialsRecorded, SnapshotAfter,
       AskToSync, ApplyChange, AllApplied, restUnchanged
  <2>2. GoesOn
    <3>1. CASE Fails
      BY <3>1, FailsGoesOn
    <3>2. CASE ~Fails
      <4>1. PICK step \in {"plan", "copied", "before", "preparing", "sandboxed", "started", "denials",
                           "after", "diff", "exiting", "synced", "applying"} : GoesTo(step)
        BY <1>5, <3>2 DEF Start, Copy, SnapshotBefore, Prepare, Launch, Monitor, DenialsRecorded,
           SnapshotAfter, AskToSync, ApplyChange, AllApplied, Tries
      <4>2. QED  BY <4>1, GoesToGoesOn
    <3>3. QED  BY <3>1, <3>2
  <2>3. QED  BY <1>2, <1>3, <2>1, <2>2
<1>6. CASE \/ Approve \/ RecordCopy \/ RecordSandbox \/ RecordScrubbing \/ RecordStart
           \/ RecordDenial \/ RecordSync \/ RecordExit
  <2>1. at \notin {"indexing", "ended"} /\ UNCHANGED <<files, verdict>>
    BY <1>6 DEF Approve, RecordCopy, RecordSandbox, RecordScrubbing, RecordStart, RecordDenial,
       RecordSync, RecordExit, restUnchanged
  <2>2. GoesOn
    <3>1. CASE Fails
      BY <3>1, FailsGoesOn
    <3>2. CASE ~Fails
      <4>1. PICK step \in {"copying", "errorDiff", "before", "scrubbing", "launching", "monitoring",
                           "denials", "exiting", "result"} : GoesTo(step)
        BY <1>6, <3>2 DEF Approve, RecordCopy, RecordSandbox, RecordScrubbing, RecordStart,
           RecordDenial, RecordSync, RecordExit, Records
      <4>2. QED  BY <4>1, GoesToGoesOn
    <3>3. QED  BY <3>1, <3>2
  <2>3. QED  BY <1>2, <1>3, <2>1, <2>2
<1>7. CASE WritePlan \/ WriteDiff \/ WriteErrorDiff
  <2>1. at \notin {"indexing", "ended"} /\ verdict' = verdict
    BY <1>7 DEF WritePlan, WriteDiff, WriteErrorDiff
  <2>2. PICK file \in {"plan", "diff"}, next \in {"approving", "syncing", "errorResult"} :
          Writes(file, next)
    BY <1>7 DEF WritePlan, WriteDiff, WriteErrorDiff
  <2>3. files'["result"] = files["result"]
    BY <1>1, <2>2 DEF Writes
  <2>4. GoesOn
    BY <2>2, FailsGoesOn, GoesToGoesOn DEF Writes
  <2>5. QED  BY <1>2, <1>3, <2>1, <2>3, <2>4
<1>8. CASE WriteResult \/ WriteErrorResult
  <2>1. at \in {"result", "errorResult"} /\ Writes("result", "indexing")
    BY <1>8 DEF WriteResult, WriteErrorResult
  <2>2. \/ files'["result"] = "written" /\ at' = "indexing" /\ exit' = exit
        \/ files'["result"] # "written" /\ at' = "ended" /\ exit' = "error"
    BY <1>1, <1>3, <2>1 DEF Writes, GoesTo, Fails, Ends, Guarded
  <2>3. QED  BY <2>1, <2>2 DEF OutcomeHolds
<1>9. CASE Index
  BY <1>9 DEF Index, Ends, OutcomeHolds, PipelineHolds, StoryHolds
<1>10. CASE Killed
  BY <1>10 DEF Killed, Ends, OutcomeHolds
<1>11. QED
  BY <1>4, <1>5, <1>6, <1>7, <1>8, <1>9, <1>10 DEF Next

(* An error result excludes an exit, a sync-back and, where the command has *)
(* a copy or was not launched, any change of the workspace; what is brought *)
(* back is listed in a complete fs-diff wherever the run ends; what fs-diff *)
(* lists after an exit the command did change; and the index and the way    *)
(* clawcrate ends repeat what the artifacts say.                            *)
THEOREM ArtifactsAgree == Spec => []OneStory
<1>1. Init => WorkHolds /\ OutcomeHolds
  BY DEF Init, WorkHolds, OutcomeHolds, Synced
<1>2. Spec => [](PipelineHolds /\ WorkHolds /\ OutcomeHolds)
  BY <1>1, PipelineStarts, PipelineStep, WorkStep, OutcomeStep, PTL DEF Spec
<1>3. PipelineHolds /\ WorkHolds /\ OutcomeHolds => OneStory
  <2> SUFFICES ASSUME PipelineHolds, WorkHolds, OutcomeHolds  PROVE OneStory
    OBVIOUS
  <2>1. verdict = "error" => Untouched /\ (setup.replica \/ command = "unborn" => InWorkspace = 0)
    BY DEF PipelineHolds, StoryHolds, Untouched, WorkHolds, InWorkspace
  <2>2. /\ applied > 0 => files["diff"] = "written" /\ applied <= listed
        /\ verdict = "exited" => listed <= made
    BY DEF WorkHolds
  <2>3. exit \in {"ok", "error"} => (exit = "ok" <=> verdict = "exited" /\ files["result"] = "written")
    BY DEF OutcomeHolds
  <2>4. index # Nothing => index = <<trail, verdict>> /\ files["result"] = "written"
    BY DEF PipelineHolds, StoryHolds
  <2>5. QED  BY <2>1, <2>2, <2>3, <2>4 DEF OneStory, Untouched
<1>4. QED  BY <1>2, <1>3, PTL

(* The workspace changes only after the user's answer, and the trail says   *)
(* truly what came of it, for any number of changes.                        *)
THEOREM SyncBackIsAnswered == Spec => []SyncBackIsTrue
<1>1. PipelineHolds => SyncBackIsTrue
  BY DEF PipelineHolds, PipelineTypes, AnswerHolds, SyncBackIsTrue
<1>2. QED  BY <1>1, PipelineInvariant, PTL

=============================================================================
