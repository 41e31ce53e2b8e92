---------------------------- MODULE RunPipeline ----------------------------
(***************************************************************************)
(* One `clawcrate run` on Linux, from the plan to the summary: handle_run, *)
(* execute_run_pipeline and launch_and_capture of                          *)
(* crates/clawcrate-cli/src/run.rs, with the approval, the replica's       *)
(* sync-back and the denial events they call.  What a run leaves behind is *)
(* followed through every early return, and through a kill of the program  *)
(* at any moment: plan.json, audit.ndjson, fs-diff.json, result.json, the  *)
(* SQLite index, the user's workspace and the sandboxed child.             *)
(*                                                                         *)
(* The command works in the user's workspace itself, or in a copy of it    *)
(* (setup.replica), whose changes reach the workspace by a sync-back only. *)
(*                                                                         *)
(* One step writes one artifact or one event.  Statuses, hosts and paths   *)
(* are left out; the child and its monitor are in RunMonitor, the lines of *)
(* the trail in AuditTrail.                                                *)
(***************************************************************************)
EXTENDS Naturals, Sequences, SequencesExt

CONSTANTS
  MaxDenials,  (* bound: denial events of one run                            *)
  MaxChanges,  (* bound: paths the command changes                           *)
  Nothing      (* the run is not in the index                                *)

ASSUME PipelineAssumption == MaxDenials \in Nat /\ MaxChanges \in Nat

VARIABLES
  setup,     (* what the command line, the profile and the terminal decide   *)
  at,        (* the step handle_run is about to take                         *)
  exit,      (* none while it runs; ok, error or killed                      *)
  trail,     (* the events of audit.ndjson                                   *)
  broken,    (* an append returned an error                                  *)
  torn,      (* ... or was cut off, and the last line is there in part       *)
  files,     (* the other artifacts: absent, cut or written                  *)
  verdict,   (* what result.json tells: an error of the run, or its exit     *)
  command,   (* the child: unborn, running, reaped; left when it was reaped  *)
             (* and processes it started go on                               *)
  made,      (* paths the command has changed where it works                 *)
  found,     (* those of them the two snapshots tell apart                   *)
  listed,    (* those fs-diff.json lists, when it is there                   *)
  left,      (* drained denials without an event                             *)
  changes,   (* changes eligible for sync-back                               *)
  answer,    (* the user agreed to the sync-back                             *)
  applied,   (* changes that have touched the user's workspace               *)
  index      (* what the SQLite index holds of this run                      *)

evidence == <<trail, broken, torn>>
artifacts == <<files, verdict, listed>>
sync == <<found, changes, answer, applied>>
work == <<command, made>>
vars == <<setup, at, exit, evidence, artifacts, work, left, sync, index>>

Events == {"Approved", "Declined", "ReplicaCreated", "SandboxApplied", "EnvScrubbed",
           "ProcessStarted", "PermissionBlocked", "SyncedBack", "NotSyncedBack",
           "ProcessExited"}
Setups == [replica : BOOLEAN, approval : {"needless", "flag", "prompt", "refused"},
           scrubbed : BOOLEAN, interactive : BOOLEAN, sqlite : BOOLEAN]
Guarded == {"approving", "copying", "copied", "before", "preparing", "sandboxed", "scrubbing",
            "launching", "started", "monitoring", "denials", "after"}
Late == {"diff", "syncing", "applying", "synced", "exiting", "result"}

Init ==
  /\ setup \in Setups
  /\ at = "starting" /\ exit = "none"
  /\ trail = <<>> /\ broken = FALSE /\ torn = FALSE
  /\ files = [f \in {"plan", "diff", "result"} |-> "absent"]
  /\ verdict = "none"
  /\ command = "unborn" /\ made = 0
  /\ left = 0
  /\ found = 0 /\ listed = 0
  /\ changes = 0 /\ answer = FALSE /\ applied = 0
  /\ index = Nothing

-----------------------------------------------------------------------------
(* Steps, errors and writes                                                 *)

GoesTo(step) == at' = step /\ UNCHANGED exit
Ends(how) == at' = "ended" /\ exit' = how

(* `?`: inside the approval and the pipeline an error leads to              *)
(* persist_sandbox_error_result, anywhere else it is returned at once.      *)
Fails == IF at \in Guarded THEN GoesTo("errorDiff") ELSE Ends("error")

(* append_audit_event.  It fails with nothing written, with part of a line  *)
(* written, or because of the signature after the line was written (which   *)
(* may be there in part).                                                   *)
Records(event, next) ==
  \/ /\ trail' = Append(trail, event) /\ UNCHANGED <<broken, torn>>
     /\ GoesTo(next)
  \/ /\ trail' \in {trail, Append(trail, event)} /\ broken' = TRUE
     /\ torn' \in BOOLEAN
     /\ Fails

(* A faulty variant: the error of the append is dropped.                    *)
RecordsOrNot(event, next) ==
  /\ trail' \in {trail, Append(trail, event)}
  /\ broken' = (broken \/ trail' = trail) /\ UNCHANGED torn
  /\ GoesTo(next)

(* write_json_file truncates the file and writes it in place.               *)
Writes(file, next) ==
  \/ files' = [files EXCEPT ![file] = "written"] /\ GoesTo(next)
  \/ files' = [files EXCEPT ![file] = "cut"] /\ Fails
  \/ UNCHANGED files /\ Fails

(* An operation that writes nothing of interest and may fail.               *)
Tries(next) == (GoesTo(next) \/ Fails) /\ UNCHANGED evidence

-----------------------------------------------------------------------------
(* Up to the launch                                                         *)

restUnchanged == UNCHANGED <<setup, artifacts, work, left, sync, index>>

(* The profile is resolved and the directory of the run created.            *)
Start == at = "starting" /\ Tries("plan") /\ restUnchanged

WritePlan ==
  /\ at = "plan"
  /\ Writes("plan", "approving")
  /\ UNCHANGED <<setup, evidence, verdict, listed, work, left, sync, index>>

(* enforce_out_of_profile_approval                                          *)
Approve ==
  /\ at = "approving"
  /\ \/ setup.approval = "needless" /\ GoesTo("copying") /\ UNCHANGED evidence
     \/ setup.approval \in {"flag", "prompt"} /\ Records("Approved", "copying")
     \/ setup.approval \in {"refused", "prompt"} /\ Records("Declined", "errorDiff")
     \/ setup.approval = "prompt" /\ Fails /\ UNCHANGED evidence
  /\ restUnchanged

Copy ==
  /\ at = "copying"
  /\ IF setup.replica THEN Tries("copied") ELSE GoesTo("before") /\ UNCHANGED evidence
  /\ restUnchanged

RecordCopy == at = "copied" /\ Records("ReplicaCreated", "before") /\ restUnchanged

SnapshotBefore == at = "before" /\ Tries("preparing") /\ restUnchanged

(* The sandbox is prepared and, for filtered egress, the proxy started.     *)
Prepare == at = "preparing" /\ Tries("sandboxed") /\ restUnchanged

RecordSandbox ==
  /\ at = "sandboxed"
  /\ Records("SandboxApplied", IF setup.scrubbed THEN "scrubbing" ELSE "launching")
  /\ restUnchanged

RecordScrubbing == at = "scrubbing" /\ Records("EnvScrubbed", "launching") /\ restUnchanged

Launch ==
  /\ at = "launching"
  /\ \/ GoesTo("started") /\ command' = "running"
     \/ Fails /\ UNCHANGED command
  /\ UNCHANGED <<setup, evidence, artifacts, made, left, sync, index>>

(* The command changes a path it may write, and so may what it leaves       *)
(* behind.  Nothing holds it up, whatever became of the run.                *)
CommandWorks ==
  /\ command \in {"running", "left"}
  /\ made < MaxChanges
  /\ made' = made + 1
  /\ UNCHANGED <<setup, at, exit, evidence, artifacts, command, left, sync, index>>

LeftEnd ==
  /\ command = "left"
  /\ command' = "reaped"
  /\ UNCHANGED <<setup, at, exit, evidence, artifacts, made, left, sync, index>>

(* The child runs already, and runs on when this fails.                     *)
RecordStart == at = "started" /\ Records("ProcessStarted", "monitoring") /\ restUnchanged

-----------------------------------------------------------------------------
(* The run and its evidence                                                 *)

(* run_monitored_child, with the pipes taken before and the drain of the    *)
(* denials after it.  It fails before the child was reaped or after it, and *)
(* then the denials are not drained.                                        *)
Monitor ==
  /\ at = "monitoring"
  /\ \/ command' \in {"left", "reaped"} /\ left' \in 0 .. MaxDenials /\ GoesTo("denials")
     \/ command' \in {"running", "left", "reaped"} /\ UNCHANGED left /\ Fails
  /\ UNCHANGED <<setup, evidence, artifacts, made, sync, index>>

RecordDenial ==
  /\ at = "denials" /\ left > 0
  /\ Records("PermissionBlocked", "denials")
  /\ left' = left - 1
  /\ UNCHANGED <<setup, artifacts, work, sync, index>>

DenialsRecorded ==
  /\ at = "denials" /\ left = 0
  /\ GoesTo("after")
  /\ UNCHANGED <<setup, evidence, artifacts, work, left, sync, index>>

SnapshotAfter ==
  /\ at = "after"
  /\ \/ found' = made /\ GoesTo("diff")
     \/ UNCHANGED found /\ Fails
  /\ UNCHANGED <<setup, evidence, artifacts, work, left, changes, answer, applied, index>>

WriteDiff ==
  /\ at = "diff"
  /\ Writes("diff", "syncing")
  /\ listed' = found
  /\ UNCHANGED <<setup, evidence, verdict, work, left, sync, index>>

(* maybe_sync_back_replica, up to the user's answer.  What is excluded, or  *)
(* not beneath the copy, is not eligible.                                   *)
AskToSync ==
  /\ at = "syncing"
  /\ \/ ~setup.replica /\ GoesTo("exiting") /\ UNCHANGED <<changes, answer>>
     \/ setup.replica /\ Fails /\ UNCHANGED <<changes, answer>>
     \/ /\ setup.replica /\ changes' \in 0 .. found
        /\ changes' = 0 \/ ~setup.interactive
        /\ GoesTo("synced") /\ UNCHANGED answer
     \/ /\ setup.replica /\ setup.interactive
        /\ changes' \in 1 .. found /\ answer' \in BOOLEAN
        /\ GoesTo(IF answer' THEN "applying" ELSE "synced")
  /\ UNCHANGED <<setup, evidence, artifacts, work, left, found, applied, index>>

(* Faulty variants: an error that leads to an error result, and an error    *)
(* that is dropped.                                                         *)
ApplyOrPersist ==
  /\ at = "applying" /\ applied < changes
  /\ applied' \in {applied, applied + 1}
  /\ GoesTo("applying") \/ GoesTo("errorDiff")
  /\ UNCHANGED <<setup, evidence, artifacts, work, left, found, changes, answer, index>>
ApplyOrNot ==
  /\ at = "applying" /\ applied < changes
  /\ \/ applied' = applied + 1 /\ GoesTo("applying")
     \/ UNCHANGED applied /\ GoesTo("synced")
  /\ UNCHANGED <<setup, evidence, artifacts, work, left, found, changes, answer, index>>

(* One change of apply_replica_sync_back.  What was there is removed before *)
(* the copy, so a change that fails may have touched the workspace as well. *)
ApplyChange ==
  /\ at = "applying" /\ applied < changes
  /\ \/ applied' = applied + 1 /\ GoesTo("applying")
     \/ applied' \in {applied, applied + 1} /\ Fails
  /\ UNCHANGED <<setup, evidence, artifacts, work, left, found, changes, answer, index>>

AllApplied ==
  /\ at = "applying" /\ applied = changes
  /\ GoesTo("synced")
  /\ UNCHANGED <<setup, evidence, artifacts, work, left, sync, index>>

RecordSync ==
  /\ at = "synced"
  /\ Records(IF answer THEN "SyncedBack" ELSE "NotSyncedBack", "exiting")
  /\ restUnchanged

-----------------------------------------------------------------------------
(* The end                                                                  *)

(* A faulty variant: the error of the append is dropped.                    *)
RecordExitOrNot == at = "exiting" /\ RecordsOrNot("ProcessExited", "result") /\ restUnchanged

RecordExit == at = "exiting" /\ Records("ProcessExited", "result") /\ restUnchanged

WriteResult ==
  /\ at = "result"
  /\ Writes("result", "indexing")
  /\ verdict' = "exited"
  /\ UNCHANGED <<setup, evidence, listed, work, left, sync, index>>

(* persist_sandbox_error_result.  An error in it replaces the first one.    *)
WriteErrorDiff ==
  /\ at = "errorDiff"
  /\ Writes("diff", "errorResult")
  /\ listed' = 0
  /\ UNCHANGED <<setup, evidence, verdict, work, left, sync, index>>

WriteErrorResult ==
  /\ at = "errorResult"
  /\ Writes("result", "indexing")
  /\ verdict' = "error"
  /\ UNCHANGED <<setup, evidence, listed, work, left, sync, index>>

(* maybe_index_artifacts_in_sqlite: one transaction, whose failure (a line  *)
(* cut off is one) is only warned about.                                    *)
Index ==
  /\ at = "indexing"
  /\ \/ setup.sqlite /\ ~torn /\ index' = <<trail, verdict>>
     \/ UNCHANGED index
  /\ Ends(IF verdict = "exited" THEN "ok" ELSE "error")
  /\ UNCHANGED <<setup, evidence, artifacts, work, left, sync>>

(* The program is killed, between two steps or within a write.              *)
FileOf == [step \in {"plan", "diff", "result", "errorDiff", "errorResult"} |->
             CASE step = "plan" -> "plan"
               [] step \in {"diff", "errorDiff"} -> "diff"
               [] OTHER -> "result"]
Appending == {"approving", "copied", "sandboxed", "scrubbing", "started", "denials", "synced",
              "exiting"}

Killed ==
  /\ at # "ended"
  /\ Ends("killed")
  /\ \/ UNCHANGED <<files, torn>>
     \/ /\ at \in DOMAIN FileOf
        /\ files' = [files EXCEPT ![FileOf[at]] = "cut"] /\ UNCHANGED torn
     \/ at \in Appending /\ torn' = TRUE /\ UNCHANGED files
  /\ UNCHANGED <<setup, trail, broken, verdict, listed, work, left, sync, index>>

Next ==
  \/ Start \/ WritePlan \/ Approve \/ Copy \/ RecordCopy
  \/ SnapshotBefore \/ Prepare \/ RecordSandbox \/ RecordScrubbing
  \/ Launch \/ RecordStart \/ Monitor \/ RecordDenial \/ DenialsRecorded
  \/ SnapshotAfter \/ WriteDiff \/ AskToSync \/ ApplyChange \/ AllApplied
  \/ RecordSync \/ RecordExit \/ WriteResult
  \/ WriteErrorDiff \/ WriteErrorResult \/ Index
  \/ CommandWorks \/ LeftEnd
  \/ Killed

Spec == Init /\ [][Next]_vars

-----------------------------------------------------------------------------
(* Properties                                                               *)

Told(event) == Contains(trail, event)

(* Whoever finds a complete result.json of a run that came to its end finds *)
(* the rest of the evidence complete too, whenever the program was killed:  *)
(* the plan, the file differences, a trail that is whole and ends with the  *)
(* exit; and the child is gone.                                             *)
ResultTellsAll ==
  files.result = "written" /\ verdict = "exited" =>
    /\ files.plan = "written" /\ files.diff = "written"
    /\ Told("ProcessStarted") /\ Last(trail) = "ProcessExited"
    /\ ~broken /\ ~torn
    /\ command \in {"left", "reaped"}

(* What the user's workspace differs in, after a sync-back or because the   *)
(* command works in it.                                                     *)
InWorkspace == IF setup.replica THEN applied ELSE made

(* The artifacts tell one story.  A run whose result is an error of the     *)
(* sandbox has no exit and no sync-back in its trail; its empty fs-diff     *)
(* tells the truth about the user's workspace unless the command was        *)
(* launched right in it.  What is brought back from a copy is listed in a   *)
(* complete fs-diff, also when an error or a kill ends the sync-back and    *)
(* there will be no result; and with an exit the command did change what is *)
(* listed.  How clawcrate itself ends agrees with the result; and the index *)
(* holds what the artifacts hold in the end.                                *)
OneStory ==
  /\ verdict = "error" =>
       /\ ~Told("ProcessExited") /\ ~Told("SyncedBack")
       /\ setup.replica \/ command = "unborn" => InWorkspace = 0
  /\ applied > 0 => files.diff = "written" /\ applied <= listed
  /\ verdict = "exited" => listed <= made
  /\ exit \in {"ok", "error"} =>
       (exit = "ok" <=> verdict = "exited" /\ files.result = "written")
  /\ index # Nothing => index = <<trail, verdict>> /\ files.result = "written"

(* The user's workspace changes only after the user agreed to it, and when  *)
(* the trail says that changes were synced back all of them were.           *)
SyncBackIsTrue ==
  /\ applied > 0 => setup.replica /\ setup.interactive /\ answer
  /\ Told("SyncedBack") => answer /\ applied = changes
  /\ Told("NotSyncedBack") => applied = 0

=============================================================================
