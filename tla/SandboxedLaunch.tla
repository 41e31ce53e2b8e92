--------------------------- MODULE SandboxedLaunch --------------------------
(***************************************************************************)
(* From `clawcrate run --profile P` to the command confined on Linux: the  *)
(* profile is resolved (ProfileResolver), build_execution_plan of          *)
(* crates/clawcrate-cli/src/run.rs makes a plan of it, and LinuxSandbox    *)
(* launches it.  The copy of the workspace in Replica mode is there when   *)
(* the sandbox is prepared (RunPipeline has that order).                   *)
(***************************************************************************)
EXTENDS ProfileResolver, LinuxSandbox

CONSTANTS
  Flags,     (* of none, replica, direct: the flags the user may give        *)
  CopyDir    (* where the copy of the workspace is made                      *)

ASSUME LaunchAssumption == IsLocation(CopyDir)

VARIABLE flag

vars == <<resolverVars, sandboxVars, flag>>

Init == ResolverInit /\ SandboxInit /\ flag \in Flags

Resolve == ResolverNext /\ UNCHANGED <<sandboxVars, flag>>

ExecutionDir == IF SelectMode(resolved.mode, flag) = "replica" THEN CopyDir ELSE WorkDir

Plan ==
  /\ step = "resolved" /\ outcome = "ok"
  /\ BuildPlan(resolved, ExecutionDir)
  /\ UNCHANGED <<resolverVars, flag>>

Launch == LaunchNext /\ UNCHANGED <<resolverVars, flag>>

Others == OtherNext /\ UNCHANGED <<resolverVars, flag>>

Next ==
  \/ Resolve
  \/ Plan
  \/ Launch
  \/ Others

(* clawcrate and its child run on; no call need fail, and nobody else need  *)
(* do anything.                                                             *)
Progress ==
  \/ Resolve
  \/ Plan
  \/ LaunchSteps /\ UNCHANGED <<resolverVars, flag>>

Spec == Init /\ [][Next]_vars
FairSpec == Spec /\ WF_vars(Progress)

-----------------------------------------------------------------------------
(* Properties                                                               *)

(* Every launch is decided: the command runs or there is an error, for any  *)
(* chain of bases and at every level of network access.                     *)
LaunchDecides ==
  <>(stage \in {"running", "failed"} \/ (step = "resolved" /\ outcome # "ok"))

=============================================================================
