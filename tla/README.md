# ClawCrate in TLA+

TLA+ specifications of ClawCrate, a Rust program that runs one command inside a
sandbox (Landlock, seccomp, resource limits) and leaves evidence of the run: a
hash-chained audit trail, a plan, a result and a list of file changes. The
specifications are checked with TLC on small instances; the theorems are proved
with TLAPS for every value of the constants.

    tlc -config RunPipeline.cfg RunPipeline      # check one run
    tlapm AuditTrailProofs.tla                   # check one module of proofs

Names in the modules are the names of the code where TLA+ allows it. `Faulty
variant` definitions are mutations of the definition that follows them; each
property fails when its variant takes the definition's place, and
`PROJECT.json` ("mutants") says which one.

## 1. The system and its parts

| Part | Source | State it keeps | Operations | Hard behaviour | Module |
|---|---|---|---|---|---|
| Run pipeline | `clawcrate-cli/src/run.rs`, `support.rs`, `approval.rs` | the artifacts of one run, the child handle | approve, copy, launch, monitor, record, diff, sync back, write the result, index | an early return at every step, a kill at any step | `RunPipeline` |
| Profiles | `clawcrate-profiles/src/lib.rs` | the entries being resolved | choose, load, extend, merge, validate | cycles and spellings of one path, precedence along a chain, the catalog | `ProfileResolver`, `PathOps` |
| Linux sandbox | `clawcrate-sandbox/src/linux.rs`, `env_scrub.rs`, `path_normalize.rs`, `rlimits.rs` | the plan, opened anchors, the filter, what the child did to itself | scrub, normalize, look up and open anchors, build the filter, limit, restrict, install, exec | files and links come and go between lookup and opening; a failure before exec; old kernels | `LinuxSandbox`, composed in `SandboxedLaunch` |
| Seccomp supervisor | `clawcrate-sandbox/src/linux_notify.rs`, `linux.rs` | denial buffer, shutdown flag, a socket pair shared by fork | hand-over, acknowledge, poll, receive, record, reply, drain, join | three parties, inherited descriptors, time-outs, callers that die in between, a poll or an ioctl that fails | `SeccompNotify` |
| Run monitor | `run.rs` (`run_monitored_child*`) | flags and clocks of two loops | poll signals, limit, grace, try_wait, wait for the capture | signals, deadlines and exits in any order; descendants holding the pipes | `RunMonitor` |
| Output capture, MCP relay | `clawcrate-capture/src/lib.rs`, `clawcrate-cli/src/mcp.rs` | the shared budget, the counts of each stream | read, give to the client, reserve, log, flush, join | two threads on one budget, a client that goes away, a pipe that fills | `OutputStreams` |
| Replica, fs diff | `clawcrate-cli/src/replica.rs`, `clawcrate-sandbox/src/fs_clone.rs`, `clawcrate-capture/src/lib.rs` | the copy, two snapshots, the changes | copy with exclusions, snapshot, diff, collect, ask, apply | the workspace and the copy change meanwhile; errors in the middle; links at the end and on the way of a path | `Replica` |
| Egress proxy | `clawcrate-sandbox/src/egress_proxy.rs` | handler slots, denial log, shutdown flag | accept, handle, tunnel, drain, shutdown | handlers outlive the drain and the proxy | `EgressProxy` |
| Audit trail | `clawcrate-audit/src/lib.rs` | `audit.ndjson` | append (chain, sign), verify | partial lines, a kill between event and signature, blocks over many appends | `AuditTrail` |
| API | `clawcrate-cli/src/api.rs` | bounded queue, closed flag, workers | enqueue, dequeue, handle, close | condition variable, full queue, shutdown | `ApiService`, `ApiQueue` |
| MCP installation | `clawcrate-cli/src/mcp_install.rs` | a client's config, backups, temporary files | install, uninstall, dry run | invocations and the client at once, kills, backups named by the second | `McpInstall` |
| SQLite index | `clawcrate-audit/src/lib.rs` | one row and its events per run | upsert in one transaction | read from artifacts that may be cut | step in `RunPipeline` |

The parts meet in `handle_run`. It resolves the profile and plans the run, calls
the approval, copies the workspace, scrubs the environment, starts the egress
proxy, opens the Landlock anchors, launches the child (which starts the
supervisor thread, and the child limits and confines itself before it executes
the command), hands the child to the monitor (which starts the capture threads),
drains the denials of the supervisor and of the proxy into the trail, compares
the file snapshots, syncs the replica back, and writes the last event and the
result. They share state through: the trail and the other files of the run's
directory; the two denial buffers (a mutex each); the socket pair and the
listener descriptor between parent, supervisor and child; signals; the pipes of
the child's output; the output budget; the file system, which other processes
change meanwhile. `clawcrate api` runs the same program as a subprocess, one for
each request of its queue; `mcp wrap`, which `mcp install` puts into a client's
config, runs the same launch and relays the streams.

What makes each part correct:

- *Pipeline.* What the artifacts tell about one run agrees, wherever it failed
  or was killed; no program runs before the trail says under what; the user's
  workspace changes only with consent.
- *Profiles.* The definition nearest to the profile asked for decides; a chain
  is resolved exactly when it has an end, however its paths are spelled, but for
  the two cases `ChainDecides` names.
- *Linux sandbox.* The command runs with its limits, rules and filter in force or
  not at all; it may read only beneath where the named paths lead, whatever changes
  during the launch; every launch is decided.
- *Supervisor.* A denial is recorded before it is answered, every caller is
  answered, the launch and the join come to an end.
- *Monitor.* A run this program ended is not reported as one that ended by
  itself; nothing of a killed group stays; a limited or interrupted run ends.
- *Output.* Both logs together stay within the budget and leave nothing out in
  the middle; the counts add up; the command is never held up by its own output.
- *Replica.* What is excluded is not copied; the workspace changes only where a
  change was approved; a reported sync-back is complete; a link at the end of a
  path is not followed.
- *Egress proxy.* Bytes go only where the profile allows; handlers are counted
  exactly; a refusal is reported once.
- *Trail.* An untouched trail verifies, an altered one does not, at least with the
  public key; blocks cover the events without gap or overlap.
- *API.* An accepted request is answered once; no wake-up is lost.
- *MCP installation.* An entry runs its owner's command, wrapped at most once;
  what a write replaced is kept; other entries are left alone.

## 2. Modules

**`RunPipeline`** (one `clawcrate run` on Linux). `at` is the step `handle_run`
is about to take; every action is one write, one append or one operation that
may fail. `Fails` is the `?` operator: inside the approval and
`execute_run_pipeline` it leads to `persist_sandbox_error_result`, elsewhere it
returns. `Records` is `append_audit_event` with its three ways to fail (nothing
written, a line cut off, the line written and its signature not); `Writes` is
`write_json_file`, which truncates and writes in place. `Killed` ends the
program at any step, leaving the file or the line of that step cut. `setup` is
chosen at the start: replica or direct mode, how the approval is decided,
whether variables were scrubbed, whether there is a terminal, whether the index
is on. `CommandWorks` is the command, or a process it leaves behind, changing a
path (`made`), in the user's workspace itself or in the copy; `found` is what the
second snapshot sees of it, `listed` what `fs-diff.json` tells, `applied` what
the sync-back has brought to the workspace.

**`PathOps`** has the operations of `std::path` the code uses and those of
`path_normalize.rs`: `Join` and `Cleaned` are lexical, `Location` is what the
operating system makes of a path that goes over no link, component by component
(`Into`), and the two differ in `.` and `..`.

**`ProfileResolver`**. A profile is its kind, its base and `own`, the function
from the fields it defines to their values; `resolve_entry`, which calls itself
for the base, is a stack: `frames` are the calls under way, `Enter` goes down,
`EnterLast` loads the last base, `Unwind` returns with `Merge`. `visited` holds
identities, which the code compares as spelled. Only merged words are validated
(`Finish`). `chain` is a history of what was loaded. A path `Exists` when it can
be opened and all it comes through are directories, also what a `..` leaves
again; the profiles' files and directories are no links here. `ChainDecides` compares the resolution with the chain as the disk has it,
where a file is its location and no spelling matters (`Node`, `BaseOf`).

**`LinuxSandbox`**. `stage` is where the launch is: the plan, `Prepare` (scrub,
normalize with the HOME the child will have), the proxy, the probe of the
kernel, then the loops that look up and open the anchors, one path at a time:
`Appear` and `Disappear` are other processes that create and remove files,
directories and links in between. `exists` and `open` follow links, and so does
`OnWalk`, a step of the operating system along a path: one component further, or on
from the link that is there. `Where` is the location a path leads to in the end, if
any, and `MaxSteps` the bound after which a walk fails, as one among links that
lead in a circle does (ELOOP). `open` fails as `NotFound` only when the walk ends
at what is not there (`Missing`), and only that is skipped, for reading; any other
error ends the launch. After the fork the stages are the pre-exec closures in their order;
`KernelRefuses` is an error of any of them. `todo` is what the present loop has
still to do; `seen` is the history of the trees there have been. `MatchTurn` is one turn of the loop that matches a name
against a pattern; how many turns the loop gets is proved to be enough
(`WildcardsAreGlobs`). System calls are classes, a rule is a location with its access
rights, the type of the opened descriptor decides which rights a rule may have.
**`SandboxedLaunch`** composes the two modules through
`build_execution_plan`: the resolved profile is what the launch is planned from.
`MCSandboxedLaunch` gives the disks, trees and environments.

**`SeccompNotify`**. `main` follows `launch_with_stdio` and
`launch_and_capture`, `superv` the thread of `NotifySupervisor::start` and
`supervise`, `proc` the child and the processes it forks. `parentEnd` and
`childEnd` are the holders of descriptors of the two ends of the socket pair:
fork copies both ends, and only exec or death closes the copies. The kernel is
modelled as the code relies on it: a denied call suspends its caller until it is
answered, its caller dies, or the listener is closed; with the listener closed it
fails at once (ENOSYS), which `unheard` remembers. `Interrupted` is a signal that
interrupts poll or NOTIF_RECV, which are tried again; `SupervisorFails` is any error
of poll and the two ioctls that ends `supervise`, an interrupted NOTIF_SEND among
them.

**`RunMonitor`**. One action per check of the loop of
`run_monitored_child_with_signal_poller`, in the order of the code, and two for
the loop that waits for the capture. Deadlines count down in turns of the loop;
a turn may last up to `MaxDelay` intervals. A descendant may stay in the process
group or leave it, and may hold the pipes.

**`OutputStreams`**. One thread per stream of the command, with the places of its
loop in `place`; `kind` says whether the thread is one of `capture_streams`, which
logs, or of `relay_mcp_streams`, which gives each chunk to the client first.
Bytes are counted. `Reserve` is what happens under the mutex of `SharedBudget`;
`StreamFails` is an error of any call of a thread; `Join` has the different order
in which the two functions wait for their threads.

**`Replica`**. `source` and `copy` map paths to nodes: directories, files with a
text and a stamp (size and time of modification), links; `host` is the tree of
everything outside of both. A link leads to a place in its own tree (relative
links), in the workspace or in the host. `OnWalk` is a step along a path, over the
links on its way; `Followed` is where a path leads, `Place` the place it names
without following its last name. What the code does to a path is done at these
places: `create_dir_all` goes through links to directories (`Reach`, `Parents`),
the copy writes to the place reached, and a root of the snapshots that is a link is
walked (`Found`). `crossed` is a history of the trees in which a link was on the
way of a path, or a directory's link was a root. `MaxFollowed` bounds what links
add to the steps of a walk. A directory's entries
are read when its turn comes, and their types are those read then (`todo`). The
snapshot modes are `Fingerprint`. The sync-back goes through the changes in the
order of their paths, each in two steps where the code has two (clear the
destination, then copy). The command changes the copy, and a process it leaves
behind does so during the sync-back too (`raced`); the user changes the workspace
all the time.

**`EgressProxy`**. `acceptor` is the thread of `start_egress_proxy`, between its
check of the shutdown flag and its call of `accept`; `conn[c]` is where the
detached handler of a connection is in `handle_client_connection`, `slots` is
`active_handlers`, `log` and `dropped` the `DenialBuffer`, `report` what
`drain_denials` returned. `main` is the run that drains and drops the proxy while
handlers go on. A host is the sequence of its labels, and its spellings differ
in the final dot that `normalize_host` removes; the bytes of the TLS hello are
abstracted to how much of it has arrived and to the name it holds.
`MCEgressProxy` gives the rules and requests their values.

**`AuditTrail`**. `trail` is the file as a sequence of event lines, each with
the signature line that follows it or `NoSig`; `torn` says that the file ends in
a part of a line. `writer = "signing"` is the moment inside
`append_audit_event` between the event line and the decision about the
signature, where a kill is possible. SHA-256 is idealised as injective: the hash
of an event is the sequence of events hashed so far, a block hash the sequence
of hashes. `Verify` is the verifier with its order of checks. `AlterEvent` and
`LoseEvent` are what it is there to detect; `left` is the signature line whose
event line was lost before it. `MCAuditTrail` gives the events
their values.

**`ApiService`** is what a client sees: a request is turned away or accepted, an
accepted one started by one worker and answered once. **`ApiQueue`** is the
implementation: what a thread does under the mutex is one step, sleep on the
condition variable and spurious wake-ups included. `ImplementsService` is the
refinement, with `status` computed from the queue, the workers and the replies.

**`McpInstall`**. A document is the sequence of its server entries; `file` is the
config, `backups` one file per second, `temp` one per process. Each invocation
loads, decides, backs up (open and copy are two steps), writes its temporary file
(two steps) and renames; it may fail or be killed in between, and the client
saves its config at any time. `raced` is a history of who wrote after a backup.
`ConfigAssumption` says what an owner's config is at first: every entry is one of
its owner's commands, plain or behind one `mcp wrap`, and no command of an owner
is a wrapped one of somebody else's.

**`AuditTrailProofs`, `SeccompNotifyProofs`, `ApiQueueProofs`,
`EgressProxyProofs`, `SandboxedLaunchProofs`, `ReplicaProofs`,
`RunProofs`, `McpInstallProofs`** hold the theorems; `RunProofs` has those of
`RunPipeline`, `RunMonitor` and `OutputStreams`, of which each stands for itself.

## 3. Runs

| Run | Question | Bounds | Result |
|---|---|---|---|
| `run_pipeline` | Do artifacts, trail, index and workspace agree? | all 64 setups, 2 denials, 2 changes | holds |
| `sandboxed_launch` | From the profile to the exec: does the right definition win, does a chain end, does the command run confined to what is named, is every launch decided? | chains of up to 5 files and built-ins in 9 spellings, all patterns of up to 3 characters, 2 changes of the files and links, walks of 9 steps, Landlock 1 and 3 | holds |
| `seccomp_notify` | Are denials recorded, callers answered, the thread joined? | 2 processes, 2 calls, 3 attempts, buffer of 1 | holds |
| `seccomp_launch_hang` | Does spawn return whatever became of the supervisor? | 1 attempt | violated |
| `run_monitor` | Is the end of a run reported truly, and does it come? | limit and grace of 2 turns, drain of 3, delays of up to 2, 2 signals | holds |
| `output_streams` | Do two threads keep to one budget, do the counts add up, does output flow? | 3 bytes per stream, budgets of 0, 2 and 3, chunks and pipes of 2 | holds |
| `replica` | What is copied, what is brought back, what does an error leave? | 7 paths beneath the root, of depth 2 at most, a directory that may be a link in or out of the workspace, 3 changes of the command, 1 of the user, both snapshot modes | holds |
| `egress_proxy` | Do tunnels lead where they may, are slots and denials counted exactly, does the drop return? | 2 connections with 7 kinds of request, 1 or 2 handlers (0 configured counts as 1), a log of 1 | holds |
| `audit_trail` | Does an untouched chain verify and an altered one not; do blocks tile the events and verify? | 6 events of 3 kinds, blocks of 3, three settings | holds |
| `audit_signed_chain` | Does an untouched *signed* trail verify? | 6 events, blocks of 2 | violated |
| `api_queue` | Is every accepted request answered once? | 4 requests, 2 workers, queue of 2 | holds |
| `mcp_install` | Is an entry its owner's command, wrapped at most once; is what is replaced kept? | 2 invocations of 7 kinds, 7 configs, 2 seconds, 1 edit of the client | holds |

Why the bounds are enough: two blocks and an unsigned rest need six events with
blocks of two or three; a buffer of one fills up at the second denial and sees a
repeat at the third; two user signals are the most the loop tells apart (first
and repeated), and delays of two intervals let any two deadlines pass within one
turn; with four requests, two workers and two places the queue fills while all
the workers are busy, and a worker is overtaken between wake-up and mutex; two
connections meet a full slot count of one, record at the same time with two, and
fill a log of one. A profile that extends itself, another one, one in another
directory and a built-in that has a base meet every case of `resolve_entry`; with
two changes a path disappears and appears again, or as something else, between
lookup and opening. Patterns of three characters have a star before, between and
after others, where the matcher has to go back. Three changes of the command make
a file a link, a directory a file, or a link to a file one to a directory. No walk of
the instances goes over more than two links, or over one that leads to itself, so
`MaxSteps` and `MaxFollowed` cut off nothing but walks without an end. With three bytes a stream fills a pipe of
two, is read in two chunks and exceeds each of the budgets. Two invocations
within two seconds share a second or not.

`PathMax` bounds the length of a path that can be opened, as the operating
system does; with 9 components both a chain that fits and one whose spelling
outgrows the bound are met. `MCSandboxedLaunch` runs three families of disks, each with the
inputs it is about, rather than their product (`MCInit`).

`CHECK_DEADLOCK FALSE` is in every configuration because every one of these
programs ends: the trail is closed, the run returns, the server stops, the
launch is decided, the command ends.

### Violated properties

1. `UntouchedTrailVerifies` (`clawcrate-audit/src/lib.rs:111`). After a
   signature line `read_previous_hash` finds no `current_hash` in the last line
   and starts a new chain from the genesis hash, although its comment promises
   the hash of "the last chained line"; `verify` then rejects a signed trail of
   more than one block.
2. `LaunchEnds` (`linux_notify.rs:355`). When the supervisor gives up after the
   fork the child is expected to see the end of the channel, but it holds a copy
   of the parent's end itself. `LaunchEndsIfSupervised`, the part that holds, is
   checked in `seccomp_notify`.

### What else modelling the code showed

These are behaviours of the models that no run is about; the properties are
stated with them allowed.

- "Any insertion, deletion, or modification of an event breaks the chain"
  (`docs/compliance-statement-eu-ai-act.md:70`). As the event after a signature line
  starts at the genesis hash (`clawcrate-audit/src/lib.rs:111`), the first event can
  be deleted when it is a signed block of its own and its signature line stays: the
  rest verifies without the key. With the key the signature line does not hold;
  `AlterationDetected` says both.
- "Record before replying, so the trail cannot claim fewer denials than the child
  actually experienced" (`linux_notify.rs:589`). Once an interrupted NOTIF_SEND
  (`:617`), or an error of poll (`:554`) or of NOTIF_RECV (`:586`), has ended the
  supervisor, the child's denied calls fail with ENOSYS and nothing counts them
  (`unheard`). `RefusedAreRecorded` holds of what the supervisor refused, and
  `OwnDenialsDrained` says that without such an error nothing is unheard.
- "`fs-diff.json` records what the sandboxed command changed"
  (`docs/integration-guide.md:245`), but an error result comes with an empty one, also
  when the command was launched, worked and ended (`support.rs:309`). In direct mode
  the workspace has changed then. Errors of the diff, the sync-back and the last event
  are returned without a `result.json` (`run.rs:182`), also when changes have been
  applied, though `docs/integration-guide.md:184` sends the reader to it whenever a run
  started. `OneStory` says what holds: the empty fs-diff is true of a workspace the
  command has a copy of, or that it was never launched in; and what the sync-back
  has brought to the workspace is listed in a complete fs-diff, result or not.
- The destination of a change is cleared so that "a symlink already present in the
  source tree" is not written through (`replica.rs:505`), the last name of it only:
  where a directory of the workspace is a link and the command has made a directory
  of it in the copy, the sync-back writes where the link leads (`replica.rs:497`).
  `OnlyChangesApplied` says what holds then, and that nothing outside changes
  otherwise.
- "Replica sync-back no longer follows symlinks out of the replica" (`CHANGELOG.md:39`).
  A writable path that the command has replaced by a link to a directory is walked all
  the same, since `WalkDir` follows its root (`clawcrate-capture/src/lib.rs:402`), and
  the files found are copied through the link. `LinksAreNotFollowed` is stated
  for all other cases (`crossed`).
- The drain comes before the child handle is dropped (`run.rs:314`), so a
  descendant may still be refused something that no trail tells.
  `OwnDenialsDrained`, the part that holds, is checked and proved. The same holds
  for the proxy's refusals.
- The number of dropped denials counts repeats of one that did not fit again
  (`linux_notify.rs:112`).
- Landlock rules are where the anchors lead when they are opened. A writable path
  that is a link, or goes over one, gives access to what it leads to, and a link that
  another process puts there between lookup and opening does too
  (`linux.rs:433-503`); `ReadsAreNamed` and `WritesAreNamed` say so, and say more
  about paths that have never gone over a link (`Straight`).
- A connection on port 443 is cut off when no TLS name can be read within
  250 ms, and nothing is recorded (`egress_proxy.rs:429`).
- The top-level README says that `run` forwards SIGINT and SIGTERM; the code
  sends SIGTERM for both.
- A writable path that does not exist is anchored at its nearest existing parent
  (`linux.rs:433`), so the command may write beside it: `WritesAreNamed` says
  exactly this. A missing `~/.npm` leads to a grant on the home directory. The
  parents of a path that goes back with `..` are those of its spelling: of
  `x/../y` without `y` the parent that is tried next is `x/..`, then `x`.
- A star in the name of a variable counts as the star of a pattern that is
  compared with it (`env_scrub.rs:77`), so a pattern may fail to match such a
  name; `ScrubIsGlob` is about names without one.
- Something in the working directory named like a built-in profile stands for
  that profile (`clawcrate-profiles/src/lib.rs:109`). A cycle whose references
  are spelled with `..` has a new identity at every turn and ends only when the
  path is too long to be opened, as a missing profile; so may a chain that has an
  end, if its spelling grows as much. An identity is a path, also that of a
  built-in profile, though its file is never read (`lib.rs:384-413`): a file that
  lies there and extends the built-in profile of that name is reported as a
  cycle, which it is not. `ChainDecides` names both cases.
- Sync-back: a file that became a link is reported as deleted, and removed
  without the link being made; a file where the user has a directory makes the
  sync-back fail in the middle; a file beneath a directory that was itself
  excluded is brought back; a change of the user to the same file is overwritten;
  what a leftover process writes during the sync-back arrives unseen.
- MCP installation: two writes within one second share a backup, and the first
  original is lost; what the client writes between the load and the rename is
  lost and in no backup; a profile named `--` would be taken for the separator;
  an error of the write leaves the temporary file; a config that is a link is
  replaced by a file; a command given after `--` is not checked for being wrapped
  already.

## 4. Fairness

- `SeccompNotify`: weak fairness of the main thread where it cannot wait for
  anything but the others, of the launched child before exec, and of the
  supervisor. None for the sandboxed programs: they need not fork, call, fail or
  end. The supervisor's poll has a time limit, so its steps are always enabled.
  Strong fairness of `PollReady` and `ReceiveRequest`: a signal need not interrupt
  every poll and every NOTIF_RECV there is. No error need happen.
- `SandboxedLaunch`: weak fairness of `Progress`, the steps clawcrate and its
  child come to by themselves. A call need not fail (`KernelRefuses` is left
  out), other processes need do nothing.
- `RunMonitor`: weak fairness of the monitor only. Its loops are bounded by
  their clocks, so nothing is asked of the child, its descendants or the capture
  thread.
- `OutputStreams`: weak fairness of each thread and of the join: a write to the
  client returns, with an error when the client is gone. Nothing is asked of the
  command. A client that neither reads nor goes away is outside this assumption.
- `ApiQueue`: weak fairness of each worker, which says that a worker comes to
  the end of its request: a command without a time limit, or a client that never
  ends its body, is outside this assumption (see the hazards). A sleeping worker
  is woken by a notification; spurious wake-ups are possible and never needed.
- `EgressProxy`: weak fairness of the accepting thread, of the join and of each
  handler outside a tunnel, which says that an attempt to connect and a write to
  a socket end. Nothing is asked of clients. A server whose client has closed its
  side closes in turn: without this a tunnel, and its slot, stays.
- `RunPipeline`, `AuditTrail`, `Replica`, `McpInstall`: safety only; no fairness.

## 5. Proofs

| Theorem | Establishes |
|---|---|
| `TypeCorrect`, `ChainVerifies`, `BlocksHold`, `AlterationsDetected` (`AuditTrailProofs`) | `TypeOK`, `ChainedTrailVerifies`, `SignedBlocks`, `AlterationDetected` for any events, block size and length |
| `NotifyTypeCorrect`, `DenialsRecorded`, `ChildDenialsDrained`, `NobodyRunsAlone` (`SeccompNotifyProofs`) | `TypeOK`, `RefusedAreRecorded`, `OwnDenialsDrained`, `Supervised` for any finite set of processes, any calls and buffer size |
| `QueueTypeCorrect`, `WakeupsNotLost`, `PoolImplementsService` (`ApiQueueProofs`) | `TypeOK`, `NoLostWakeup` and the refinement `ImplementsService` for any number of requests and workers and any capacity |
| `TypesHold`, `SlotsHold`, `TunnelsHold`, `DenialsHold`, `ReportIsComplete` (`EgressProxyProofs`) | `TypeOK`, `SlotsAreHandlers`, `TunnelsAreAllowed`, `DenialsAreExact`, `ToldIsReported` for any finite set of connections, any requests, rules, limits and size of the log |
| `NearestDefinitionWins`, `NoEntryIsResolvedTwice`, `ChainIsDecided`, `CommandsRunConfined`, `ReadsStayNamed`, `GrantsFollowThePlan`, `EnvironmentIsScrubbed` (`SandboxedLaunchProofs`) | `NearestWins`, `NoEntryTwice`, `ChainDecides`, `RunsConfined`, `ReadsAreNamed`, `GrantsAreNamed`, `ScrubIsGlob` for any disk, profiles, file tree, environment, patterns, kernel and number of changes |
| `CopyFiltersAll`, `SyncBringsAll`, `LinksStayLinks`, `SyncTouchesOnlyChanges` (`ReplicaProofs`) | `CopyIsFiltered`, `SyncedIsCopied`, `LinksAreNotFollowed`, `OnlyChangesApplied` for any workspace, exclusions, snapshot mode, command and user |
| `ResultIsTheLast`, `ArtifactsAgree`, `SyncBackIsAnswered` (`RunProofs`) | `ResultTellsAll`, `OneStory`, `SyncBackIsTrue` for any setup and any number of denials and changes |
| `OwnSignalIsReported`, `KillsEmptyTheGroup`, `OutputIsComplete` (`RunProofs`) | `OwnSignalReported`, `KilledGroupIsGone`, `OutputComplete` for any limit, grace, drain, delay and number of signals |
| `BudgetIsShared`, `SummaryIsTrue` (`RunProofs`) | `LogsWithinBudget`, `SummaryIsComplete` for any budget, chunk and pipe size and amount of output |
| `BackupsKeepReplaced`, `InnersAreOwners`, `InstallEditsOneEntry` (`McpInstallProofs`) | `ReplacedIsKept`, `InnerIsOwners`, `SiblingsKept` for any number of invocations, requests, profiles, configs and edits |

The assumptions are the named `ASSUME`s of the modules, and TLC evaluates them.
Those about paths say what the code has by its types: paths, patterns and names
of variables are sequences, and the directories a run starts in are absolute
(`current_dir` and `canonicalize` return absolute paths, `replica.rs:585`). A disk
is what a file system can be: finitely many locations, nothing beneath a file, and
the directory the user is in is one. The profiles compiled in extend, if anything,
each other by name (`profiles/*.yaml`).

- *Trail.* A chained trail is one whose every line names the hash of the line
  before it and carries the hash of its own event on top of it; appending keeps
  this because the previous hash is read from the last line, which in the
  `chain` setting is never a signature. `ChainVerifies` follows because
  `Verify` asks exactly this, line by line. For the blocks, `Tiled` alone is not
  inductive: the next block's start is a maximum over all signature lines, so
  lemmas first show that the maximum is 0 or the line of the last signature.
  `AlterationDetected` needs more than the chain: after a signature the hash
  starts anew, so a lost line might leave a chain that fits. `OpenInv` and
  `ShortInv` say which lines the writer leaves without a signature; with them, the
  line after the lost one names a hash that the line before it does not have. Where
  the signature line stays it claims an event more than there is before it, which
  the verifier sees once it has the key.
- *Supervisor.* `RefusedAreRecorded` is not inductive. `RecordInv` adds that a
  denial about to be answered is kept (recorded or counted) already, and that
  the drain happens once, into an empty result; for `OwnDenialsDrained` it adds
  that the child is dead between the reaping and the end of the drain, so that
  nothing is refused to it any more. That nothing is unheard (`UnheardInv`) follows
  from `SupervisedInv` below: whoever runs finds a supervisor that answers, has been
  told to stop, or has failed.
  `Supervised` is not inductive either: the child starts on an acknowledgement
  sent earlier. `SupervisedInv` follows the listener and the acknowledgement: as
  long as the supervisor has not answered there is none and nobody runs, and once
  it has ended with one still unread, the run is over, nobody is left, or poll or the
  listener failed.
- *Queue.* `NoLostWakeup` is inductive together with the types: what puts a
  request into an empty queue wakes a worker in the same step, and a worker only
  goes to sleep on an empty queue, under one mutex. For the refinement,
  `PlaceInv` says that a request is in one place of the queue, or held by one
  worker, or answered, and never in two of these; then `status` changes with the
  step that moves the request and with no other, and the bounds of the service on
  waiting and running requests are the capacity and the number of workers.
- *Proxy.* Types and `SlotsAreHandlers` hold each other up: `slots - 1` is a
  number because the count is that of the handlers at work. For
  `TunnelsAreAllowed`, `Checked` says what a handler has checked at each place it
  can be, and `AllowedReachable` that a suffix which starts at a label is a name
  below the rule's. For `DenialsAreExact`, `ExactInv` adds that a connection told
  of its refusal is at its end (so it is not refused twice) and that nothing was
  drained before the run came to the drain. `ToldIsReported` needs what holds
  before the drain: every recorded refusal is in the log, or the log is full and
  counts (`ToldInv`); the drain then takes both in one step.
- *Profiles.* `ChainHolds` says that the stack is the beginning of the chain and
  that what a call returned is the nearest definition of the rest; `NearestStep`
  is the one fact about `Merge` it needs. `EntriesHold` says that the identities
  are those of the stack and all different. Neither asks what a profile holds.
- *Chains of bases.* `TrailHolds` says that the calls under way and the one to come
  are a walk on the disk from where the profile asked for lies, one base after
  the other. The link is `BaseIsFollowed`: a reference is joined to the directory
  of a path *as spelled*, and the result lies where it would from the directory
  of the file itself. It holds because the path could be opened, so all it comes
  through are directories (`ParentLeads`), and because a location walked from a
  location does not depend on how one got there (`PathThen`, `SameTail`); taken
  lexically it would be false, as `x/..` need not be the directory of `x`. A walk
  that ends has no profile twice, hence no more steps than there are profiles
  (`ChainFits`, by the pigeonhole principle), and one that comes back has no end
  (`CycleGoesOn`). So `LastBase`, the walk's place after that many steps, is the
  end of the chain if there is one.
- *Sandbox.* `ChildHolds` says, stage by stage, what the child has done to
  itself, and that the filter is the one built for the plan. A rule with rights a
  file cannot have never exists, whatever took the place of what
  (`RulesAreValid`), so a launch does not fail for that reason. `NamesHold` adds
  that what is looked up and opened for reading is a named path; the anchors of
  writable paths are not named ones, but give no right to read.
- *Grants.* `PathsHold` says that the paths of the plan are absolute, so that an
  anchor always exists: the root, which nobody removes. `GrantsHold` says, loop by
  loop, that a path which has lasted is still to come or was kept, and that every
  write anchor lies on the way to a writable path with nothing nearer that has
  lasted (`AnchorIsOnTheWay`); both survive a change of the files because what has
  lasted can only become less (`LastingFades`), and the nearest anchor was the
  nearest when it was looked up. What the operating system makes of a path is
  defined by recursion over its components; `LocationWalks` gives the recursive
  function as the last of a sequence of locations, which exists and is the only
  one because a set of numbers has a least element (`Climbs` is induction in this
  form), and `LocationDescends` that without `..` it goes down only. Anchors are looked
  up and opened over links: `GrantsAreNamed` is about the locations the walks came to
  (`Where`), and where no link was on the way a walk is that recursion
  (`WalkIsTrack`, `StraightLeads`), so the place is the named one. The root needs no
  way at all (`RootIsThere`).
- *Scrubbing.* The matcher keeps one position to go back to, that of the last
  star, and forgets the earlier ones. `LoopHolds` says why that is enough: since
  the last star the name agrees with the pattern, and the whole matches exactly
  if what follows that star matches from its present place on or later; a match
  from an earlier star would be one from this star too (`TurnStars`). Every turn
  adds to `Weight`, which is bounded as long as the loop is not over, so
  the loop ends within `Turns`.
- *Pipeline.* `PipelineHolds` has three parts. `EvidenceHolds`: the evidence grows
  along the steps of a run without an error, because no step goes on after an
  append that failed. `StoryHolds`: the errors that end in an error result come
  before the exit and the sync-back. `AnswerHolds`: what is applied so far, and
  what the trail says of it, at each step of the sync-back. For `OneStory`, `WorkHolds`
  relates the numbers: what is applied is listed, what is listed was found, and what
  was found was made; and the fs-diff is complete once something is applied.
- *Monitor.* `CauseHolds` says what clawcrate remembers of each signal it sent,
  and that after the first loop the child is reaped, so that a later SIGKILL ends
  others only. `GroupHolds`: a SIGKILL is meant for the whole group, and nobody is
  left to fork into it. `WritersHold`: once nobody holds the pipes nobody can pass
  them on, so the capture that has seen the end has seen the last byte.
- *Replica, the copy.* Halfway through the copying, what is wanted has been copied
  or lies beneath an entry that waits, and nothing else has (`CopyFilters`); an
  entry that waits lies beneath nothing that is excluded (`EntryHolds`), since
  the filter sees an entry and not what it lies in. The user's changes meanwhile
  are told apart by `mine`, the workspace as the user alone would have it.
- *Replica, the sync-back.* `TreesHold`: all three trees stay trees, whatever is made
  through links. `ChangesHold`: what is not among the changes is the
  same in the copy as the user has it, and what has been applied is the same in
  both trees. This needs that the first snapshot is true (`BeforeHolds`) and that
  a link never shares a fingerprint with a file (`RootLink` is the exception: a root
  that is a link is hashed as what it leads to). `NodesHold` says that no text from
  behind a link is in a file; it is stated while no link has been on the way of the
  copy's paths (`crossed`), and the place of a path is the path itself then. For
  `OnlyChangesApplied`, `SyncHolds` says at which
  paths the workspace may differ from what the user alone would have made of it:
  those applied, and the one between its two steps; and that what is outside differs
  only once a link of the workspace was on the way.
- *Output.* The budget left and both logs, with what is reserved and not yet
  logged, never exceed the budget together; and a stream that left something out has seen the
  budget used up, so nothing follows. For `SummaryIsComplete`, `SummaryHolds` adds that,
  unless a thread failed, the budget is accounted for to the byte, and how each
  stream came to its end: everything read and nobody left to write, or cut short.
- *MCP installation.* For each invocation past its backup: the backup of its
  second is what the config held when it was opened, as long as no other
  invocation has that second, and the config is that still unless somebody wrote.
  For `SiblingsKept`, `DocumentsHold`: every document is a sequence of entries, and
  what waits for its rename is what the invocation made of the one it read; the
  first entry of a name exists because a set of numbers has a least one. For
  `InnerIsOwners`, `OwnersHold` adds that every entry, of the config and of what
  an invocation has read, is one of its owner's commands or wraps one
  (`EntriesKnown`), and that an invocation which goes on was not refused;
  `BuiltUnwraps` is that `unwrap_inner` undoes `build_wrapped_args` whatever the
  command, its arguments (a `--` among them, too) and the profile are.

Only model-checked: all liveness, since fairness is outside the prover's reach.
Every safety invariant, action property and refinement that a run finds to hold is
proved as well.

## 6. Plan

What could follow: the loop of `mcp wrap` that waits for the child, as a second
instance of the monitor; the relay's client as a process of its own.

## 7. Not modelled

The encoding of Landlock rules and BPF programs (what they decide is modelled);
the macOS backend and its log reader (text and I/O); probes, `doctor`, `plan`,
export, bridge and output formatting (read-only or formatting);
`validate_community_catalog`, which only reports; the approval's guesses about
command lines, the detection of MCP server commands and the byte parsing of HTTP
lines and TLS hellos (string matching); the loop of `mcp wrap` that waits for the
child, which is the run monitor's with other bounds; authorization and HTTP
details of the API; the tables of the index; panics of threads. The reuse of
process numbers by the kernel is left out of `RunMonitor`, and the window between
the launch and the installation of the signal handlers is before its first
state.
