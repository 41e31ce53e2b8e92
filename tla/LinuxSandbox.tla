---------------------------- MODULE LinuxSandbox ----------------------------
(***************************************************************************)
(* LinuxSandbox and KernelEnforcer of                                      *)
(* crates/clawcrate-sandbox/src/linux.rs: the environment is scrubbed, the *)
(* Landlock anchors are looked up and opened one by one in the parent, the *)
(* filter is built, and the forked child limits and confines itself before *)
(* it executes the command.  Meanwhile other processes create and remove   *)
(* files.  Who supervises a notifying filter is the subject of             *)
(* SeccompNotify; here the supervisor takes the listener.                  *)
(***************************************************************************)
EXTENDS Naturals, FiniteSets, Sequences, SequencesExt, PathOps

CONSTANTS
  Environments,  (* sets of variable names, each a sequence of characters    *)
  HomeName,      (* the name HOME                                            *)
  HomeDir,       (* its value                                                *)
  Internal,      (* the names that begin with an internal prefix             *)
  ProxyVars,     (* the names of proxy_env_vars                              *)
  Trees,         (* what the disk may hold: location -> node                 *)
  Appearing,     (* what other processes may create: location -> nodes       *)
  SystemPaths,   (* LINUX_SYSTEM_READ_PATHS                                  *)
  BaseFiles,     (* the descriptors open in the child but for the anchors    *)
  AbiVersions,   (* of 1, 2, 3: the Landlock versions of the kernels         *)
  MaxSteps,      (* bound: the steps of a walk; a longer one fails (ELOOP)   *)
  MaxChanges     (* bound: what other processes create and remove            *)

ASSUME SandboxAssumption ==
  /\ BaseFiles \in Nat /\ MaxChanges \in Nat /\ MaxSteps \in Nat
  /\ AbiVersions \subseteq Nat
  /\ \A e \in Environments : e \subseteq Seq(STRING)
  /\ HomeDir \in Seq(STRING)
  /\ \A p \in SystemPaths : IsLocation(p)
  /\ \A t \in Trees : <<"/">> \in DOMAIN t /\ t[<<"/">>].kind = "dir"

VARIABLES
  stage,    (* where the launch is                                           *)
  error,    (* why it failed                                                 *)
  plan,     (* the execution plan                                            *)
  env,      (* the environment clawcrate was started in                      *)
  kept,     (* the names the child's environment has                         *)
  tree,     (* the files: location -> node                                   *)
  seen,     (* history: the trees there have been since the plan was made    *)
  changes,  (* bound: the changes other processes may still make             *)
  abi,      (* the Landlock version                                          *)
  todo,     (* the paths the present loop has not come to                    *)
  anchors,  (* the anchors the present loop found                            *)
  grants,   (* the opened anchors                                            *)
  filter,   (* the filter: its mode, and the calls it lets pass              *)
  child     (* what the child has done to itself                             *)

launchVars == <<stage, error, plan, kept, abi, todo, anchors, grants, filter, child>>
treeVars == <<tree, seen, changes>>
sandboxVars == <<launchVars, env, treeVars>>

(* The nodes.  A link holds a path, which may lead anywhere or nowhere.     *)
Dir == [kind |-> "dir"]
File == [kind |-> "file"]
Link(to) == [kind |-> "link", to |-> to]

Preparing == {"write_scan", "write_open", "read_scan", "read_open"}
Forked == {"limits", "ruleset", "rules", "restrict", "install", "handover", "exec"}

NoPlan == [command |-> "none"]
NoFilter == [mode |-> "none", passed |-> {}]
Unconfined == [limits |-> {}, rules |-> {}, restricted |-> FALSE, filter |-> NoFilter]

SandboxInit ==
  /\ stage = "idle" /\ error = "none" /\ plan = NoPlan
  /\ env \in Environments /\ kept = {}
  /\ tree \in Trees /\ seen = {} /\ changes \in 0 .. MaxChanges
  /\ abi = 0
  /\ todo = {} /\ anchors = {} /\ grants = {}
  /\ filter = NoFilter
  /\ child = Unconfined

-----------------------------------------------------------------------------
(* env_scrub.rs                                                             *)

(* A faulty variant: after a mismatch the search goes on where it stopped.  *)
MatchTurnOnward(pattern, candidate, s) ==
  IF s.c > Len(candidate) THEN s
  ELSE IF s.p <= Len(pattern) /\ pattern[s.p] = candidate[s.c]
       THEN [p |-> s.p + 1, c |-> s.c + 1, star |-> s.star, after |-> s.after]
  ELSE IF s.p <= Len(pattern) /\ pattern[s.p] = "*"
       THEN [p |-> s.p + 1, c |-> s.c, star |-> s.p, after |-> s.c]
  ELSE IF s.star # 0
       THEN [p |-> s.star + 1, c |-> s.c + 1, star |-> s.star, after |-> s.c + 1]
  ELSE s

(* A turn of the loop of wildcard_matches: where the pattern and the        *)
(* candidate are, the last star (0: none) and where the candidate goes on   *)
(* behind it.  A turn that changes nothing is the end of the loop, a        *)
(* mismatch when the candidate is not at its end.                           *)
MatchTurn(pattern, candidate, s) ==
  IF s.c > Len(candidate) THEN s
  ELSE IF s.p <= Len(pattern) /\ pattern[s.p] = candidate[s.c]
       THEN [p |-> s.p + 1, c |-> s.c + 1, star |-> s.star, after |-> s.after]
  ELSE IF s.p <= Len(pattern) /\ pattern[s.p] = "*"
       THEN [p |-> s.p + 1, c |-> s.c, star |-> s.p, after |-> s.c]
  ELSE IF s.star # 0
       THEN [p |-> s.star + 1, c |-> s.after + 1, star |-> s.star, after |-> s.after + 1]
  ELSE s

(* The loop has ended after that many turns.                                *)
Turns(pattern, candidate) == (Len(pattern) + 1) * (Len(candidate) + 1)

WildcardMatches(pattern, candidate) ==
  LET At[k \in 0 .. Turns(pattern, candidate)] ==
        IF k = 0 THEN [p |-> 1, c |-> 1, star |-> 0, after |-> 0]
        ELSE MatchTurn(pattern, candidate, At[k - 1])
      end == At[Turns(pattern, candidate)]
  IN \/ pattern = <<"*">>
     \/ end.c > Len(candidate) /\ \A i \in end.p .. Len(pattern) : pattern[i] = "*"

MatchesAny(name, patterns) == \E p \in patterns \ {<<>>} : WildcardMatches(p, name)

Scrubbed(scrub, passthrough) ==
  {n \in env : n \in Internal \/ (MatchesAny(n, scrub) /\ ~MatchesAny(n, passthrough))}

-----------------------------------------------------------------------------
(* Paths                                                                    *)

HomeIn(names) == IF HomeName \in names THEN HomeDir ELSE <<>>

(* normalize_profile_filesystem_paths, with the HOME of clawcrate itself    *)
PlanPath(cwd, p) == Join(cwd, Expanded(p, HomeIn(env)))

(* normalize_paths, with the HOME the child will have                       *)
PreparedPath(cwd, p, names) == Cleaned(Join(cwd, Expanded(p, HomeIn(names))))

(* p and its parents, as nearest_existing_landlock_anchor tries them.       *)
Ancestors(p) == {SubSeq(p, 1, n) : n \in 1 .. Len(p)}

(* The operating system walks an absolute path: one component further, or   *)
(* on along the link that is there, also when that is the last component.   *)
OnWalk(t, s) ==
  LET l == Into(s.at, s.rest[1]) IN
  IF s.rest = <<>> \/ s.at \notin DOMAIN t \/ t[s.at].kind # "dir" THEN s
  ELSE IF l \in DOMAIN t /\ t[l].kind = "link"
  THEN IF Absolute(t[l].to) THEN [at |-> <<"/">>, rest |-> Tail(t[l].to) \o Tail(s.rest)]
       ELSE [at |-> s.at, rest |-> t[l].to \o Tail(s.rest)]
  ELSE [at |-> l, rest |-> Tail(s.rest)]

(* Where the walk is in the end: a set of one.                              *)
WalkEnds(t, p) ==
  LET On[n \in 0 .. MaxSteps] ==
        IF n = 0 THEN {[at |-> <<"/">>, rest |-> Tail(p)]} ELSE {OnWalk(t, s) : s \in On[n - 1]}
  IN On[MaxSteps]

(* The location p leads to; none when there is nothing or no way to it.     *)
Where(t, p) == {s.at : s \in {e \in WalkEnds(t, p) : e.rest = <<>> /\ e.at \in DOMAIN t}}

There(p) == Where(tree, p) # {}

(* The walk ends at what is not there: open says NotFound.  Otherwise it is *)
(* a file with more to come, or there is no end of links.                   *)
Missing(p) == \A e \in WalkEnds(tree, p) : e.at \notin DOMAIN tree

NearestAnchor(p) ==
  CHOOSE a \in Ancestors(p) :
    There(a) /\ \A b \in Ancestors(p) : There(b) => Len(b) <= Len(a)

-----------------------------------------------------------------------------
(* Landlock                                                                 *)

WriteMask ==
  {"WRITE_FILE", "REMOVE", "MAKE"}
    \cup (IF abi >= 2 THEN {"REFER"} ELSE {})
    \cup (IF abi >= 3 THEN {"TRUNCATE"} ELSE {})
ReadMask == {"READ_FILE", "READ_DIR"}
FileApplicable == {"WRITE_FILE", "READ_FILE", "TRUNCATE"}

(* landlock_access_for_path_type                                            *)
AccessFor(mask, dir) == IF dir THEN mask ELSE mask \cap FileApplicable

Rule(g) == [at |-> g.at, dir |-> g.dir,
            access |-> AccessFor(IF g.kind = "write" THEN WriteMask ELSE ReadMask, g.dir)]

(* open_linux_landlock_grant: the type is that of the opened descriptor.    *)
Grants(p, kind) ==
  {[at |-> l, dir |-> tree[l].kind = "dir", kind |-> kind] : l \in Where(tree, p)}

-----------------------------------------------------------------------------
(* The filter, by classes of calls.  "handover" is the sendmsg on the       *)
(* hand-over descriptor, "filter" the prctl that installs one.              *)

AlwaysAllowed == {"ordinary", "prctl", "filter"}

AllowedCalls(net) ==
  AlwaysAllowed
    \cup (IF net = "none" THEN {} ELSE {"network", "sendmsg", "handover"})

(* A faulty variant: nothing is added for the hand-over.                    *)
PassedWithoutHandover(net, channel) == AllowedCalls(net) \ {"filter"}

(* build_linux_seccomp_rules and allow_listener_handover_sendmsg            *)
Passed(net, channel) ==
  (AllowedCalls(net) \ {"filter"}) \cup (IF channel THEN {"handover"} ELSE {})

-----------------------------------------------------------------------------
(* The parent                                                               *)

Go(s) == stage' = s /\ UNCHANGED error
GiveUp(why) == stage' = "failed" /\ error' = why

SelectMode(default, flag) == IF flag = "none" THEN default ELSE flag

(* build_execution_plan, for a resolved profile.                            *)
Planned(profile, cwd) ==
  [command |-> "given", cwd |-> cwd,
   read |-> {PlanPath(cwd, p) : p \in profile.read},
   write |-> {PlanPath(cwd, p) : p \in profile.write},
   net |-> profile.network.mode, scrub |-> profile.scrub,
   passthrough |-> profile.passthrough, files |-> profile.files]

BuildPlan(profile, cwd) ==
  /\ stage = "idle"
  /\ plan' = Planned(profile, cwd)
  /\ seen' = {tree}
  /\ Go("planned")
  /\ UNCHANGED <<kept, abi, todo, anchors, grants, filter, child, env, tree, changes>>

(* prepare                                                                  *)
Prepare ==
  /\ stage = "planned"
  /\ LET names == env \ Scrubbed(plan.scrub, plan.passthrough) IN
       /\ kept' = names
       /\ plan' = [plan EXCEPT
            !.read = {PreparedPath(plan.cwd, p, names) : p \in plan.read},
            !.write = {PreparedPath(plan.cwd, p, names) : p \in plan.write}]
  /\ Go("prepared")
  /\ UNCHANGED <<abi, todo, anchors, grants, filter, child, env, treeVars>>

(* maybe_start_filtered_egress_proxy: its variables replace those kept.     *)
StartProxy ==
  /\ stage = "prepared"
  /\ IF plan.net = "filtered"
     THEN \/ kept' = kept \cup ProxyVars /\ Go("probe")
          \/ GiveUp("proxy") /\ UNCHANGED kept
     ELSE Go("probe") /\ UNCHANGED kept
  /\ UNCHANGED <<plan, abi, todo, anchors, grants, filter, child, env, treeVars>>

Probe ==
  /\ stage = "probe"
  /\ \/ GiveUp("kernel") /\ UNCHANGED <<abi, todo>>
     \/ abi' \in AbiVersions /\ todo' = plan.write /\ Go("write_scan")
  /\ UNCHANGED <<plan, kept, anchors, grants, filter, child, env, treeVars>>

(* open_linux_landlock_write_path_fds.  The root is always there.           *)
ScanWrite ==
  /\ stage = "write_scan" /\ todo # {}
  /\ \E p \in todo : todo' = todo \ {p} /\ anchors' = anchors \cup {NearestAnchor(p)}
  /\ UNCHANGED <<stage, error, plan, kept, abi, grants, filter, child, env, treeVars>>

OpenWrites ==
  /\ stage = "write_scan" /\ todo = {}
  /\ todo' = anchors /\ anchors' = {}
  /\ Go("write_open")
  /\ UNCHANGED <<plan, kept, abi, grants, filter, child, env, treeVars>>

(* An open may fail for other reasons too, such as too many open files.     *)
OpenWrite ==
  /\ stage = "write_open" /\ todo # {}
  /\ \E p \in todo :
       /\ todo' = todo \ {p}
       /\ \/ There(p) /\ grants' = grants \cup Grants(p, "write") /\ UNCHANGED <<stage, error>>
          \/ GiveUp("open") /\ UNCHANGED grants
  /\ UNCHANGED <<plan, kept, abi, anchors, filter, child, env, treeVars>>

(* open_linux_landlock_read_path_fds                                        *)
ScanReads ==
  /\ stage = "write_open" /\ todo = {}
  /\ todo' = plan.read \cup plan.write \cup SystemPaths
  /\ Go("read_scan")
  /\ UNCHANGED <<plan, kept, abi, anchors, grants, filter, child, env, treeVars>>

(* A faulty variant: a path that is missing is replaced by its ancestor.    *)
ScanReadNearest ==
  /\ stage = "read_scan" /\ todo # {}
  /\ \E p \in todo : todo' = todo \ {p} /\ anchors' = anchors \cup {NearestAnchor(p)}
  /\ UNCHANGED <<stage, error, plan, kept, abi, grants, filter, child, env, treeVars>>

ScanRead ==
  /\ stage = "read_scan" /\ todo # {}
  /\ \E p \in todo :
       /\ todo' = todo \ {p}
       /\ anchors' = IF There(p) THEN anchors \cup {p} ELSE anchors
  /\ UNCHANGED <<stage, error, plan, kept, abi, grants, filter, child, env, treeVars>>

OpenReads ==
  /\ stage = "read_scan" /\ todo = {}
  /\ todo' = anchors /\ anchors' = {}
  /\ Go("read_open")
  /\ UNCHANGED <<plan, kept, abi, grants, filter, child, env, treeVars>>

(* Only what is missing is left out; any other error ends the launch.       *)
OpenRead ==
  /\ stage = "read_open" /\ todo # {}
  /\ \E p \in todo :
       /\ todo' = todo \ {p}
       /\ \/ There(p) /\ grants' = grants \cup Grants(p, "read") /\ UNCHANGED <<stage, error>>
          \/ Missing(p) /\ UNCHANGED <<grants, stage, error>>
          \/ GiveUp("open") /\ UNCHANGED grants
  /\ UNCHANGED <<plan, kept, abi, anchors, filter, child, env, treeVars>>

(* prepare_linux_seccomp_context, the supervisor and the fork.  Without a   *)
(* hand-over channel the filter denies by itself; the filter may not        *)
(* compile; fork may fail.                                                  *)
BuildFilter ==
  /\ stage = "read_open" /\ todo = {}
  /\ \/ \E channel \in BOOLEAN :
          /\ filter' = [mode |-> IF channel THEN "notify" ELSE "plain",
                        passed |-> Passed(plan.net, channel)]
          /\ Go("limits")
     \/ GiveUp("seccomp") /\ UNCHANGED filter
  /\ UNCHANGED <<plan, kept, abi, todo, anchors, grants, child, env, treeVars>>

-----------------------------------------------------------------------------
(* The child before it executes the command                                 *)

AllLimits == {"CPU", "AS", "NOFILE", "FSIZE", "NPROC"}

ApplyLimits ==
  /\ stage = "limits"
  /\ child' = [child EXCEPT !.limits = AllLimits]
  /\ Go("ruleset")
  /\ UNCHANGED <<plan, kept, abi, todo, anchors, grants, filter, env, treeVars>>

(* The anchors and both ends of the hand-over channel are open, and the     *)
(* limit on descriptors is in force.                                        *)
OpenFiles ==
  BaseFiles + Cardinality(grants) + (IF filter.mode = "notify" THEN 2 ELSE 0)

CreateRuleset ==
  /\ stage = "ruleset"
  /\ IF OpenFiles < plan.files THEN Go("rules") ELSE GiveUp("descriptors")
  /\ UNCHANGED <<plan, kept, abi, todo, anchors, grants, filter, child, env, treeVars>>

RuleIsValid(r) == r.dir \/ r.access \subseteq FileApplicable

(* The kernel refuses a rule with rights that a file cannot have.           *)
AddRules ==
  /\ stage = "rules"
  /\ IF \A g \in grants : RuleIsValid(Rule(g))
     THEN child' = [child EXCEPT !.rules = {Rule(g) : g \in grants}] /\ Go("restrict")
     ELSE GiveUp("rule") /\ UNCHANGED child
  /\ UNCHANGED <<plan, kept, abi, todo, anchors, grants, filter, env, treeVars>>

RestrictSelf ==
  /\ stage = "restrict"
  /\ child' = [child EXCEPT !.restricted = TRUE]
  /\ Go("install")
  /\ UNCHANGED <<plan, kept, abi, todo, anchors, grants, filter, env, treeVars>>

InstallFilter ==
  /\ stage = "install"
  /\ child' = [child EXCEPT !.filter = filter]
  /\ Go(IF filter.mode = "notify" THEN "handover" ELSE "exec")
  /\ UNCHANGED <<plan, kept, abi, todo, anchors, grants, filter, env, treeVars>>

(* The sendmsg is subject to the filter just installed: a call that does    *)
(* not pass waits for a supervisor that waits for this message.             *)
HandOver ==
  /\ stage = "handover" /\ "handover" \in child.filter.passed
  /\ Go("exec")
  /\ UNCHANGED <<plan, kept, abi, todo, anchors, grants, filter, child, env, treeVars>>

Exec ==
  /\ stage = "exec"
  /\ Go("running")
  /\ UNCHANGED <<plan, kept, abi, todo, anchors, grants, filter, child, env, treeVars>>

(* A faulty variant: what the kernel refuses to restrict is run all the same.*)
KernelRefusesUnheard ==
  /\ stage \in Forked
  /\ IF stage = "restrict" THEN Go("install") ELSE GiveUp("kernel")
  /\ UNCHANGED <<plan, kept, abi, todo, anchors, grants, filter, child, env, treeVars>>

(* Any call of the child may fail; that ends it before the command runs.    *)
KernelRefuses ==
  /\ stage \in Forked
  /\ GiveUp("kernel")
  /\ UNCHANGED <<plan, kept, abi, todo, anchors, grants, filter, child, env, treeVars>>

-----------------------------------------------------------------------------
(* Other processes                                                          *)

Appear(l) ==
  /\ stage \in Preparing /\ changes > 0
  /\ l \notin DOMAIN tree /\ Front(l) \in DOMAIN tree /\ tree[Front(l)].kind = "dir"
  /\ \E node \in Appearing[l] :
       tree' = [x \in DOMAIN tree \cup {l} |-> IF x = l THEN node ELSE tree[x]]
  /\ seen' = seen \cup {tree'}
  /\ changes' = changes - 1
  /\ UNCHANGED <<launchVars, env>>

Disappear(l) ==
  /\ stage \in Preparing /\ changes > 0 /\ l # <<"/">>
  /\ \A x \in DOMAIN tree : IsPrefix(l, x) => x = l
  /\ tree' = [x \in DOMAIN tree \ {l} |-> tree[x]]
  /\ seen' = seen \cup {tree'}
  /\ changes' = changes - 1
  /\ UNCHANGED <<launchVars, env>>

-----------------------------------------------------------------------------

(* The steps clawcrate and its child come to by themselves.                 *)
LaunchSteps ==
  \/ Prepare
  \/ StartProxy
  \/ Probe
  \/ ScanWrite
  \/ OpenWrites
  \/ OpenWrite
  \/ ScanReads
  \/ ScanRead
  \/ OpenReads
  \/ OpenRead
  \/ BuildFilter
  \/ ApplyLimits
  \/ CreateRuleset
  \/ AddRules
  \/ RestrictSelf
  \/ InstallFilter
  \/ HandOver
  \/ Exec

LaunchNext == LaunchSteps \/ KernelRefuses

OtherNext ==
  \/ \E l \in DOMAIN Appearing : Appear(l)
  \/ \E l \in DOMAIN tree : Disappear(l)

-----------------------------------------------------------------------------
(* Properties                                                               *)

(* Failing closed: when the command runs, the child has all its limits, all *)
(* the rules of the opened anchors in force, and a filter under which it    *)
(* can neither replace the filter nor, without network, reach one.  And no  *)
(* launch fails because a rule does not fit the kind of file it is for,     *)
(* whatever took the place of what.                                         *)
RunsConfined ==
  /\ error # "rule"
  /\ stage = "running" =>
    /\ child.limits = AllLimits
    /\ child.restricted /\ child.rules = {Rule(g) : g \in grants}
    /\ child.filter.mode # "none" /\ "filter" \notin child.filter.passed
    /\ plan.net = "none" => child.filter.passed \cap {"network", "sendmsg"} = {}

NamedPaths == plan.write \cup plan.read \cup SystemPaths

(* The location p names when no link is on its way.                         *)
Opened(p) == Location(plan.cwd, p)

(* Where p has led at one moment or another since the plan was made, and    *)
(* whether it has never led over a link.                                    *)
HasLed(p) == UNION {Where(t, p) : t \in seen}
Straight(p) ==
  \A t \in seen : \A a \in Ancestors(p) : Opened(a) \in DOMAIN t => t[Opened(a)].kind # "link"

(* It has led to the same location, and something was there, all the time.  *)
Lasted(p) == There(p) /\ \A t \in seen : Where(t, p) = Where(tree, p)

(* Whatever other processes create and remove during the launch, links and  *)
(* files: the child can read beneath where a path the profile names or the  *)
(* system needs led when it was opened, and nowhere else.  Unless that went *)
(* over a link, it is the place the path names.                             *)
ReadsAreNamed ==
  stage = "running" =>
    \A r \in child.rules : r.access \cap ReadMask # {} =>
      \E p \in NamedPaths : r.at \in HasLed(p) /\ (Straight(p) => r.at = Opened(p))

(* It can write beneath where a directory on the way to a writable path led *)
(* only if nothing nearer to that path was there all the time; and unless   *)
(* the path goes over a link or back with "..", beneath nothing but what is *)
(* above it.                                                                *)
WritesAreNamed ==
  stage = "running" =>
    \A r \in child.rules : r.access \cap WriteMask # {} =>
      \E w \in plan.write : \E a \in Ancestors(w) :
        /\ r.at \in HasLed(a)
        /\ \A b \in Ancestors(w) : Len(b) > Len(a) => ~Lasted(b)
        /\ Straight(w) => r.at = Opened(a)
        /\ Straight(w) /\ ~Contains(w, "..") => IsPrefix(r.at, Opened(w))

(* And where a path led all the time is granted, be it over links.          *)
LastingIsGranted ==
  stage = "running" =>
    /\ \A p \in NamedPaths :
         Lasted(p) => \E r \in child.rules : r.at \in Where(tree, p) /\ "READ_FILE" \in r.access
    /\ \A p \in plan.write :
         Lasted(p) => \E r \in child.rules : r.at \in Where(tree, p) /\ "WRITE_FILE" \in r.access

(* The three together, for a launch while files come and go.                *)
GrantsAreNamed == ReadsAreNamed /\ WritesAreNamed /\ LastingIsGranted

(* What a pattern with any number of stars means: its characters have their *)
(* places in the name, one after the other, and a star takes any number.    *)
Glob(pattern, name) ==
  \E at \in [1 .. Len(pattern) + 1 -> 1 .. Len(name) + 1] :
    /\ at[1] = 1 /\ at[Len(pattern) + 1] = Len(name) + 1
    /\ \A i \in 1 .. Len(pattern) :
         IF pattern[i] = "*" THEN at[i] <= at[i + 1]
         ELSE at[i + 1] = at[i] + 1 /\ pattern[i] = name[at[i]]

(* The child's environment lacks exactly what the patterns of the profile   *)
(* mean, the internal names in any case, and has the variables of the proxy *)
(* when there is one, even when a pattern matches them.  (A star in a name  *)
(* would be taken for that of the pattern.)                                 *)
ScrubIsGlob ==
  LET Means(patterns, n) == \E p \in patterns \ {<<>>} : Glob(p, n)
      Stays(n) == n \notin Internal /\ (Means(plan.scrub, n) => Means(plan.passthrough, n))
      proxy == IF plan.net = "filtered" THEN ProxyVars ELSE {}
  IN stage = "probe" =>
       /\ proxy \subseteq kept /\ kept \subseteq env \cup proxy
       /\ \A n \in env \ proxy : ~Contains(n, "*") => (n \in kept <=> Stays(n))

=============================================================================
