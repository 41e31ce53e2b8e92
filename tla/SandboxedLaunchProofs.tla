------------------------ MODULE SandboxedLaunchProofs -----------------------
(***************************************************************************)
(* What SandboxedLaunch keeps for every set of profiles, every file system *)
(* and every order of the steps: which definition of a field wins, that an *)
(* entry is not resolved twice at a time, that no command runs unconfined, *)
(* that a child has access to what its plan names and to nothing that it   *)
(* does not, that its environment is what the patterns leave of it, and    *)
(* that the chain of bases decides whether a profile is resolved.          *)
(***************************************************************************)
EXTENDS SandboxedLaunch, SequenceTheorems, FiniteSetTheorems, WellFoundedInduction, TLAPS

-----------------------------------------------------------------------------
(* Sequences of anything                                                    *)

IsSeq(s) == \E S : s \in Seq(S)

LEMMA EmptyIsSeq == IsSeq(<<>>) /\ Len(<<>>) = 0
<1>1. <<>> \in Seq({})
  OBVIOUS
<1>2. QED  BY <1>1 DEF IsSeq

LEMMA AppendAny ==
  ASSUME NEW s, NEW e, IsSeq(s)
  PROVE  /\ IsSeq(Append(s, e)) /\ Len(s) \in Nat /\ Len(Append(s, e)) = Len(s) + 1
         /\ \A i \in 1 .. Len(s) : Append(s, e)[i] = s[i]
         /\ Append(s, e)[Len(s) + 1] = e
<1>1. PICK S : s \in Seq(S)
  BY DEF IsSeq
<1>2. s \in Seq(S \cup {e}) /\ e \in S \cup {e}
  BY <1>1, SeqMonotonic, SMTT(30)
<1>3. /\ Append(s, e) \in Seq(S \cup {e}) /\ Len(Append(s, e)) = Len(s) + 1
      /\ \A i \in 1 .. Len(s) : Append(s, e)[i] = s[i]
      /\ Append(s, e)[Len(s) + 1] = e /\ Len(s) \in Nat
  BY <1>2, AppendProperties
<1>4. QED  BY <1>3 DEF IsSeq

LEMMA FrontAny ==
  ASSUME NEW s, IsSeq(s), s # <<>>
  PROVE  /\ IsSeq(Front(s)) /\ Len(s) \in Nat \ {0} /\ Len(Front(s)) = Len(s) - 1
         /\ \A i \in 1 .. (Len(s) - 1) : Front(s)[i] = s[i]
         /\ Last(s) = s[Len(s)]
<1>1. PICK S : s \in Seq(S)
  BY DEF IsSeq
<1>2. Len(s) \in Nat \ {0}
  BY <1>1
<1>3. /\ SubSeq(s, 1, Len(s) - 1) \in Seq(S)
      /\ Len(SubSeq(s, 1, Len(s) - 1)) = Len(s) - 1
      /\ \A i \in 1 .. (Len(s) - 1) : SubSeq(s, 1, Len(s) - 1)[i] = s[i]
  <2> DEFINE k == Len(s) - 1
  <2>1. k \in Int /\ 1 \in Int /\ \A i \in 1 .. k : s[i] \in S
    BY <1>1, <1>2
  <2>2. /\ SubSeq(s, 1, k) \in Seq(S)
        /\ Len(SubSeq(s, 1, k)) = IF 1 <= k THEN k - 1 + 1 ELSE 0
        /\ \A i \in 1 .. k - 1 + 1 : SubSeq(s, 1, k)[i] = s[1 + i - 1]
    <3> HIDE DEF k
    <3>1. QED  BY <2>1, SubSeqProperties
  <2>3. /\ k - 1 + 1 = k /\ k \in Nat /\ 1 .. k - 1 + 1 = 1 .. k
        /\ \A i \in 1 .. k : 1 + i - 1 = i
    BY <1>2
  <2>4. Len(SubSeq(s, 1, k)) = k /\ \A i \in 1 .. k : SubSeq(s, 1, k)[i] = s[i]
    <3> HIDE DEF k
    <3>1. QED  BY <2>2, <2>3
  <2>5. QED  BY <2>2, <2>4
<1>4. QED  BY <1>2, <1>3 DEF IsSeq, Front, Last

-----------------------------------------------------------------------------
(* The chain of bases                                                       *)

(* While calls are made, the frames are the chain; while they return, the   *)
(* frames are its beginning and the merged profile the nearest of its rest. *)
ChainHolds ==
  /\ step \in {"ask", "enter", "unwind", "resolved"}
  /\ IsSeq(chain) /\ IsSeq(frames) /\ Len(chain) \in Nat /\ Len(frames) \in Nat
  /\ step \in {"ask", "enter"} => Len(chain) = Len(frames)
  /\ step = "unwind" => Len(frames) < Len(chain) /\ IsNearest(merged, chain, Len(frames) + 1)
  /\ \A i \in 1 .. Len(frames) : chain[i] = frames[i].own

LEMMA ChainInit == Init => ChainHolds
BY EmptyIsSeq DEF Init, ResolverInit, ChainHolds

(* Laying the definitions of c[k] over the nearest of the later ones gives  *)
(* the nearest of all from k on.                                            *)
LEMMA NearestStep ==
  ASSUME NEW m, NEW c, NEW k \in Nat, Len(c) \in Nat, 1 <= k, k <= Len(c),
         IsNearest(m, c, k + 1)
  PROVE  IsNearest(Merge(m, c[k]), c, k)
<1> DEFINE r == Merge(m, c[k])
<1>1. /\ DOMAIN r = DOMAIN m \cup DOMAIN c[k]
      /\ \A f \in DOMAIN r : r[f] = IF f \in DOMAIN c[k] THEN c[k][f] ELSE m[f]
  BY DEF Merge
<1>2. \A f \in DOMAIN r : \E i \in k .. Len(c) : f \in DOMAIN c[i]
  <2> SUFFICES ASSUME NEW f \in DOMAIN r  PROVE \E i \in k .. Len(c) : f \in DOMAIN c[i]
    OBVIOUS
  <2>1. CASE f \in DOMAIN c[k]
    BY <2>1
  <2>2. CASE f \in DOMAIN m
    <3>1. PICK i \in (k + 1) .. Len(c) : f \in DOMAIN c[i]
      BY <2>2 DEF IsNearest
    <3>2. i \in k .. Len(c)
      OBVIOUS
    <3>3. QED  BY <3>1, <3>2
  <2>3. QED  BY <1>1, <2>1, <2>2
<1>3. ASSUME NEW i \in k .. Len(c), NEW f \in DOMAIN c[i]
      PROVE  /\ f \in DOMAIN r
             /\ (\A j \in k .. (i - 1) : f \notin DOMAIN c[j]) => r[f] = c[i][f]
  <2>1. CASE i = k
    BY <1>1, <2>1
  <2>2. CASE i # k
    <3>1. i \in (k + 1) .. Len(c)
      BY <2>2
    <3>2. f \in DOMAIN m
          /\ ((\A j \in (k + 1) .. (i - 1) : f \notin DOMAIN c[j]) => m[f] = c[i][f])
      BY <3>1 DEF IsNearest
    <3>3. ASSUME \A j \in k .. (i - 1) : f \notin DOMAIN c[j]
          PROVE  r[f] = c[i][f]
      <4>1. k \in k .. (i - 1) /\ \A j \in (k + 1) .. (i - 1) : j \in k .. (i - 1)
        BY <3>1
      <4>2. QED  BY <1>1, <3>2, <3>3, <4>1
    <3>4. QED  BY <1>1, <3>2, <3>3
  <2>3. QED  BY <2>1, <2>2
<1>4. QED  BY <1>2, <1>3 DEF IsNearest

LEMMA ChainEnter == ASSUME ChainHolds, Enter  PROVE ChainHolds'
<1> DEFINE own == Load(next).own
           frame == [entry |-> next, id |-> FilePath(next), own |-> own]
<1>1. /\ chain' = Append(chain, own) /\ frames' = Append(frames, frame) /\ step' = "enter"
      /\ step = "enter"
  BY DEF Enter, Call
<1>2. /\ IsSeq(chain') /\ Len(chain') = Len(chain) + 1
      /\ \A i \in 1 .. Len(chain) : chain'[i] = chain[i]
      /\ chain'[Len(chain) + 1] = own
  BY <1>1, AppendAny DEF ChainHolds
<1>3. /\ IsSeq(frames') /\ Len(frames') = Len(frames) + 1
      /\ \A i \in 1 .. Len(frames) : frames'[i] = frames[i]
      /\ frames'[Len(frames) + 1] = frame
  BY <1>1, AppendAny DEF ChainHolds
<1>4. Len(chain) = Len(frames) /\ Len(frames) \in Nat
  BY <1>1 DEF ChainHolds
<1>5. ASSUME NEW i \in 1 .. Len(frames')  PROVE chain'[i] = frames'[i].own
  <2>1. CASE i \in 1 .. Len(frames)
    BY <1>2, <1>3, <1>4, <2>1 DEF ChainHolds
  <2>2. CASE i = Len(frames) + 1
    BY <1>2, <1>3, <1>4, <2>2
  <2>3. QED  BY <1>3, <1>4, <2>1, <2>2
<1>6. QED  BY <1>1, <1>2, <1>3, <1>4, <1>5 DEF ChainHolds

LEMMA ChainEnterLast == ASSUME ChainHolds, EnterLast  PROVE ChainHolds'
<1> DEFINE own == Load(next).own
<1>1. /\ chain' = Append(chain, own) /\ frames' = frames /\ merged' = own
      /\ step' = "unwind" /\ step = "enter"
  BY DEF EnterLast
<1>2. /\ IsSeq(chain') /\ Len(chain') = Len(chain) + 1
      /\ \A i \in 1 .. Len(chain) : chain'[i] = chain[i]
      /\ chain'[Len(chain) + 1] = own
  BY <1>1, AppendAny DEF ChainHolds
<1>3. Len(chain) = Len(frames) /\ Len(frames) \in Nat
  BY <1>1 DEF ChainHolds
<1>4. IsNearest(merged', chain', Len(frames') + 1)
  <2>1. \A i \in (Len(frames) + 1) .. Len(chain') : chain'[i] = own
    BY <1>2, <1>3
  <2>2. Len(frames) + 1 \in (Len(frames) + 1) .. Len(chain')
    BY <1>2, <1>3
  <2>3. QED  BY <1>1, <2>1, <2>2 DEF IsNearest
<1>5. \A i \in 1 .. Len(frames') : chain'[i] = frames'[i].own
  BY <1>1, <1>2, <1>3 DEF ChainHolds
<1>6. QED  BY <1>1, <1>2, <1>3, <1>4, <1>5 DEF ChainHolds

LEMMA ChainUnwind == ASSUME ChainHolds, Unwind  PROVE ChainHolds'
<1> DEFINE n == Len(frames)
<1>1. /\ merged' = Merge(merged, Last(frames).own) /\ frames' = Front(frames)
      /\ chain' = chain /\ step' = "unwind" /\ step = "unwind" /\ frames # <<>>
  BY DEF Unwind
<1>2. /\ IsSeq(frames') /\ n \in Nat \ {0} /\ Len(frames') = n - 1
      /\ \A i \in 1 .. (n - 1) : frames'[i] = frames[i]
      /\ Last(frames) = frames[n]
  BY <1>1, FrontAny DEF ChainHolds
<1>3. /\ n < Len(chain) /\ Len(chain) \in Nat /\ IsNearest(merged, chain, n + 1)
      /\ chain[n] = frames[n].own
  BY <1>1, <1>2 DEF ChainHolds
<1>4. IsNearest(Merge(merged, chain[n]), chain, n)
  <2>1. n \in Nat /\ 1 <= n /\ n <= Len(chain)
    BY <1>2, <1>3
  <2> HIDE DEF n
  <2>2. QED  BY <1>3, <2>1, NearestStep, Zenon
<1>5. IsNearest(merged', chain', Len(frames') + 1)
  <2>1. Len(frames') + 1 = n
    BY <1>2
  <2>2. QED  BY <1>1, <1>2, <1>3, <1>4, <2>1
<1>6. \A i \in 1 .. Len(frames') : chain'[i] = frames'[i].own
  BY <1>1, <1>2 DEF ChainHolds
<1>7. QED  BY <1>1, <1>2, <1>3, <1>5, <1>6 DEF ChainHolds

LEMMA ChainStep == ASSUME ChainHolds, [Next]_vars  PROVE ChainHolds'
<1>1. CASE Choose
  BY <1>1 DEF ChainHolds, Choose, Call, Fail
<1>2. CASE EnterFails
  BY <1>2 DEF ChainHolds, EnterFails, Fail
<1>3. CASE Finish
  BY <1>3 DEF ChainHolds, Finish, Fail
<1>4. CASE UNCHANGED resolverVars
  BY <1>4 DEF ChainHolds, resolverVars
<1>5. QED
  BY <1>1, <1>2, <1>3, <1>4, ChainEnter, ChainEnterLast, ChainUnwind
  DEF Next, vars, Resolve, Plan, Launch, Others, ResolverNext

(* Of all the definitions of a field along the chain of bases, the one      *)
(* nearest to the profile asked for is the one resolved, for every number   *)
(* of profiles and every depth.                                             *)
THEOREM NearestDefinitionWins == Spec => []NearestWins
<1>1. ChainHolds => NearestWins
  BY DEF ChainHolds, NearestWins
<1>2. QED  BY <1>1, ChainInit, ChainStep, PTL DEF Spec

-----------------------------------------------------------------------------
(* Entries being resolved                                                   *)

EntriesHold ==
  /\ IsSeq(frames) /\ Len(frames) \in Nat
  /\ visited = {frames[i].id : i \in 1 .. Len(frames)}
  /\ \A i, j \in 1 .. Len(frames) : frames[i].id = frames[j].id => i = j

LEMMA EntriesInit == Init => EntriesHold
<1>1. 1 .. 0 = {}
  OBVIOUS
<1>2. QED  BY <1>1, EmptyIsSeq DEF Init, ResolverInit, EntriesHold

LEMMA EntriesEnter == ASSUME EntriesHold, Enter  PROVE EntriesHold'
<1> DEFINE n == Len(frames)
           id == FilePath(next)
           frame == [entry |-> next, id |-> id, own |-> Load(next).own]
<1>1. /\ id \notin visited /\ frames' = Append(frames, frame)
      /\ visited' = visited \cup {id}
  BY DEF Enter
<1>2. /\ IsSeq(frames') /\ n \in Nat /\ Len(frames') = n + 1
      /\ \A i \in 1 .. n : frames'[i] = frames[i]
      /\ frames'[n + 1] = frame /\ frame.id = id
  BY <1>1, AppendAny DEF EntriesHold
<1> HIDE DEF frame, id
<1>3. 1 .. (n + 1) = (1 .. n) \cup {n + 1} /\ n + 1 \notin 1 .. n
  BY <1>2
<1>4. visited = {frames[i].id : i \in 1 .. n}
      /\ \A i, j \in 1 .. n : frames[i].id = frames[j].id => i = j
  BY DEF EntriesHold
<1> HIDE DEF n
<1>5. visited' = {frames'[i].id : i \in 1 .. (n + 1)}
  BY <1>1, <1>2, <1>3, <1>4
<1>6. ASSUME NEW i \in 1 .. (n + 1), NEW j \in 1 .. (n + 1), frames'[i].id = frames'[j].id
      PROVE  i = j
  <2>1. CASE i \in 1 .. n /\ j \in 1 .. n
    BY <1>2, <1>4, <1>6, <2>1
  <2>2. CASE i \in 1 .. n /\ j = n + 1
    BY <1>1, <1>2, <1>4, <1>6, <2>2
  <2>3. CASE i = n + 1 /\ j \in 1 .. n
    BY <1>1, <1>2, <1>4, <1>6, <2>3
  <2>4. QED  BY <1>3, <2>1, <2>2, <2>3
<1>7. QED  BY <1>2, <1>5, <1>6 DEF EntriesHold

LEMMA EntriesUnwind == ASSUME EntriesHold, Unwind  PROVE EntriesHold'
<1> DEFINE n == Len(frames)
<1>1. /\ frames # <<>> /\ frames' = Front(frames)
      /\ visited' = visited \ {Last(frames).id}
  BY DEF Unwind
<1>2. /\ IsSeq(frames') /\ n \in Nat \ {0} /\ Len(frames') = n - 1
      /\ \A i \in 1 .. (n - 1) : frames'[i] = frames[i]
      /\ Last(frames) = frames[n]
  BY <1>1, FrontAny DEF EntriesHold
<1>3. 1 .. n = (1 .. (n - 1)) \cup {n} /\ n \notin 1 .. (n - 1)
  BY <1>2
<1>4. visited = {frames[i].id : i \in 1 .. n}
      /\ \A i, j \in 1 .. n : frames[i].id = frames[j].id => i = j
  BY DEF EntriesHold
<1>5. Len(frames') \in Nat
  BY <1>2
<1> HIDE DEF n
<1>6. visited' = {frames'[i].id : i \in 1 .. (n - 1)}
  BY <1>1, <1>2, <1>3, <1>4
<1>7. \A i, j \in 1 .. (n - 1) : frames'[i].id = frames'[j].id => i = j
  BY <1>2, <1>3, <1>4
<1>8. QED  BY <1>2, <1>5, <1>6, <1>7 DEF EntriesHold

LEMMA EntriesStep == ASSUME EntriesHold, [Next]_vars  PROVE EntriesHold'
<1>1. CASE UNCHANGED <<frames, visited>>
  BY <1>1 DEF EntriesHold
<1>2. QED
  BY <1>1, EntriesEnter, EntriesUnwind
  DEF Next, vars, resolverVars, Resolve, Plan, Launch, Others, ResolverNext,
      Choose, EnterLast, EnterFails, Finish

(* No chain of bases, however its references are spelled, has an entry      *)
(* resolved again while a call for the same identity is under way.          *)
THEOREM NoEntryIsResolvedTwice == Spec => []NoEntryTwice
<1>1. EntriesHold => NoEntryTwice
  BY DEF EntriesHold, NoEntryTwice
<1>2. QED  BY <1>1, EntriesStep, EntriesInit, PTL DEF Spec

-----------------------------------------------------------------------------
(* The child                                                                *)

Filtering == {"handover", "exec", "running"}
Restricted == {"install"} \cup Filtering
Ruled == {"restrict"} \cup Restricted
Limited == {"ruleset", "rules"} \cup Ruled
Stages == {"limits"} \cup Limited

(* What the child has done to itself by the time it has come to a stage.    *)
ChildHolds ==
  /\ error # "rule"
  /\ DOMAIN child = {"limits", "rules", "restricted", "filter"}
  /\ stage \in Stages =>
       filter.mode # "none" /\ \E channel \in BOOLEAN : filter.passed = Passed(plan.net, channel)
  /\ stage \in Limited => child.limits = AllLimits
  /\ stage \in Ruled => child.rules = {Rule(g) : g \in grants}
  /\ stage \in Restricted => child.restricted
  /\ stage \in Filtering => child.filter = filter

(* A right a file cannot have is never asked for a file.                    *)
LEMMA RulesAreValid == ASSUME NEW g  PROVE RuleIsValid(Rule(g))
BY DEF RuleIsValid, Rule, AccessFor

LEMMA PassedIsConfined ==
  ASSUME NEW net, NEW channel
  PROVE  /\ "filter" \notin Passed(net, channel)
         /\ net = "none" => Passed(net, channel) \cap {"network", "sendmsg"} = {}
BY DEF Passed, AllowedCalls, AlwaysAllowed

(* The rules of a set of grants do not change once the kernel is probed.    *)
LEMMA RulesStay ==
  abi' = abi /\ grants' = grants => {Rule(g) : g \in grants}' = {Rule(g) : g \in grants}
BY DEF Rule, AccessFor, WriteMask, ReadMask

LEMMA ChildPrepares ==
  ASSUME ChildHolds,
         Prepare \/ StartProxy \/ Probe \/ ScanWrite \/ OpenWrites \/ OpenWrite
           \/ ScanReads \/ ScanRead \/ OpenReads \/ OpenRead
  PROVE  ChildHolds'
<1>1. /\ stage' \notin Stages /\ error' # "rule" /\ child' = child
  BY DEF ChildHolds, Stages, Limited, Ruled, Restricted, Filtering, Go, GiveUp, Prepare, StartProxy,
         Probe, ScanWrite, OpenWrites, OpenWrite, ScanReads, ScanRead, OpenReads, OpenRead
<1>2. QED  BY <1>1 DEF ChildHolds, Stages, Limited, Ruled, Restricted, Filtering

LEMMA ChildStep == ASSUME ChildHolds, [Next]_vars  PROVE ChildHolds'
<1>1. CASE UNCHANGED <<stage, error, plan, filter, child, abi, grants>>
  BY <1>1, RulesStay DEF ChildHolds
<1>2. ASSUME NEW profile, NEW cwd, BuildPlan(profile, cwd)  PROVE ChildHolds'
  BY <1>2 DEF BuildPlan, Go, ChildHolds, Stages, Limited, Ruled, Restricted, Filtering
<1>3. CASE BuildFilter
  <2>1. child' = child /\ error' # "rule" /\ plan' = plan
    BY <1>3 DEF BuildFilter, Go, GiveUp, ChildHolds
  <2>2. stage' \notin Limited /\
        (stage' = "failed" \/ (filter'.mode # "none" /\ \E channel \in BOOLEAN :
                                  filter'.passed = Passed(plan.net, channel)))
    BY <1>3 DEF BuildFilter, Go, GiveUp, Limited, Ruled, Restricted, Filtering
  <2>3. QED
    BY <2>1, <2>2 DEF ChildHolds, Stages, Limited, Ruled, Restricted, Filtering
<1>4. CASE LaunchNext /\ stage \in Forked
  <2>1. /\ UNCHANGED <<plan, filter, abi, grants>> /\ stage \in Stages
        /\ {Rule(g) : g \in grants}' = {Rule(g) : g \in grants}
    BY <1>4, RulesStay DEF LaunchNext, LaunchSteps, Forked, Stages, Limited, Ruled, Restricted, Filtering,
       Prepare, StartProxy, Probe, ScanWrite, OpenWrites, OpenWrite, ScanReads, ScanRead,
       OpenReads, OpenRead, BuildFilter, ApplyLimits, CreateRuleset, AddRules, RestrictSelf,
       InstallFilter, HandOver, Exec, KernelRefuses
  <2> USE DEF ChildHolds, Stages, Limited, Ruled, Restricted, Filtering, Go, GiveUp
  <2>2. CASE ApplyLimits
    BY <2>1, <2>2 DEF ApplyLimits
  <2>3. CASE CreateRuleset
    BY <2>1, <2>3 DEF CreateRuleset
  <2>4. CASE AddRules
    <3>1. stage = "rules" /\ stage' = "restrict" /\ UNCHANGED error
          /\ child' = [child EXCEPT !.rules = {Rule(g) : g \in grants}]
      BY <2>4, RulesAreValid DEF AddRules
    <3>2. QED  BY <2>1, <3>1
  <2>5. CASE RestrictSelf
    BY <2>1, <2>5 DEF RestrictSelf
  <2>6. CASE InstallFilter
    BY <2>1, <2>6 DEF InstallFilter
  <2>7. CASE HandOver
    BY <2>1, <2>7 DEF HandOver
  <2>8. CASE Exec
    BY <2>1, <2>8 DEF Exec
  <2>9. CASE KernelRefuses
    BY <2>1, <2>9 DEF KernelRefuses
  <2>10. QED
    BY <1>4, <2>2, <2>3, <2>4, <2>5, <2>6, <2>7, <2>8, <2>9
    DEF LaunchNext, LaunchSteps, Forked, Prepare, StartProxy, Probe, ScanWrite, OpenWrites, OpenWrite,
        ScanReads, ScanRead, OpenReads, OpenRead, BuildFilter
<1>5. CASE LaunchNext /\ stage \notin Forked
  BY <1>3, <1>5, ChildPrepares
  DEF LaunchNext, LaunchSteps, Forked, ApplyLimits, CreateRuleset, AddRules, RestrictSelf, InstallFilter,
      HandOver, Exec, KernelRefuses
<1>6. QED
  BY <1>1, <1>2, <1>4, <1>5
  DEF Next, vars, sandboxVars, launchVars, Resolve, Plan, Launch, Others, OtherNext, Appear, Disappear

(* No command runs unconfined, whatever fails and whatever other processes  *)
(* do to the files, on every kernel and for every profile.                  *)
THEOREM CommandsRunConfined == Spec => []RunsConfined
<1>1. Init => ChildHolds
  BY DEF Init, SandboxInit, ChildHolds, Unconfined, Stages, Limited, Ruled, Restricted, Filtering
<1>2. ChildHolds => RunsConfined
  BY PassedIsConfined DEF ChildHolds, RunsConfined, Stages, Limited, Ruled, Restricted, Filtering
<1>3. QED  BY <1>1, <1>2, ChildStep, PTL DEF Spec

-----------------------------------------------------------------------------
(* What the child may read                                                  *)

NotYet == {"idle", "planned", "prepared", "probe"}

(* The present tree is among those there have been since the plan was made. *)
SeenHolds == stage # "idle" => tree \in seen

LEMMA SeenStep ==
  ASSUME SeenHolds, [Next]_vars
  PROVE  SeenHolds' /\ (stage # "idle" => stage' # "idle" /\ seen \subseteq seen')
<1>1. CASE UNCHANGED vars
  BY <1>1 DEF SeenHolds, vars, sandboxVars, launchVars, treeVars
<1>2. CASE Resolve
  BY <1>2 DEF SeenHolds, Resolve, sandboxVars, launchVars, treeVars
<1>3. CASE Plan
  BY <1>3 DEF SeenHolds, Plan, BuildPlan
<1>4. CASE Others
  BY <1>4 DEF SeenHolds, Others, OtherNext, Appear, Disappear, launchVars
<1>5. CASE Launch
  <2>1. UNCHANGED <<tree, seen>> /\ stage # "idle" /\ stage' # "idle"
    BY <1>5 DEF Launch, LaunchNext, LaunchSteps, Go, GiveUp, treeVars, Prepare, StartProxy, Probe, ScanWrite,
       OpenWrites, OpenWrite, ScanReads, ScanRead, OpenReads, OpenRead, BuildFilter, ApplyLimits,
       CreateRuleset, AddRules, RestrictSelf, InstallFilter, HandOver, Exec, KernelRefuses, Forked
  <2>2. QED  BY <2>1 DEF SeenHolds
<1>6. QED  BY <1>1, <1>2, <1>3, <1>4, <1>5 DEF Next

(* The paths looked up and opened for reading are named ones, and the       *)
(* anchors opened lie where one has led; a write anchor gives no right to   *)
(* read.                                                                    *)
Readable(l) == \E p \in NamedPaths : l \in HasLed(p)
NamesHold ==
  /\ stage \in NotYet => grants = {} /\ anchors = {}
  /\ stage = "write_open" => anchors = {}
  /\ stage \in {"read_scan", "read_open"} => todo \subseteq NamedPaths /\ anchors \subseteq NamedPaths
  /\ \A g \in grants : g.kind = "write" \/ Readable(g.at)

(* While the plan stays, where a path has led only becomes more.            *)
LEMMA NamesStay ==
  ASSUME plan' = plan, seen \subseteq seen'
  PROVE  /\ NamedPaths' = NamedPaths
         /\ \A p : HasLed(p) \subseteq HasLed(p)'
         /\ \A l : Readable(l) => Readable(l)'
<1>1. NamedPaths' = NamedPaths
  BY DEF NamedPaths
<1>2. \A p : HasLed(p) \subseteq HasLed(p)'
  BY DEF HasLed
<1>3. QED  BY <1>1, <1>2 DEF Readable

LEMMA NamesStep == ASSUME NamesHold, SeenHolds, [Next]_vars  PROVE NamesHold'
<1>0. CASE stage = "idle"
  <2>1. grants' = grants /\ anchors' = anchors /\ stage' \in {"idle", "planned"} /\ stage \in NotYet
    BY <1>0 DEF Next, vars, sandboxVars, launchVars, treeVars, Resolve, Plan, BuildPlan, Go, Launch, Others, OtherNext,
       Appear, Disappear, LaunchNext, LaunchSteps, Preparing, NotYet, Prepare, StartProxy, Probe,
       ScanWrite, OpenWrites, OpenWrite, ScanReads, ScanRead, OpenReads, OpenRead, BuildFilter,
       ApplyLimits, CreateRuleset, AddRules, RestrictSelf, InstallFilter, HandOver, Exec,
       KernelRefuses, Forked
  <2>2. QED  BY <2>1 DEF NamesHold, NotYet
<1> SUFFICES ASSUME stage # "idle"  PROVE NamesHold'
  BY <1>0
<1>S. seen \subseteq seen'
  BY SeenStep
<1>1. CASE UNCHANGED <<stage, plan, grants, anchors, todo>>
  <2>1. \A g \in grants' : g.kind = "write" \/ Readable(g.at)'
    BY <1>1, <1>S, NamesStay DEF NamesHold
  <2>2. NamedPaths' = NamedPaths
    BY <1>1, <1>S, NamesStay
  <2>3. QED  BY <1>1, <2>1, <2>2 DEF NamesHold
<1>2. CASE Prepare
  <2>1. stage \in NotYet /\ stage' \in NotYet /\ grants' = grants /\ anchors' = anchors
    BY <1>2 DEF Prepare, Go, NotYet
  <2>2. QED  BY <2>1 DEF NamesHold, NotYet
<1>3. CASE stage' \in Stages \cup {"failed"} /\ UNCHANGED <<plan, grants>>
  <2>1. \A g \in grants' : g.kind = "write" \/ Readable(g.at)'
    BY <1>3, <1>S, NamesStay DEF NamesHold
  <2>2. QED  BY <1>3, <2>1 DEF NamesHold, Stages, Limited, Ruled, Restricted, Filtering, NotYet
<1>4. CASE StartProxy \/ Probe \/ ScanWrite \/ OpenWrites
  <2>1. /\ plan' = plan /\ grants' = grants
        /\ stage' \in NotYet \cup {"failed", "write_scan", "write_open"}
        /\ stage' \in NotYet => stage \in NotYet /\ anchors' = anchors
        /\ stage' = "write_open" => anchors' = {}
    BY <1>4 DEF StartProxy, Probe, ScanWrite, OpenWrites, Go, GiveUp, NotYet
  <2>2. \A g \in grants' : g.kind = "write" \/ Readable(g.at)'
    BY <2>1, <1>S, NamesStay DEF NamesHold
  <2>3. stage' \in NotYet => grants' = {} /\ anchors' = {}
    BY <2>1 DEF NamesHold
  <2>4. stage' \notin {"read_scan", "read_open"}
    BY <2>1 DEF NotYet
  <2>5. QED  BY <2>1, <2>2, <2>3, <2>4 DEF NamesHold
<1>5. CASE OpenWrite
  <2>1. /\ plan' = plan /\ anchors' = anchors /\ stage = "write_open"
        /\ stage' \in {"write_open", "failed"}
        /\ \A g \in grants' : g \in grants \/ g.kind = "write"
    BY <1>5 DEF OpenWrite, GiveUp, Grants
  <2>2. \A g \in grants' : g.kind = "write" \/ Readable(g.at)'
    BY <2>1, <1>S, NamesStay DEF NamesHold
  <2>3. QED  BY <2>1, <2>2 DEF NamesHold, NotYet
<1>6. CASE ScanReads \/ ScanRead \/ OpenReads
  <2>1. /\ plan' = plan /\ grants' = grants /\ stage' \in {"read_scan", "read_open"}
        /\ todo' \subseteq NamedPaths /\ anchors' \subseteq NamedPaths
    BY <1>6 DEF NamesHold, ScanReads, ScanRead, OpenReads, Go, NamedPaths
  <2>2. \A g \in grants' : g.kind = "write" \/ Readable(g.at)'
    BY <2>1, <1>S, NamesStay DEF NamesHold
  <2>3. NamedPaths' = NamedPaths
    BY <2>1, <1>S, NamesStay
  <2>4. QED  BY <2>1, <2>2, <2>3 DEF NamesHold, NotYet
<1>7. CASE OpenRead
  <2>1. /\ plan' = plan /\ anchors' = anchors /\ stage = "read_open" /\ stage' \in {"read_open", "failed"}
        /\ todo' \subseteq todo /\ todo \subseteq NamedPaths /\ anchors \subseteq NamedPaths
    BY <1>7 DEF OpenRead, NamesHold, GiveUp
  <2>2. \A g \in grants' : g \in grants \/ Readable(g.at)
    <3>1. PICK p \in todo : grants' = grants \cup Grants(p, "read") \/ grants' = grants
      BY <1>7 DEF OpenRead
    <3>2. ASSUME NEW g \in Grants(p, "read")  PROVE Readable(g.at)
      <4>1. g.at \in Where(tree, p)
        BY DEF Grants
      <4>2. tree \in seen
        BY DEF SeenHolds
      <4>3. QED  BY <2>1, <4>1, <4>2 DEF Readable, HasLed
    <3>3. QED  BY <3>1, <3>2
  <2>3. \A l : Readable(l) => Readable(l)'
    BY <2>1, <1>S, NamesStay
  <2>4. NamedPaths' = NamedPaths
    BY <2>1, <1>S, NamesStay
  <2>5. \A g \in grants' : g.kind = "write" \/ Readable(g.at)'
    BY <2>2, <2>3 DEF NamesHold
  <2>6. stage' \notin NotYet /\ stage' # "write_open"
    BY <2>1 DEF NotYet
  <2>7. QED  BY <2>1, <2>4, <2>5, <2>6 DEF NamesHold
<1>8. CASE LaunchNext /\ stage \in Forked \cup {"read_open"} /\ ~OpenRead
  <2>1. stage' \in Stages \cup {"failed"} /\ UNCHANGED <<plan, grants>>
    BY <1>8 DEF LaunchNext, LaunchSteps, Forked, Stages, Limited, Ruled, Restricted, Filtering, Go, GiveUp,
       Prepare, StartProxy, Probe, ScanWrite, OpenWrites, OpenWrite, ScanReads, ScanRead,
       OpenReads, BuildFilter, ApplyLimits, CreateRuleset, AddRules, RestrictSelf,
       InstallFilter, HandOver, Exec, KernelRefuses
  <2>2. QED  BY <1>3, <2>1
<1>9. QED
  BY <1>1, <1>2, <1>4, <1>5, <1>6, <1>7, <1>8
  DEF Next, vars, sandboxVars, launchVars, Resolve, Plan, BuildPlan, Launch, Others, OtherNext, Appear, Disappear,
      LaunchNext, LaunchSteps, Forked, BuildFilter, ApplyLimits, CreateRuleset, AddRules, RestrictSelf,
      InstallFilter, HandOver, Exec, KernelRefuses

-----------------------------------------------------------------------------
(* Induction along an interval, over a set that stands for a property       *)

LEMMA HasLeast ==
  ASSUME NEW T, T \subseteq Nat, T # {}
  PROVE  \E m \in T : \A n \in T : m <= n
<1>1. PICK m \in T : \A n \in T : <<n, m>> \notin OpToRel(<, Nat)
  BY NatLessThanWellFounded, WFMin
<1>2. ASSUME NEW n \in T  PROVE m <= n
  <2>1. m \in Nat /\ n \in Nat /\ <<n, m>> \in Nat \X Nat
    OBVIOUS
  <2>2. ~(n < m)
    BY <1>1, <2>1 DEF OpToRel
  <2>3. QED  BY <2>1, <2>2
<1>3. QED  BY <1>2

LEMMA Climbs ==
  ASSUME NEW a \in Nat, NEW b \in Nat, NEW T, a \in T,
         \A n \in a .. (b - 1) : n \in T => n + 1 \in T
  PROVE  \A n \in a .. b : n \in T
<1> DEFINE missing == {n \in a .. b : n \notin T}
<1>1. SUFFICES ASSUME missing # {}  PROVE FALSE
  OBVIOUS
<1>2. missing \subseteq Nat
  OBVIOUS
<1>3. PICK m \in missing : \A n \in missing : m <= n
  <2> HIDE DEF missing
  <2>1. QED  BY <1>1, <1>2, HasLeast
<1>4. m \in a .. b /\ m # a /\ m \notin T
  OBVIOUS
<1>5. m - 1 \in a .. (b - 1) /\ m - 1 + 1 = m /\ m - 1 \in a .. b
  BY <1>4
<1>6. m - 1 \in T
  <2>1. m - 1 \notin missing
    BY <1>3, <1>4
  <2>2. QED  BY <1>5, <2>1
<1>7. QED  BY <1>4, <1>5, <1>6

-----------------------------------------------------------------------------
(* Parts of a path                                                          *)

LEMMA UptoAny ==
  ASSUME NEW s, IsSeq(s), NEW n \in 1 .. Len(s)
  PROVE  /\ IsSeq(SubSeq(s, 1, n)) /\ Len(s) \in Nat /\ Len(SubSeq(s, 1, n)) = n
         /\ \A i \in 1 .. n : SubSeq(s, 1, n)[i] = s[i]
<1>1. PICK S : s \in Seq(S)
  BY DEF IsSeq
<1>2. Len(s) \in Nat /\ n \in Nat /\ n >= 1 /\ n \in Int /\ 1 \in Int /\ \A i \in 1 .. n : s[i] \in S
  BY <1>1
<1>3. /\ SubSeq(s, 1, n) \in Seq(S)
      /\ Len(SubSeq(s, 1, n)) = IF 1 <= n THEN n - 1 + 1 ELSE 0
      /\ \A i \in 1 .. n - 1 + 1 : SubSeq(s, 1, n)[i] = s[1 + i - 1]
  BY <1>2, SubSeqProperties
<1>4. n - 1 + 1 = n /\ 1 <= n /\ 1 .. n - 1 + 1 = 1 .. n /\ \A i \in 1 .. n : 1 + i - 1 = i
  BY <1>2
<1>5. QED  BY <1>2, <1>3, <1>4 DEF IsSeq

LEMMA SameAny ==
  ASSUME NEW s, NEW t, IsSeq(s), IsSeq(t), Len(s) = Len(t), \A i \in 1 .. Len(s) : s[i] = t[i]
  PROVE  s = t
<1>1. PICK S, T : s \in Seq(S) /\ t \in Seq(T)
  BY DEF IsSeq
<1>2. s \in Seq(S \cup T) /\ t \in Seq(S \cup T)
  BY <1>1, SeqMonotonic
<1>3. QED  BY <1>2, SeqEqual

LEMMA UptoUpto ==
  ASSUME NEW s, IsSeq(s), NEW n \in 1 .. Len(s), NEW k \in 1 .. n
  PROVE  SubSeq(SubSeq(s, 1, n), 1, k) = SubSeq(s, 1, k)
<1>1. /\ IsSeq(SubSeq(s, 1, n)) /\ Len(s) \in Nat /\ Len(SubSeq(s, 1, n)) = n
      /\ \A i \in 1 .. n : SubSeq(s, 1, n)[i] = s[i]
  BY UptoAny
<1>2. k \in 1 .. Len(s)
  BY <1>1
<1>3. /\ IsSeq(SubSeq(s, 1, k)) /\ Len(SubSeq(s, 1, k)) = k
      /\ \A i \in 1 .. k : SubSeq(s, 1, k)[i] = s[i]
  BY <1>2, UptoAny
<1> DEFINE u == SubSeq(s, 1, n)
<1>4. k \in 1 .. Len(u)
  BY <1>1
<1>5. /\ IsSeq(SubSeq(u, 1, k)) /\ Len(SubSeq(u, 1, k)) = k
      /\ \A i \in 1 .. k : SubSeq(u, 1, k)[i] = u[i]
  <2> HIDE DEF u
  <2>1. IsSeq(u)
    BY <1>1 DEF u
  <2>2. QED  BY <2>1, <1>4, UptoAny
<1>6. \A i \in 1 .. k : SubSeq(u, 1, k)[i] = SubSeq(s, 1, k)[i]
  BY <1>1, <1>3, <1>5
<1>7. QED
  <2> HIDE DEF u
  <2>1. SubSeq(u, 1, k) = SubSeq(s, 1, k)
    BY <1>3, <1>5, <1>6, SameAny
  <2>2. QED  BY <2>1 DEF u

LEMMA UptoFull == ASSUME NEW s, IsSeq(s), s # <<>>  PROVE SubSeq(s, 1, Len(s)) = s /\ Len(s) \in 1 .. Len(s)
<1>1. PICK S : s \in Seq(S)
  BY DEF IsSeq
<1>2. Len(s) \in 1 .. Len(s)
  BY <1>1
<1>3. QED  BY <1>2, UptoAny, SameAny

LEMMA PrefixMeans ==
  ASSUME NEW s, NEW t, IsSeq(s), IsSeq(t), s # <<>>
  PROVE  IsPrefix(s, t) <=> Len(s) <= Len(t) /\ \A i \in 1 .. Len(s) : s[i] = t[i]
<1>1. Len(s) \in Nat /\ Len(t) \in Nat /\ Len(s) \in 1 .. Len(s) /\ SubSeq(s, 1, Len(s)) = s
  BY UptoFull, EmptyIsSeq DEF IsSeq
<1>2. CASE Len(s) <= Len(t)
  <2>1. Len(s) \in 1 .. Len(t)
    BY <1>1, <1>2
  <2>2. /\ IsSeq(SubSeq(t, 1, Len(s))) /\ Len(SubSeq(t, 1, Len(s))) = Len(s)
        /\ \A i \in 1 .. Len(s) : SubSeq(t, 1, Len(s))[i] = t[i]
    BY <2>1, UptoAny
  <2>3. ASSUME \A i \in 1 .. Len(s) : s[i] = t[i]  PROVE s = SubSeq(t, 1, Len(s))
    BY <2>2, <2>3, SameAny
  <2>4. QED  BY <1>1, <1>2, <2>2, <2>3 DEF IsPrefix
<1>3. QED  BY <1>2 DEF IsPrefix

-----------------------------------------------------------------------------
(* Locations                                                                *)

(* The locations a path comes through, component by component.              *)
IsWalk(g, p, k) == g = [n \in 1 .. k |-> IF n = 1 THEN <<"/">> ELSE Into(g[n - 1], p[n])]

LEMMA WalkExists == ASSUME NEW p, NEW k \in Nat  PROVE \E g : IsWalk(g, p, k)
<1> DEFINE T == {n \in Nat : \E g : IsWalk(g, p, n)}
<1>1. 0 \in T
  <2>1. IsWalk(<<>>, p, 0)
    <3>1. 1 .. 0 = {}
      OBVIOUS
    <3>2. QED  BY <3>1 DEF IsWalk
  <2>2. QED  BY <2>1
<1>2. ASSUME NEW n \in 0 .. (k - 1), n \in T  PROVE n + 1 \in T
  <2>1. PICK g : IsWalk(g, p, n)
    BY <1>2
  <2> DEFINE h == [i \in 1 .. (n + 1) |->
                     IF i = n + 1 THEN (IF n = 0 THEN <<"/">> ELSE Into(g[n], p[n + 1])) ELSE g[i]]
  <2>2. \A i \in 1 .. n : g[i] = IF i = 1 THEN <<"/">> ELSE Into(g[i - 1], p[i])
    BY <2>1 DEF IsWalk
  <2>3. ASSUME NEW i \in 1 .. (n + 1)
        PROVE  h[i] = IF i = 1 THEN <<"/">> ELSE Into(h[i - 1], p[i])
    <3>1. CASE i = n + 1
      <4>1. n # 0 => h[i - 1] = g[n] /\ i # 1
        BY <3>1
      <4>2. n = 0 => i = 1
        BY <3>1
      <4>3. QED  BY <3>1, <4>1, <4>2
    <3>2. CASE i # n + 1
      <4>1. i \in 1 .. n /\ h[i] = g[i]
        BY <3>2
      <4>2. i # 1 => h[i - 1] = g[i - 1]
        BY <4>1
      <4>3. QED  BY <2>2, <4>1, <4>2
    <3>3. QED  BY <3>1, <3>2
  <2>4. IsWalk(h, p, n + 1)
    BY <2>3 DEF IsWalk
  <2>5. QED  BY <2>4
<1>3. k \in T
  <2>1. \A n \in 0 .. k : n \in T
    <3> HIDE DEF T
    <3>1. QED  BY <1>1, <1>2, Climbs
  <2>2. QED  BY <2>1
<1>4. QED  BY <1>3

LEMMA WalksAgree ==
  ASSUME NEW p, NEW q, NEW k \in Nat, NEW m \in Nat, NEW g, NEW h, IsWalk(g, p, k), IsWalk(h, q, m),
         k <= m, \A i \in 1 .. k : p[i] = q[i], 1 <= k
  PROVE  \A n \in 1 .. k : g[n] = h[n]
<1> DEFINE T == {n \in Nat : g[n] = h[n]}
<1>1. /\ \A n \in 1 .. k : g[n] = IF n = 1 THEN <<"/">> ELSE Into(g[n - 1], p[n])
      /\ \A n \in 1 .. m : h[n] = IF n = 1 THEN <<"/">> ELSE Into(h[n - 1], q[n])
  BY DEF IsWalk
<1>2. 1 \in T
  BY <1>1
<1>3. ASSUME NEW n \in 1 .. (k - 1), n \in T  PROVE n + 1 \in T
  <2>1. n + 1 \in 1 .. k /\ n + 1 \in 1 .. m /\ n + 1 # 1 /\ n + 1 - 1 = n
    OBVIOUS
  <2>2. g[n] = h[n]
    BY <1>3
  <2>3. g[n + 1] = Into(g[n], p[n + 1]) /\ h[n + 1] = Into(h[n], p[n + 1])
    BY <1>1, <2>1
  <2>4. QED  BY <2>1, <2>2, <2>3
<1>4. QED
  <2>1. \A n \in 1 .. k : n \in T
    <3> HIDE DEF T
    <3>1. QED  BY <1>2, <1>3, Climbs
  <2>2. QED  BY <2>1

LEMMA LocationIsWalk ==
  ASSUME NEW cwd, NEW p, Absolute(p), Len(p) \in Nat
  PROVE  \E g : IsWalk(g, p, Len(p)) /\ Location(cwd, p) = g[Len(p)]
<1> DEFINE at == CHOOSE g : IsWalk(g, p, Len(p))
<1>1. IsWalk(at, p, Len(p))
  BY WalkExists
<1>2. Join(cwd, p) = p
  BY DEF Join
<1>3. Location(cwd, p) = at[Len(p)]
  BY <1>2, Zenon DEF Location, IsWalk
<1>4. QED  BY <1>1, <1>3

(* The location of each part of an absolute path, one component further     *)
(* from that of the part before.                                            *)
LEMMA LocationWalks ==
  ASSUME NEW cwd, NEW p, IsSeq(p), Absolute(p)
  PROVE  /\ 1 \in 1 .. Len(p)
         /\ Location(cwd, SubSeq(p, 1, 1)) = <<"/">>
         /\ \A n \in 1 .. (Len(p) - 1) :
              Location(cwd, SubSeq(p, 1, n + 1)) = Into(Location(cwd, SubSeq(p, 1, n)), p[n + 1])
<1>1. Len(p) \in Nat /\ 1 \in 1 .. Len(p) /\ p[1] = "/"
  BY EmptyIsSeq, UptoFull DEF Absolute, IsSeq
<1>2. PICK g : IsWalk(g, p, Len(p))
  BY <1>1, WalkExists
<1>3. \A n \in 1 .. Len(p) : g[n] = IF n = 1 THEN <<"/">> ELSE Into(g[n - 1], p[n])
  BY <1>2 DEF IsWalk
<1>4. ASSUME NEW n \in 1 .. Len(p)  PROVE Location(cwd, SubSeq(p, 1, n)) = g[n]
  <2>1. PICK q : q = SubSeq(p, 1, n)
    OBVIOUS
  <2>2. IsSeq(q) /\ Len(q) = n /\ \A i \in 1 .. n : q[i] = p[i]
    BY <2>1, UptoAny
  <2>3. Absolute(q) /\ n \in Nat /\ 1 <= n /\ n <= Len(p) /\ n \in 1 .. n /\ 1 \in 1 .. n
    BY <1>1, <2>2, EmptyIsSeq DEF Absolute
  <2>4. PICK h : IsWalk(h, q, n) /\ Location(cwd, q) = h[n]
    BY <2>2, <2>3, LocationIsWalk
  <2>5. \A i \in 1 .. n : h[i] = g[i]
    BY <1>1, <1>2, <2>2, <2>3, <2>4, WalksAgree
  <2>6. QED  BY <2>1, <2>3, <2>4, <2>5
<1>5. Location(cwd, SubSeq(p, 1, 1)) = <<"/">>
  BY <1>1, <1>3, <1>4
<1>6. ASSUME NEW n \in 1 .. (Len(p) - 1)
      PROVE  Location(cwd, SubSeq(p, 1, n + 1)) = Into(Location(cwd, SubSeq(p, 1, n)), p[n + 1])
  <2>1. n \in 1 .. Len(p) /\ n + 1 \in 1 .. Len(p) /\ n + 1 # 1 /\ n + 1 - 1 = n
    BY <1>1
  <2>2. g[n + 1] = Into(g[n], p[n + 1])
    BY <1>3, <2>1
  <2>3. QED  BY <1>4, <2>1, <2>2
<1>7. QED  BY <1>1, <1>5, <1>6

IsPath(p) == IsSeq(p) /\ Absolute(p)

LEMMA PathAppend ==
  ASSUME NEW p, IsPath(p), NEW c
  PROVE  IsPath(Append(p, c)) /\ IsPrefix(p, Append(p, c))
<1>1. Len(p) \in Nat /\ 1 \in 1 .. Len(p) /\ p # <<>> /\ IsSeq(p) /\ p[1] = "/"
  BY UptoFull, EmptyIsSeq DEF IsPath, Absolute, IsSeq
<1>2. PICK q : q = Append(p, c)
  OBVIOUS
<1>3. /\ IsSeq(q) /\ Len(q) = Len(p) + 1
      /\ \A i \in 1 .. Len(p) : q[i] = p[i]
  BY <1>1, <1>2, AppendAny
<1>4. q # <<>> /\ q[1] = "/"
  BY <1>1, <1>3, EmptyIsSeq
<1>5. IsPrefix(p, q)
  BY <1>1, <1>3, PrefixMeans
<1>6. QED  BY <1>2, <1>3, <1>4, <1>5 DEF IsPath, Absolute

LEMMA PathFront == ASSUME NEW p, IsPath(p), Len(p) > 1  PROVE IsPath(Front(p))
<1>1. p # <<>> /\ IsSeq(p) /\ p[1] = "/"
  BY DEF IsPath, Absolute
<1>2. PICK q : q = Front(p)
  OBVIOUS
<1>3. IsSeq(q) /\ Len(p) \in Nat /\ Len(q) = Len(p) - 1 /\ \A i \in 1 .. (Len(p) - 1) : q[i] = p[i]
  BY <1>1, <1>2, FrontAny
<1>4. q # <<>> /\ q[1] = "/"
  BY <1>1, <1>3, EmptyIsSeq
<1>5. QED  BY <1>2, <1>3, <1>4 DEF IsPath, Absolute

LEMMA RootIsPath == IsPath(<<"/">>)
<1>1. <<"/">> \in Seq({"/"}) /\ <<"/">> # <<>>
  OBVIOUS
<1>2. QED  BY <1>1 DEF IsPath, IsSeq, Absolute

LEMMA PathInto == ASSUME NEW l, IsPath(l), NEW c  PROVE IsPath(Into(l, c))
<1>1. IsPath(Append(l, c)) /\ (Len(l) > 1 => IsPath(Front(l)))
  BY PathAppend, PathFront
<1>2. QED  BY <1>1 DEF Into

LEMMA PrefixSelf == ASSUME NEW p, IsPath(p)  PROVE IsPrefix(p, p)
<1>1. IsSeq(p) /\ p # <<>> /\ Len(p) \in Nat
  BY UptoFull DEF IsPath, Absolute, IsSeq
<1>2. QED  BY <1>1, PrefixMeans

LEMMA PrefixFurther ==
  ASSUME NEW p, NEW q, NEW r, IsPath(p), IsPath(q), IsPath(r), IsPrefix(p, q), IsPrefix(q, r)
  PROVE  IsPrefix(p, r)
<1>1. IsSeq(p) /\ p # <<>> /\ IsSeq(q) /\ q # <<>> /\ IsSeq(r)
  BY DEF IsPath, Absolute
<1>2. Len(p) \in Nat /\ Len(q) \in Nat /\ Len(r) \in Nat
  BY <1>1 DEF IsSeq
<1>3. /\ Len(p) <= Len(q) /\ \A i \in 1 .. Len(p) : p[i] = q[i]
      /\ Len(q) <= Len(r) /\ \A i \in 1 .. Len(q) : q[i] = r[i]
  BY <1>1, PrefixMeans
<1>4. Len(p) <= Len(r) /\ \A i \in 1 .. Len(p) : p[i] = r[i]
  BY <1>2, <1>3
<1>5. QED  BY <1>1, <1>4, PrefixMeans

(* Where a path does not go back, it comes only deeper.                     *)
LEMMA LocationDescends ==
  ASSUME NEW cwd, NEW p, IsPath(p), ~Contains(p, ".."), NEW k \in 1 .. Len(p)
  PROVE  IsPrefix(Location(cwd, SubSeq(p, 1, k)), Location(cwd, p))
<1> DEFINE At(n) == Location(cwd, SubSeq(p, 1, n))
           T == {n \in Nat : IsPath(At(n)) /\ (n >= k => IsPath(At(k)) /\ IsPrefix(At(k), At(n)))}
<1>1. /\ IsSeq(p) /\ Len(p) \in Nat /\ 1 \in 1 .. Len(p) /\ At(1) = <<"/">>
      /\ \A n \in 1 .. (Len(p) - 1) : At(n + 1) = Into(At(n), p[n + 1])
  <2>1. IsSeq(p) /\ Absolute(p) /\ Len(p) \in Nat
    BY DEF IsPath, IsSeq
  <2>2. QED  BY <2>1, LocationWalks
<1>2. 1 \in T
  <2>1. k = 1 \/ ~(1 >= k)
    BY <1>1
  <2>2. QED  BY <1>1, <2>1, RootIsPath, PrefixSelf
<1>3. ASSUME NEW n \in 1 .. (Len(p) - 1), n \in T  PROVE n + 1 \in T
  <2>1. PICK l, c : l = At(n) /\ c = p[n + 1]
    OBVIOUS
  <2>2. n + 1 \in 1 .. Len(p) /\ At(n + 1) = Into(l, c) /\ IsPath(l)
    BY <1>1, <1>3, <2>1
  <2>3. c # ".."
    BY <2>1, <2>2 DEF Contains
  <2>4. IsPath(Into(l, c)) /\ IsPrefix(l, Into(l, c))
    <3>1. Into(l, c) = l \/ Into(l, c) = Append(l, c)
      BY <2>3 DEF Into
    <3>2. QED  BY <2>2, <3>1, PathInto, PrefixSelf, PathAppend
  <2>5. CASE n >= k
    <3>1. IsPrefix(At(k), l) /\ IsPath(l) /\ IsPath(At(k))
      BY <1>3, <2>1, <2>5
    <3>2. QED  BY <2>2, <2>4, <3>1, PrefixFurther
  <2>6. CASE n + 1 = k
    BY <2>2, <2>4, <2>6, PrefixSelf
  <2>7. CASE n + 1 < k
    BY <2>2, <2>4, <2>7
  <2>8. QED  BY <2>5, <2>6, <2>7
<1>4. Len(p) \in T
  <2>1. \A n \in 1 .. Len(p) : n \in T
    <3> HIDE DEF T
    <3>1. 1 \in Nat /\ Len(p) \in Nat
      BY <1>1
    <3>2. QED  BY <1>2, <1>3, <3>1, Climbs
  <2>2. Len(p) \in 1 .. Len(p)
    BY <1>1
  <2>3. QED  BY <2>1, <2>2
<1>5. SubSeq(p, 1, Len(p)) = p /\ Len(p) >= k
  BY <1>1, UptoFull DEF IsPath, Absolute
<1>6. QED  BY <1>4, <1>5

(* lexically_clean keeps an absolute path one.                              *)
IsCleaning(g, p, k) ==
  g = [n \in 0 .. k |->
         IF n = 0 THEN <<>> ELSE IF p[n] = "." THEN g[n - 1] ELSE Append(g[n - 1], p[n])]

LEMMA CleaningExists == ASSUME NEW p, NEW k \in Nat  PROVE \E g : IsCleaning(g, p, k)
<1> DEFINE T == {n \in Nat : \E g : IsCleaning(g, p, n)}
           On(l, c) == IF c = "." THEN l ELSE Append(l, c)
<1>1. 0 \in T
  <2>1. IsCleaning([n \in 0 .. 0 |-> <<>>], p, 0)
    BY DEF IsCleaning
  <2>2. QED  BY <2>1
<1>2. ASSUME NEW n \in 0 .. (k - 1), n \in T  PROVE n + 1 \in T
  <2>1. PICK g : IsCleaning(g, p, n)
    BY <1>2
  <2> DEFINE h == [i \in 0 .. (n + 1) |-> IF i = n + 1 THEN On(g[n], p[n + 1]) ELSE g[i]]
  <2>2. \A i \in 0 .. n : g[i] = IF i = 0 THEN <<>> ELSE On(g[i - 1], p[i])
    BY <2>1 DEF IsCleaning
  <2>3. ASSUME NEW i \in 0 .. (n + 1)
        PROVE  h[i] = IF i = 0 THEN <<>> ELSE On(h[i - 1], p[i])
    <3> HIDE DEF On
    <3>1. CASE i = n + 1
      <4>1. h[i - 1] = g[n] /\ i # 0
        BY <3>1
      <4>2. QED  BY <3>1, <4>1
    <3>2. CASE i # n + 1
      <4>1. i \in 0 .. n /\ h[i] = g[i]
        BY <3>2
      <4>2. i # 0 => h[i - 1] = g[i - 1]
        BY <4>1
      <4>3. QED  BY <2>2, <4>1, <4>2
    <3>3. QED  BY <3>1, <3>2
  <2>4. IsCleaning(h, p, n + 1)
    BY <2>3 DEF IsCleaning
  <2>5. QED  BY <2>4
<1>3. k \in T
  <2>1. \A n \in 0 .. k : n \in T
    <3> HIDE DEF T
    <3>1. QED  BY <1>1, <1>2, Climbs
  <2>2. QED  BY <2>1
<1>4. QED  BY <1>3

LEMMA CleanedIsPath == ASSUME NEW p, IsPath(p)  PROVE IsPath(Cleaned(p))
<1>1. Len(p) \in Nat /\ 1 \in 1 .. Len(p) /\ p[1] = "/"
  BY EmptyIsSeq, UptoFull DEF IsPath, Absolute, IsSeq
<1> DEFINE g == CHOOSE f : IsCleaning(f, p, Len(p))
           T == {n \in Nat : IsPath(g[n])}
<1>2. IsCleaning(g, p, Len(p)) /\ Cleaned(p) = g[Len(p)]
  <2>1. IsCleaning(g, p, Len(p))
    BY <1>1, CleaningExists
  <2>2. Cleaned(p) = g[Len(p)]
    BY Zenon DEF Cleaned, IsCleaning
  <2>3. QED  BY <2>1, <2>2
<1> HIDE DEF g
<1>3. \A n \in 0 .. Len(p) :
        g[n] = IF n = 0 THEN <<>> ELSE IF p[n] = "." THEN g[n - 1] ELSE Append(g[n - 1], p[n])
  BY <1>2 DEF IsCleaning
<1>4. 1 \in T
  <2>1. 0 \in 0 .. Len(p) /\ 1 \in 0 .. Len(p) /\ 1 - 1 = 0 /\ p[1] # "."
    BY <1>1
  <2>2. g[0] = <<>> /\ g[1] = Append(g[0], p[1])
    <3>1. g[0] = <<>>
      BY <1>3, <2>1
    <3>2. g[1] = Append(g[1 - 1], p[1])
      <4>1. ASSUME NEW n \in 0 .. Len(p), n # 0, p[n] # "."  PROVE g[n] = Append(g[n - 1], p[n])
        BY <1>3, <4>1, Zenon
      <4>2. 1 # 0
        OBVIOUS
      <4>3. QED  BY <2>1, <4>1, <4>2, Zenon
    <3>3. QED  BY <2>1, <3>1, <3>2
  <2>3. g[1] = <<"/">>
    BY <1>1, <2>2
  <2>4. QED  BY <2>3, RootIsPath
<1>5. ASSUME NEW n \in 1 .. (Len(p) - 1), n \in T  PROVE n + 1 \in T
  <2>1. n + 1 \in 0 .. Len(p) /\ n + 1 # 0 /\ n + 1 - 1 = n
    BY <1>1
  <2>2. g[n + 1] = IF p[n + 1] = "." THEN g[n] ELSE Append(g[n], p[n + 1])
    BY <1>3, <2>1
  <2>3. IsPath(g[n])
    BY <1>5
  <2>4. IsPath(g[n + 1])
    <3>1. IsPath(Append(g[n], p[n + 1]))
      BY <2>3, PathAppend
    <3>2. QED  BY <2>2, <2>3, <3>1
  <2>5. QED  BY <2>1, <2>4
<1>6. Len(p) \in T
  <2>1. \A n \in 1 .. Len(p) : n \in T
    <3> HIDE DEF T
    <3>1. 1 \in Nat
      OBVIOUS
    <3>2. QED  BY <1>1, <1>4, <1>5, <3>1, Climbs
  <2>2. Len(p) \in 1 .. Len(p)
    BY <1>1
  <2>3. QED  BY <2>1, <2>2
<1>7. QED  BY <1>2, <1>6

LEMMA ConcatAny ==
  ASSUME NEW s, NEW t, IsSeq(s), IsSeq(t)
  PROVE  /\ IsSeq(s \o t)
         /\ IsPath(s) => IsPath(s \o t)
<1>1. PICK S, T : s \in Seq(S) /\ t \in Seq(T)
  BY DEF IsSeq
<1>2. s \in Seq(S \cup T) /\ t \in Seq(S \cup T)
  BY <1>1, SeqMonotonic
<1>3. PICK u : u = s \o t
  OBVIOUS
<1>4. /\ u \in Seq(S \cup T) /\ Len(u) = Len(s) + Len(t)
      /\ \A i \in 1 .. Len(s) + Len(t) : u[i] = IF i <= Len(s) THEN s[i] ELSE t[i - Len(s)]
  BY <1>2, <1>3, ConcatProperties
<1>5. ASSUME IsPath(s)  PROVE u # <<>> /\ u[1] = "/"
  <2>1. 1 \in 1 .. Len(s) /\ s[1] = "/" /\ Len(s) \in Nat /\ Len(t) \in Nat
    BY <1>2, <1>5, UptoFull DEF IsPath, Absolute
  <2>2. 1 \in 1 .. Len(s) + Len(t) /\ 1 <= Len(s) /\ Len(u) # 0
    BY <1>4, <2>1
  <2>3. u[1] = "/"
    BY <1>4, <2>1, <2>2
  <2>4. QED  BY <2>2, <2>3, EmptyIsSeq
<1>6. QED  BY <1>3, <1>4, <1>5 DEF IsPath, IsSeq, Absolute

LEMMA JoinIsPath == ASSUME NEW cwd, IsPath(cwd), NEW p, IsSeq(p)  PROVE IsPath(Join(cwd, p))
<1>1. CASE Absolute(p)
  BY <1>1 DEF Join, IsPath
<1>2. CASE ~Absolute(p)
  <2>1. IsPath(cwd \o p)
    BY ConcatAny DEF IsPath
  <2>2. QED  BY <1>2, <2>1 DEF Join
<1>3. QED  BY <1>1, <1>2

LEMMA ExpandedIsSeq ==
  ASSUME NEW p, IsSeq(p), NEW names
  PROVE  /\ IsSeq(Expanded(p, HomeIn(names)))
         /\ Absolute(p) => Expanded(p, HomeIn(names)) = p
<1>1. PICK home : home = HomeIn(names)
  OBVIOUS
<1>2. IsSeq(home)
  BY <1>1, SandboxAssumption, EmptyIsSeq DEF HomeIn, IsSeq
<1>3. ASSUME p # <<>>  PROVE IsSeq(home \o Tail(p))
  <2>1. PICK S : p \in Seq(S)
    BY DEF IsSeq
  <2>2. Tail(p) \in Seq(S)
    BY <1>3, <2>1
  <2>3. IsSeq(Tail(p))
    BY <2>2 DEF IsSeq
  <2>4. QED  BY <1>2, <2>3, ConcatAny
<1>4. IsSeq(Expanded(p, home))
  BY <1>3 DEF Expanded
<1>5. Absolute(p) => Expanded(p, home) = p
  BY DEF Expanded, Absolute
<1>6. QED  BY <1>1, <1>4, <1>5

LEMMA PlanPathIsPath ==
  ASSUME NEW cwd, IsPath(cwd), NEW p, IsSeq(p)  PROVE IsPath(PlanPath(cwd, p))
BY ExpandedIsSeq, JoinIsPath DEF PlanPath

LEMMA PreparedPathIsPath ==
  ASSUME NEW cwd, NEW p, IsPath(p), NEW names  PROVE IsPath(PreparedPath(cwd, p, names))
<1>1. Join(cwd, Expanded(p, HomeIn(names))) = p
  BY ExpandedIsSeq DEF IsPath, Join
<1>2. QED  BY <1>1, CleanedIsPath DEF PreparedPath

-----------------------------------------------------------------------------
(* Anchors                                                                  *)

LEMMA AncestorsOf ==
  ASSUME NEW p, IsPath(p)
  PROVE  /\ p \in Ancestors(p) /\ Len(p) \in Nat
         /\ \A a \in Ancestors(p) :
              /\ IsPath(a) /\ Len(a) \in 1 .. Len(p) /\ a = SubSeq(p, 1, Len(a))
              /\ Ancestors(a) \subseteq Ancestors(p)
              /\ Len(a) = Len(p) => a = p
<1>1. IsSeq(p) /\ p # <<>> /\ p[1] = "/" /\ Len(p) \in Nat
  BY DEF IsPath, Absolute, IsSeq
<1>2. p \in Ancestors(p) /\ SubSeq(p, 1, Len(p)) = p
  <2>1. SubSeq(p, 1, Len(p)) = p /\ Len(p) \in 1 .. Len(p)
    BY <1>1, UptoFull
  <2>2. SubSeq(p, 1, Len(p)) \in Ancestors(p)
    BY <2>1 DEF Ancestors
  <2>3. QED  BY <2>1, <2>2
<1>3. ASSUME NEW a \in Ancestors(p)
      PROVE  /\ IsPath(a) /\ Len(a) \in 1 .. Len(p) /\ a = SubSeq(p, 1, Len(a))
             /\ Ancestors(a) \subseteq Ancestors(p)
  <2>1. PICK n \in 1 .. Len(p) : a = SubSeq(p, 1, n)
    BY DEF Ancestors
  <2>2. IsSeq(a) /\ Len(a) = n /\ \A i \in 1 .. n : a[i] = p[i]
    BY <1>1, <2>1, UptoAny
  <2>3. IsPath(a)
    <3>1. 1 \in 1 .. n /\ Len(a) # 0
      BY <1>1, <2>2
    <3>2. QED  BY <1>1, <2>2, <3>1, EmptyIsSeq DEF IsPath, Absolute
  <2>4. ASSUME NEW b \in Ancestors(a)  PROVE b \in Ancestors(p)
    <3>1. PICK k \in 1 .. n : b = SubSeq(a, 1, k)
      BY <2>2 DEF Ancestors
    <3>2. b = SubSeq(p, 1, k)
      BY <1>1, <2>1, <3>1, UptoUpto
    <3>3. k \in 1 .. Len(p)
      BY <1>1
    <3>4. QED  BY <3>2, <3>3 DEF Ancestors
  <2>5. QED  BY <2>1, <2>2, <2>3, <2>4
<1>4. QED  BY <1>1, <1>2, <1>3

RootHolds == <<"/">> \in DOMAIN tree /\ tree[<<"/">>].kind = "dir"

LEMMA TailAny ==
  ASSUME NEW s, IsSeq(s), s # <<>>
  PROVE  /\ IsSeq(Tail(s)) /\ Len(s) \in Nat \ {0} /\ Len(Tail(s)) = Len(s) - 1
         /\ \A i \in 1 .. (Len(s) - 1) : Tail(s)[i] = s[i + 1]
<1>1. PICK S : s \in Seq(S)
  BY DEF IsSeq
<1>2. /\ Tail(s) \in Seq(S) /\ Len(Tail(s)) = Len(s) - 1
      /\ \A i \in 1 .. Len(Tail(s)) : Tail(s)[i] = s[i + 1]
  BY <1>1, HeadTailProperties
<1>3. Len(s) \in Nat \ {0}
  BY <1>1
<1>4. QED  BY <1>2, <1>3 DEF IsSeq

(* A walk in the tree, step by step.                                        *)
Setout(p) == [at |-> <<"/">>, rest |-> Tail(p)]
From(t, S) == {OnWalk(t, s) : s \in S}
IsTrack(g, t, p, k) ==
  g = [n \in 0 .. k |-> IF n = 0 THEN {Setout(p)} ELSE From(t, g[n - 1])]

LEMMA TrackExists == ASSUME NEW t, NEW p, NEW k \in Nat  PROVE \E g : IsTrack(g, t, p, k)
<1> DEFINE T == {n \in Nat : \E g : IsTrack(g, t, p, n)}
<1>1. 0 \in T
  <2>1. IsTrack([n \in 0 .. 0 |-> {Setout(p)}], t, p, 0)
    BY DEF IsTrack
  <2>2. QED  BY <2>1
<1>2. ASSUME NEW n \in 0 .. (k - 1), n \in T  PROVE n + 1 \in T
  <2>1. PICK g : IsTrack(g, t, p, n)
    BY <1>2
  <2> DEFINE h == [i \in 0 .. (n + 1) |-> IF i = n + 1 THEN From(t, g[n]) ELSE g[i]]
  <2>2. \A i \in 0 .. n : g[i] = IF i = 0 THEN {Setout(p)} ELSE From(t, g[i - 1])
    BY <2>1 DEF IsTrack
  <2>3. ASSUME NEW i \in 0 .. (n + 1)
        PROVE  h[i] = IF i = 0 THEN {Setout(p)} ELSE From(t, h[i - 1])
    <3>1. CASE i = n + 1
      <4>1. h[i - 1] = g[n] /\ i # 0
        BY <3>1
      <4>2. QED  BY <3>1, <4>1
    <3>2. CASE i # n + 1
      <4>1. i \in 0 .. n /\ h[i] = g[i]
        BY <3>2
      <4>2. i # 0 => h[i - 1] = g[i - 1]
        BY <4>1
      <4>3. QED  BY <2>2, <4>1, <4>2
    <3>3. QED  BY <3>1, <3>2
  <2>4. IsTrack(h, t, p, n + 1)
    BY <2>3 DEF IsTrack
  <2>5. QED  BY <2>4
<1>3. \A n \in 0 .. k : n \in T
  <2> HIDE DEF T
  <2>1. QED  BY <1>1, <1>2, Climbs
<1>4. QED  BY <1>3

(* The walk ends where one of that many steps does.                         *)
LEMMA WalkIsTrack ==
  ASSUME NEW t, NEW p
  PROVE  /\ MaxSteps \in Nat
         /\ \E g : /\ WalkEnds(t, p) = g[MaxSteps] /\ g[0] = {Setout(p)}
                  /\ \A n \in 0 .. (MaxSteps - 1) : g[n + 1] = From(t, g[n])
<1> DEFINE on == CHOOSE g : IsTrack(g, t, p, MaxSteps)
<1>1. MaxSteps \in Nat
  BY SandboxAssumption
<1>2. IsTrack(on, t, p, MaxSteps)
  BY <1>1, TrackExists
<1>3. WalkEnds(t, p) = on[MaxSteps]
  BY Zenon DEF WalkEnds, IsTrack, Setout, From
<1>4. \A n \in 0 .. MaxSteps :
        on[n] = IF n = 0 THEN {Setout(p)} ELSE From(t, on[n - 1])
  BY <1>2 DEF IsTrack
<1> HIDE DEF on
<1>5. on[0] = {Setout(p)}
  <2>1. 0 \in 0 .. MaxSteps
    BY <1>1
  <2>2. QED  BY <1>4, <2>1
<1>6. ASSUME NEW n \in 0 .. (MaxSteps - 1)  PROVE on[n + 1] = From(t, on[n])
  <2>1. n + 1 \in 0 .. MaxSteps /\ n + 1 # 0 /\ n + 1 - 1 = n
    BY <1>1
  <2>2. QED  BY <1>4, <2>1
<1>7. QED  BY <1>1, <1>3, <1>5, <1>6

LEMMA RootIsThere ==
  ASSUME RootHolds, NEW p, IsPath(p)
  PROVE  SubSeq(p, 1, 1) \in Ancestors(p) /\ There(SubSeq(p, 1, 1))
<1>1. PICK q : q = SubSeq(p, 1, 1)
  OBVIOUS
<1>2. 1 \in 1 .. Len(p)
  BY LocationWalks DEF IsPath
<1>3. q \in Ancestors(p) /\ IsSeq(q) /\ Len(q) = 1
  BY <1>1, <1>2, UptoAny DEF Ancestors, IsPath
<1>4. Tail(q) = <<>>
  <2>1. IsSeq(Tail(q)) /\ Len(Tail(q)) = 0
    BY <1>3, TailAny, EmptyIsSeq
  <2>2. PICK S : Tail(q) \in Seq(S)
    BY <2>1 DEF IsSeq
  <2>3. QED  BY <2>1, <2>2, EmptySeq
<1>5. WalkEnds(tree, q) = {Setout(q)}
  <2>1. OnWalk(tree, Setout(q)) = Setout(q)
    BY <1>4 DEF OnWalk, Setout
  <2>2. PICK g : /\ WalkEnds(tree, q) = g[MaxSteps] /\ g[0] = {Setout(q)}
                 /\ \A n \in 0 .. (MaxSteps - 1) : g[n + 1] = From(tree, g[n])
    BY WalkIsTrack
  <2> DEFINE T == {n \in Nat : g[n] = {Setout(q)}}
  <2>3. MaxSteps \in Nat /\ 0 \in Nat /\ 0 \in T
    BY <2>2, WalkIsTrack
  <2>4. ASSUME NEW n \in 0 .. (MaxSteps - 1), n \in T  PROVE n + 1 \in T
    <3>1. g[n + 1] = {OnWalk(tree, s) : s \in {Setout(q)}}
      BY <2>2, <2>4 DEF From
    <3>2. n + 1 \in Nat
      BY <2>3
    <3>3. QED  BY <2>1, <3>1, <3>2
  <2>5. \A n \in 0 .. MaxSteps : n \in T
    <3> HIDE DEF T
    <3>1. QED  BY <2>3, <2>4, Climbs
  <2>6. QED  BY <2>2, <2>3, <2>5
<1>6. Setout(q) \in WalkEnds(tree, q) /\ Setout(q).rest = <<>> /\ Setout(q).at \in DOMAIN tree
  BY <1>4, <1>5 DEF Setout, RootHolds
<1>7. There(q)
  BY <1>6 DEF There, Where
<1>8. QED  BY <1>1, <1>3, <1>7

(* Over no link, a path leads to the location it names, if anywhere.        *)
LEMMA StraightLeads ==
  ASSUME NEW t, NEW p, IsPath(p),
         \A a \in Ancestors(p) : Opened(a) \in DOMAIN t => t[Opened(a)].kind # "link"
  PROVE  Where(t, p) \subseteq {Opened(p)}
<1> DEFINE Come(s, j) ==
             /\ s.at = Opened(SubSeq(p, 1, j)) /\ IsSeq(s.rest) /\ Len(s.rest) = Len(p) - j
             /\ \A i \in 1 .. (Len(p) - j) : s.rest[i] = p[j + i]
<1>1. /\ IsSeq(p) /\ Absolute(p) /\ p # <<>> /\ Len(p) \in Nat /\ 1 \in 1 .. Len(p)
      /\ Opened(SubSeq(p, 1, 1)) = <<"/">>
      /\ \A n \in 1 .. (Len(p) - 1) :
           Opened(SubSeq(p, 1, n + 1)) = Into(Opened(SubSeq(p, 1, n)), p[n + 1])
  <2>1. IsSeq(p) /\ Absolute(p) /\ p # <<>> /\ Len(p) \in Nat
    BY DEF IsPath, Absolute, IsSeq
  <2>2. QED  BY <2>1, LocationWalks DEF Opened
<1>2. SubSeq(p, 1, Len(p)) = p
  BY <1>1, UptoFull
<1>3. Come(Setout(p), 1)
  <2>1. /\ IsSeq(Tail(p)) /\ Len(Tail(p)) = Len(p) - 1
        /\ \A i \in 1 .. (Len(p) - 1) : Tail(p)[i] = p[i + 1]
    BY <1>1, TailAny
  <2>2. \A i \in 1 .. (Len(p) - 1) : i + 1 = 1 + i
    BY <1>1
  <2>3. Setout(p).at = <<"/">> /\ Setout(p).rest = Tail(p)
    BY DEF Setout
  <2>4. QED  BY <1>1, <2>1, <2>2, <2>3
<1>4. ASSUME NEW s, NEW j \in 1 .. Len(p), Come(s, j)
      PROVE  \E k \in 1 .. Len(p) : Come(OnWalk(t, s), k)
  <2>1. CASE s.rest = <<>> \/ s.at \notin DOMAIN t \/ t[s.at].kind # "dir"
    <3>1. OnWalk(t, s) = s
      BY <2>1 DEF OnWalk
    <3>2. QED  BY <1>4, <3>1
  <2>2. CASE ~(s.rest = <<>> \/ s.at \notin DOMAIN t \/ t[s.at].kind # "dir")
    <3>1. PICK l : l = Into(s.at, s.rest[1])
      OBVIOUS
    <3>2. /\ IsSeq(Tail(s.rest)) /\ Len(s.rest) \in Nat \ {0} /\ Len(Tail(s.rest)) = Len(s.rest) - 1
          /\ \A i \in 1 .. (Len(s.rest) - 1) : Tail(s.rest)[i] = s.rest[i + 1]
      BY <1>4, <2>2, TailAny
    <3>3. j + 1 \in 1 .. Len(p) /\ j \in 1 .. (Len(p) - 1) /\ 1 \in 1 .. (Len(p) - j)
      BY <1>1, <1>4, <3>2
    <3>4. s.rest[1] = p[j + 1] /\ s.at = Opened(SubSeq(p, 1, j))
      BY <1>4, <3>3
    <3>5. l = Opened(SubSeq(p, 1, j + 1))
      BY <1>1, <3>1, <3>3, <3>4
    <3>6. SubSeq(p, 1, j + 1) \in Ancestors(p)
      BY <3>3 DEF Ancestors
    <3>7. ~(l \in DOMAIN t /\ t[l].kind = "link")
      BY <3>5, <3>6
    <3>8. OnWalk(t, s) = [at |-> l, rest |-> Tail(s.rest)]
      BY <2>2, <3>1, <3>7 DEF OnWalk
    <3>9. OnWalk(t, s).at = l /\ OnWalk(t, s).rest = Tail(s.rest)
      BY <3>8
    <3>10. Len(Tail(s.rest)) = Len(p) - (j + 1)
      BY <1>1, <1>4, <3>2
    <3>11. ASSUME NEW i \in 1 .. (Len(p) - (j + 1))  PROVE Tail(s.rest)[i] = p[(j + 1) + i]
      <4>1. i \in 1 .. (Len(s.rest) - 1) /\ i + 1 \in 1 .. (Len(p) - j) /\ j + (i + 1) = (j + 1) + i
        BY <1>1, <1>4, <3>2
      <4>2. Tail(s.rest)[i] = s.rest[i + 1]
        BY <3>2, <4>1
      <4>3. s.rest[i + 1] = p[j + (i + 1)]
        BY <1>4, <4>1
      <4>4. QED  BY <4>1, <4>2, <4>3
    <3>12. Come(OnWalk(t, s), j + 1)
      BY <3>2, <3>5, <3>9, <3>10, <3>11
    <3>13. QED  BY <3>3, <3>12
  <2>3. QED  BY <2>1, <2>2
<1> HIDE DEF Come
<1>5. \A s \in WalkEnds(t, p) : \E j \in 1 .. Len(p) : Come(s, j)
  <2>1. PICK g : /\ WalkEnds(t, p) = g[MaxSteps] /\ g[0] = {Setout(p)}
                 /\ \A n \in 0 .. (MaxSteps - 1) : g[n + 1] = From(t, g[n])
    BY WalkIsTrack
  <2> DEFINE T == {n \in Nat : \A s \in g[n] : \E j \in 1 .. Len(p) : Come(s, j)}
  <2>2. MaxSteps \in Nat /\ 0 \in Nat /\ 0 \in T
    BY <1>1, <1>3, <2>1, WalkIsTrack
  <2>3. ASSUME NEW n \in 0 .. (MaxSteps - 1), n \in T  PROVE n + 1 \in T
    <3>1. g[n + 1] = {OnWalk(t, s) : s \in g[n]} /\ n + 1 \in Nat
      BY <2>1, <2>2 DEF From
    <3>2. ASSUME NEW e \in g[n + 1]  PROVE \E j \in 1 .. Len(p) : Come(e, j)
      <4>1. PICK s \in g[n] : e = OnWalk(t, s)
        BY <3>1
      <4>2. PICK j \in 1 .. Len(p) : Come(s, j)
        BY <2>3
      <4>3. QED  BY <1>4, <4>1, <4>2
    <3>3. QED  BY <3>1, <3>2
  <2>4. \A n \in 0 .. MaxSteps : n \in T
    <3> HIDE DEF T
    <3>1. QED  BY <2>2, <2>3, Climbs
  <2>5. QED  BY <2>1, <2>2, <2>4
<1>6. ASSUME NEW s \in WalkEnds(t, p), s.rest = <<>>  PROVE s.at = Opened(p)
  <2>1. PICK j \in 1 .. Len(p) : Come(s, j)
    BY <1>5
  <2>2. Len(s.rest) = Len(p) - j /\ s.at = Opened(SubSeq(p, 1, j))
    BY <2>1 DEF Come
  <2>3. j = Len(p)
    BY <1>1, <1>6, <2>2, EmptyIsSeq
  <2>4. QED  BY <1>2, <2>2, <2>3
<1>7. QED  BY <1>6 DEF Where

(* The anchor exists: the root is there.  Nothing on the path that is there *)
(* is nearer to it.                                                         *)
LEMMA AnchorIsNearest ==
  ASSUME RootHolds, NEW p, IsPath(p)
  PROVE  /\ NearestAnchor(p) \in Ancestors(p) /\ There(NearestAnchor(p))
         /\ \A b \in Ancestors(p) : There(b) => Len(b) <= Len(NearestAnchor(p))
<1> DEFINE D == {Len(p) - Len(a) : a \in {x \in Ancestors(p) : There(x)}}
<1>1. /\ Len(p) \in Nat
      /\ \A a \in Ancestors(p) : Len(a) \in 1 .. Len(p)
  BY AncestorsOf
<1>2. D \subseteq Nat /\ D # {}
  BY <1>1, RootIsThere
<1>3. PICK m \in D : \A n \in D : m <= n
  <2> HIDE DEF D
  <2>1. QED  BY <1>2, HasLeast
<1>4. PICK a \in Ancestors(p) : There(a) /\ m = Len(p) - Len(a)
  OBVIOUS
<1>5. \A b \in Ancestors(p) : There(b) => Len(b) <= Len(a)
  <2>1. SUFFICES ASSUME NEW b \in Ancestors(p), There(b)  PROVE Len(b) <= Len(a)
    OBVIOUS
  <2>2. Len(p) - Len(b) \in D
    BY <2>1
  <2>3. Len(p) - Len(a) <= Len(p) - Len(b)
    BY <1>3, <1>4, <2>2
  <2>4. QED  BY <1>1, <2>3
<1>6. \E x \in Ancestors(p) : There(x) /\ \A b \in Ancestors(p) : There(b) => Len(b) <= Len(x)
  BY <1>4, <1>5
<1>7. QED  BY <1>6, Zenon DEF NearestAnchor

(* An anchor for w: nothing nearer to w was there all the time; and where   *)
(* a right to write on behalf of w may be: where such an anchor has led.    *)
AnchorFor(a, w) ==
  /\ a \in Ancestors(w)
  /\ \A b \in Ancestors(w) : Len(b) > Len(a) => ~Lasted(b)
OnTheWay(l, w) == \E a \in Ancestors(w) : AnchorFor(a, w) /\ l \in HasLed(a)

LEMMA AnchorIsOnTheWay ==
  ASSUME RootHolds, NEW w, IsPath(w)
  PROVE  /\ AnchorFor(NearestAnchor(w), w)
         /\ Lasted(w) => NearestAnchor(w) = w
<1>1. PICK a : a = NearestAnchor(w)
  OBVIOUS
<1>2. /\ a \in Ancestors(w)
      /\ \A b \in Ancestors(w) : There(b) => Len(b) <= Len(a)
  BY <1>1, AnchorIsNearest
<1>3. /\ w \in Ancestors(w) /\ Len(w) \in Nat
      /\ \A b \in Ancestors(w) : Len(b) \in 1 .. Len(w)
      /\ Len(a) = Len(w) => a = w
  BY <1>2, AncestorsOf
<1>4. \A b \in Ancestors(w) : Len(b) > Len(a) => ~Lasted(b)
  <2>1. SUFFICES ASSUME NEW b \in Ancestors(w), Len(b) > Len(a), Lasted(b)  PROVE FALSE
    OBVIOUS
  <2>2. Len(b) <= Len(a)
    BY <1>2, <2>1 DEF Lasted
  <2>3. QED  BY <1>2, <1>3, <2>1, <2>2
<1>5. Lasted(w) => a = w
  <2>1. SUFFICES ASSUME Lasted(w)  PROVE a = w
    OBVIOUS
  <2>2. Len(w) <= Len(a) /\ Len(a) \in 1 .. Len(w)
    BY <1>2, <1>3, <2>1 DEF Lasted
  <2>3. QED  BY <1>3, <2>2
<1>6. QED  BY <1>1, <1>2, <1>4, <1>5 DEF AnchorFor

(* Where it has led over no link, it lies where it is named, and above the  *)
(* path it was opened for unless that goes back.                            *)
LEMMA StraightHasLed ==
  ASSUME NEW w, IsPath(w), Straight(w), NEW a \in Ancestors(w), NEW l \in HasLed(a)
  PROVE  l = Opened(a) /\ (~Contains(w, "..") => IsPrefix(l, Opened(w)))
<1>1. IsPath(a) /\ Ancestors(a) \subseteq Ancestors(w) /\ Len(a) \in 1 .. Len(w) /\ a = SubSeq(w, 1, Len(a))
  BY AncestorsOf
<1>2. PICK t \in seen : l \in Where(t, a)
  BY DEF HasLed
<1>3. \A b \in Ancestors(a) : Opened(b) \in DOMAIN t => t[Opened(b)].kind # "link"
  BY <1>1 DEF Straight
<1>4. Where(t, a) \subseteq {Opened(a)}
  BY <1>1, <1>3, StraightLeads
<1>5. l = Opened(a)
  BY <1>2, <1>4
<1>6. ~Contains(w, "..") => IsPrefix(Opened(a), Opened(w))
  BY <1>1, LocationDescends DEF Opened
<1>7. QED  BY <1>5, <1>6

-----------------------------------------------------------------------------
(* The paths of the plan                                                    *)

SoundOwn(own) == \A f \in Lists \cap DOMAIN own : \A p \in own[f] : IsSeq(p)

(* What is merged, resolved and planned are paths and patterns, the planned *)
(* paths absolute; and nobody removes the root.                             *)
PlanIsSound ==
  /\ {"read", "write", "scrub", "passthrough"} \subseteq DOMAIN plan
  /\ \A p \in plan.read \cup plan.write : IsPath(p)
  /\ \A p \in plan.scrub \cup plan.passthrough : IsSeq(p)
PathsHold ==
  /\ disk \in Disks
  /\ \A i \in 1 .. Len(frames) : SoundOwn(frames[i].own)
  /\ step = "unwind" => SoundOwn(merged)
  /\ outcome = "ok" => \A f \in Lists : \A p \in resolved[f] : IsSeq(p)
  /\ stage # "idle" => PlanIsSound
  /\ RootHolds

LEMMA LoadIsSound ==
  ASSUME disk \in Disks, NEW e, Load(e).kind = "profile"
  PROVE  SoundOwn(Load(e).own)
<1>1. IsProfile(Load(e))
  <2>1. CASE e.builtin
    BY <2>1, ResolverAssumption DEF Load, IsBuiltin
  <2>2. CASE ~e.builtin
    <3>1. Exists(FilePath(e))
      BY <2>2 DEF Load
    <3>2. Location(WorkDir, FilePath(e)) \in DOMAIN disk
      BY <3>1 DEF Exists
    <3>3. IsContent(disk[Location(WorkDir, FilePath(e))])
      BY <3>2, ResolverAssumption DEF IsDisk
    <3>4. QED  BY <2>2, <3>1, <3>3 DEF Load, IsContent
  <2>3. QED  BY <2>1, <2>2
<1>2. PICK own : own = Load(e).own
  OBVIOUS
<1>3. \A f \in Lists \cap DOMAIN own : own[f] \subseteq Seq(STRING)
  BY <1>1, <1>2 DEF IsProfile
<1>4. QED  BY <1>2, <1>3 DEF SoundOwn, IsSeq

LEMMA MergedIsSound ==
  ASSUME NEW base, NEW overlay, SoundOwn(base), SoundOwn(overlay)
  PROVE  SoundOwn(Merge(base, overlay))
BY DEF SoundOwn, Merge

LEMMA AddedIsSound == ASSUME NEW f \in Lists, NEW p \in Added(f)  PROVE IsSeq(p)
<1>1. /\ IsSeq(<<"NPM_CONFIG_CACHE">>) /\ IsSeq(<<"PIP_CACHE_DIR">>) /\ IsSeq(<<"~">>) /\ IsSeq(<<".npm">>) /\ IsSeq(<<".pnpm-store">>) /\ IsSeq(<<".cache", "pip">>)
      /\ IsSeq(<<".", "node_modules">>) /\ IsSeq(<<".", ".venv">>)
  <2>1. ASSUME NEW c, NEW d  PROVE IsSeq(<<c>>) /\ IsSeq(<<c, d>>)
    <3>1. <<c>> \in Seq({c, d}) /\ <<c, d>> \in Seq({c, d})
      OBVIOUS
    <3>2. QED  BY <3>1 DEF IsSeq
  <2>2. QED  BY <2>1
<1>2. /\ IsSeq(Home(<<".npm">>)) /\ IsSeq(Home(<<".pnpm-store">>)) /\ IsSeq(Home(<<".cache", "pip">>))
  BY <1>1, ConcatAny DEF Home
<1>3. \A stack : \A q \in Caches(stack) : IsSeq(q)
  BY <1>2 DEF Caches
<1>4. CASE asked # <<>>
  BY <1>4 DEF Added
<1>5. CASE asked = <<>>
  <2>1. CASE f = "read"
    <3>1. p \in Caches(DetectStack)
      BY <1>5, <2>1 DEF Added
    <3>2. QED  BY <1>3, <3>1
  <2>2. CASE f = "write"
    <3>1. Added(f) =
            Caches(DetectStack) \cup (CASE DetectStack = "node" -> {<<".", "node_modules">>}
                                       [] DetectStack = "python" -> {<<".", ".venv">>}
                                       [] OTHER -> {})
      BY <1>5, <2>2 DEF Added
    <3>2. \/ p \in Caches(DetectStack)
          \/ p = <<".", "node_modules">>
          \/ p = <<".", ".venv">>
      BY <3>1
    <3>3. QED  BY <1>1, <1>3, <3>2
  <2>3. CASE f = "passthrough"
    <3>1. Added(f) = CASE DetectStack = "node" -> {<<"NPM_CONFIG_CACHE">>}
                       [] DetectStack = "python" -> {<<"PIP_CACHE_DIR">>}
                       [] OTHER -> {}
      BY <1>5, <2>3 DEF Added
    <3>2. p = <<"NPM_CONFIG_CACHE">> \/ p = <<"PIP_CACHE_DIR">>
      BY <3>1
    <3>3. QED  BY <1>1, <3>2
  <2>4. CASE f = "scrub"
    BY <1>5, <2>4 DEF Added
  <2>5. QED  BY <2>1, <2>2, <2>3, <2>4 DEF Lists
<1>6. QED  BY <1>4, <1>5

LEMMA ResolvedIsSound ==
  ASSUME NEW own, SoundOwn(own), NEW name
  PROVE  \A f \in Lists : \A p \in Resolved(own, name)[f] : IsSeq(p)
<1>1. \A f \in Lists : Resolved(own, name)[f] =
        (IF f \in DOMAIN own THEN own[f] ELSE {}) \cup Added(f)
  BY DEF Resolved, Fields, Lists
<1>2. QED  BY <1>1, AddedIsSound DEF SoundOwn

LEMMA PathsResolve ==
  ASSUME PathsHold, EntriesHold, ResolverNext, UNCHANGED <<sandboxVars, flag>>
  PROVE  PathsHold'
<1>1. /\ disk' = disk /\ disk' \in Disks /\ RootHolds'
      /\ (stage # "idle" => PlanIsSound)'
  BY DEF PathsHold, PlanIsSound, RootHolds, ResolverNext, Choose, Enter, EnterLast, EnterFails, Unwind, Finish,
         sandboxVars, launchVars, treeVars
<1> DEFINE Framed == \A i \in 1 .. Len(frames) : SoundOwn(frames[i].own)
           Unwound == step = "unwind" => SoundOwn(merged)
           Granted0 == outcome = "ok" => \A f \in Lists : \A p \in resolved[f] : IsSeq(p)
<1>2. CASE Choose
  <2>1. Framed' /\ Unwound'
    BY <1>2 DEF Choose, Call, Fail, PathsHold
  <2>2. Granted0'
    <3>1. outcome' = outcome \/ outcome' = CommunityError(asked[1])
      BY <1>2 DEF Choose, Call, Fail
    <3>2. CommunityError(asked[1]) # "ok"
      BY DEF CommunityError
    <3>3. resolved' = resolved
      BY <1>2 DEF Choose
    <3>4. QED  BY <3>1, <3>2, <3>3 DEF PathsHold
  <2>3. QED  BY <1>1, <2>1, <2>2 DEF PathsHold
<1>3. CASE Enter
  <2> DEFINE frame == [entry |-> next, id |-> FilePath(next), own |-> Load(next).own]
  <2>1. /\ frames' = Append(frames, frame) /\ step' = "enter" /\ outcome' = outcome
        /\ resolved' = resolved /\ Load(next).kind = "profile"
    BY <1>3 DEF Enter, Call
  <2>2. SoundOwn(frame.own)
    BY <2>1, LoadIsSound DEF PathsHold
  <2>3. /\ Len(frames) \in Nat /\ Len(frames') = Len(frames) + 1
        /\ \A i \in 1 .. Len(frames) : frames'[i] = frames[i]
        /\ frames'[Len(frames) + 1] = frame
    <3> HIDE DEF frame
    <3>1. QED  BY <2>1, AppendAny DEF EntriesHold
  <2>4. Framed'
    <3> HIDE DEF frame
    <3>1. \A i \in 1 .. Len(frames') : i \in 1 .. Len(frames) \/ i = Len(frames) + 1
      BY <2>3
    <3>2. QED  BY <2>2, <2>3, <3>1 DEF PathsHold
  <2>5. QED  BY <1>1, <2>1, <2>4 DEF PathsHold
<1>4. CASE EnterLast
  <2>1. /\ frames' = frames /\ outcome' = outcome /\ resolved' = resolved
        /\ merged' = Load(next).own /\ Load(next).kind = "profile"
    BY <1>4 DEF EnterLast
  <2>2. SoundOwn(merged')
    BY <2>1, LoadIsSound DEF PathsHold
  <2>3. QED  BY <1>1, <2>1, <2>2 DEF PathsHold
<1>5. CASE EnterFails
  <2>1. frames' = frames /\ resolved' = resolved /\ step' = "resolved" /\ outcome' # "ok"
    BY <1>5 DEF EnterFails, Fail
  <2>2. QED  BY <1>1, <2>1 DEF PathsHold
<1>6. CASE Unwind
  <2>1. /\ frames # <<>> /\ frames' = Front(frames) /\ merged' = Merge(merged, Last(frames).own)
        /\ step = "unwind" /\ outcome' = outcome /\ resolved' = resolved
    BY <1>6 DEF Unwind
  <2>2. /\ Len(frames) \in Nat \ {0} /\ Len(frames') = Len(frames) - 1
        /\ \A i \in 1 .. (Len(frames) - 1) : frames'[i] = frames[i]
        /\ Last(frames) = frames[Len(frames)]
    BY <2>1, FrontAny DEF EntriesHold
  <2>3. SoundOwn(merged')
    <3>1. Len(frames) \in 1 .. Len(frames)
      BY <2>2
    <3>2. QED  BY <2>1, <2>2, <3>1, MergedIsSound DEF PathsHold
  <2>4. Framed'
    BY <2>2 DEF PathsHold
  <2>5. QED  BY <1>1, <2>1, <2>3, <2>4 DEF PathsHold
<1>7. CASE Finish
  <2>1. /\ frames' = frames /\ step' = "resolved"
        /\ \/ outcome' # "ok"
           \/ resolved' = Resolved(merged, Last(Chosen.ref)) /\ step = "unwind"
    BY <1>7 DEF Finish, Fail
  <2>2. Granted0'
    BY <2>1, ResolvedIsSound DEF PathsHold
  <2>3. QED  BY <1>1, <2>1, <2>2 DEF PathsHold
<1>8. QED  BY <1>2, <1>3, <1>4, <1>5, <1>6, <1>7 DEF ResolverNext

LEMMA PathsStep == ASSUME PathsHold, EntriesHold, [Next]_vars  PROVE PathsHold'
<1>1. CASE Resolve
  BY <1>1, PathsResolve DEF Resolve
<1>2. CASE Plan
  <2>1. /\ UNCHANGED resolverVars /\ tree' = tree /\ outcome = "ok"
        /\ plan' = Planned(resolved, ExecutionDir)
    BY <1>2 DEF Plan, BuildPlan
  <2>2. IsPath(ExecutionDir)
    <3>1. IsLocation(CopyDir) /\ IsLocation(WorkDir)
      BY LaunchAssumption, ResolverAssumption
    <3>2. QED  BY <3>1 DEF ExecutionDir, IsLocation, IsPath, IsSeq
  <2>3. ASSUME NEW p \in plan'.read \cup plan'.write  PROVE IsPath(p)
    <3>1. PICK q \in resolved["read"] \cup resolved["write"] : p = PlanPath(ExecutionDir, q)
      BY <2>1, <2>3 DEF Planned
    <3>2. IsSeq(q)
      BY <2>1, <3>1 DEF PathsHold, Lists
    <3>3. QED  BY <2>1, <2>2, <3>1, <3>2, PlanPathIsPath
  <2>4. {"read", "write", "scrub", "passthrough"} \subseteq DOMAIN plan'
    BY <2>1 DEF Planned
  <2>5. \A p \in plan'.scrub \cup plan'.passthrough : IsSeq(p)
    BY <2>1 DEF Planned, PathsHold, Lists
  <2>6. PlanIsSound'
    BY <2>3, <2>4, <2>5 DEF PlanIsSound
  <2>7. QED  BY <2>1, <2>6 DEF PathsHold, RootHolds, resolverVars
<1>3. CASE Launch /\ Prepare
  <2>1. UNCHANGED resolverVars /\ tree' = tree /\ PlanIsSound
    BY <1>3 DEF Launch, Prepare, treeVars, PathsHold
  <2>2. PICK names : plan' = [plan EXCEPT
            !.read = {PreparedPath(plan.cwd, p, names) : p \in plan.read},
            !.write = {PreparedPath(plan.cwd, p, names) : p \in plan.write}]
    BY <1>3 DEF Prepare
  <2>3. /\ plan'.write = {PreparedPath(plan.cwd, p, names) : p \in plan.write}
        /\ plan'.read = {PreparedPath(plan.cwd, p, names) : p \in plan.read}
        /\ DOMAIN plan' = DOMAIN plan /\ plan'.scrub = plan.scrub /\ plan'.passthrough = plan.passthrough
    BY <2>1, <2>2 DEF PlanIsSound
  <2>4. \A p \in plan'.read \cup plan'.write : IsPath(p)
    BY <2>1, <2>3, PreparedPathIsPath DEF PlanIsSound
  <2>5. PlanIsSound'
    BY <2>1, <2>3, <2>4 DEF PlanIsSound
  <2>6. QED  BY <2>1, <2>5 DEF PathsHold, RootHolds, resolverVars
<1>4. CASE Launch /\ ~Prepare
  <2>1. /\ UNCHANGED resolverVars /\ tree' = tree /\ plan' = plan /\ (stage' # "idle" => stage # "idle")
    BY <1>4 DEF Launch, LaunchNext, LaunchSteps, treeVars, StartProxy, Probe, ScanWrite, OpenWrites,
       OpenWrite, ScanReads, ScanRead, OpenReads, OpenRead, BuildFilter, ApplyLimits, CreateRuleset,
       AddRules, RestrictSelf, InstallFilter, HandOver, Exec, KernelRefuses, Forked
  <2>2. QED  BY <2>1 DEF PathsHold, PlanIsSound, RootHolds, resolverVars
<1>5. CASE Others
  <2>1. UNCHANGED <<resolverVars, plan, stage>>
    BY <1>5 DEF Others, OtherNext, Appear, Disappear, launchVars
  <2>2. RootHolds'
    BY <1>5 DEF Others, OtherNext, Appear, Disappear, RootHolds, PathsHold
  <2>3. QED  BY <2>1, <2>2 DEF PathsHold, PlanIsSound, resolverVars
<1>6. CASE UNCHANGED vars
  BY <1>6 DEF PathsHold, PlanIsSound, RootHolds, vars, resolverVars, sandboxVars, launchVars, treeVars
<1>7. QED  BY <1>1, <1>2, <1>3, <1>4, <1>5, <1>6 DEF Next

(* The root of the tree is there before there is a plan, and later.         *)
LEMMA PathsInit == Init => PathsHold
<1>1. Init => RootHolds
  BY SandboxAssumption DEF Init, SandboxInit, RootHolds
<1>2. Init => 1 .. Len(frames) = {}
  BY EmptyIsSeq DEF Init, ResolverInit
<1>3. QED  BY <1>1, <1>2 DEF Init, ResolverInit, SandboxInit, PathsHold

(* Whatever other processes create and remove between the lookups and the   *)
(* openings, links among it, for any profile and any number of changes: the *)
(* child reads only beneath where the paths of its plan and of the system   *)
(* led, which over no link is where they are.                               *)
THEOREM ReadsStayNamed == Spec => []ReadsAreNamed
<1>1. Init => NamesHold /\ SeenHolds
  BY DEF Init, SandboxInit, NamesHold, SeenHolds
<1>2. NamesHold /\ ChildHolds /\ PathsHold => ReadsAreNamed
  <2> SUFFICES ASSUME NamesHold, ChildHolds, PathsHold, stage = "running",
                      NEW r \in child.rules, r.access \cap ReadMask # {}
               PROVE  \E p \in NamedPaths : r.at \in HasLed(p) /\ (Straight(p) => r.at = Opened(p))
    BY DEF ReadsAreNamed
  <2>1. PICK g \in grants : r = Rule(g)
    BY DEF ChildHolds, Ruled, Restricted, Filtering
  <2>2. g.kind # "write"
    <3>1. ASSUME g.kind = "write"  PROVE r.access \subseteq WriteMask
      BY <2>1, <3>1 DEF Rule, AccessFor
    <3>2. WriteMask \cap ReadMask = {}
      BY DEF WriteMask, ReadMask
    <3>3. QED  BY <3>1, <3>2
  <2>3. r.at = g.at
    BY <2>1 DEF Rule
  <2>4. PICK p \in NamedPaths : r.at \in HasLed(p)
    BY <2>2, <2>3 DEF NamesHold, Readable
  <2>5. IsPath(p)
    <3>1. CASE p \in SystemPaths
      BY <3>1, SandboxAssumption DEF IsLocation, IsPath, IsSeq
    <3>2. CASE p \notin SystemPaths
      BY <3>2 DEF PathsHold, PlanIsSound, NamedPaths
    <3>3. QED  BY <3>1, <3>2
  <2>6. p \in Ancestors(p)
    BY <2>5, AncestorsOf
  <2>7. Straight(p) => r.at = Opened(p)
    BY <2>4, <2>5, <2>6, StraightHasLed
  <2>8. QED  BY <2>4, <2>7
<1>3. NamesHold /\ SeenHolds /\ [Next]_vars => NamesHold' /\ SeenHolds'
  BY NamesStep, SeenStep
<1>4. Init => ChildHolds
  BY DEF Init, SandboxInit, ChildHolds, Unconfined, Stages, Limited, Ruled, Restricted, Filtering
<1>5. PathsHold /\ EntriesHold /\ [Next]_vars => PathsHold' /\ EntriesHold'
  BY PathsStep, EntriesStep
<1>6. QED  BY <1>1, <1>2, <1>3, <1>4, <1>5, ChildStep, PathsInit, EntriesInit, PTL DEF Spec

-----------------------------------------------------------------------------
(* What the child may write, and what it may read and write at least        *)

Granted(p, kind) == \E g \in grants : g.at \in Where(tree, p) /\ g.kind = kind
Sound(l) == \E w \in plan.write : OnTheWay(l, w)
Anchoring(a) == \E w \in plan.write : AnchorFor(a, w)

(* A path that has lasted is still to come in the present loop, or was kept *)
(* by it; and every anchor kept is on the way to a writable path.           *)
WriteScanHolds ==
  stage = "write_scan" =>
    /\ todo \subseteq plan.write
    /\ \A a \in anchors : Anchoring(a)
    /\ \A w \in plan.write : Lasted(w) => w \in todo \/ w \in anchors
WriteOpenHolds ==
  stage = "write_open" =>
    /\ \A a \in todo : Anchoring(a)
    /\ \A w \in plan.write : Lasted(w) => w \in todo \/ Granted(w, "write")
WrittenHolds ==
  stage \in {"read_scan", "read_open"} \cup Stages =>
    \A w \in plan.write : Lasted(w) => Granted(w, "write")
ReadScanHolds ==
  stage = "read_scan" => \A p \in NamedPaths : Lasted(p) => p \in todo \/ p \in anchors
ReadOpenHolds ==
  stage = "read_open" => \A p \in NamedPaths : Lasted(p) => p \in todo \/ Granted(p, "read")
ReadHolds == stage \in Stages => \A p \in NamedPaths : Lasted(p) => Granted(p, "read")

GrantsHold ==
  /\ WriteScanHolds /\ WriteOpenHolds /\ WrittenHolds
  /\ ReadScanHolds /\ ReadOpenHolds /\ ReadHolds
  /\ \A g \in grants : g.kind = "write" => Sound(g.at)

(* What has lasted after a step has lasted before it, in the same place.    *)
LEMMA LastingFades ==
  ASSUME tree \in seen, seen \subseteq seen', tree' \in seen', NEW p, Lasted(p)'
  PROVE  Lasted(p) /\ Where(tree', p) = Where(tree, p)
<1>1. Where(tree', p) # {} /\ \A t \in seen' : Where(t, p) = Where(tree', p)
  BY DEF Lasted, There
<1>2. \A t \in seen : Where(t, p) = Where(tree', p)
  BY <1>1
<1>3. Where(tree, p) = Where(tree', p)
  BY <1>2
<1>4. QED  BY <1>1, <1>2, <1>3 DEF Lasted, There

LEMMA Fading ==
  ASSUME plan' = plan, tree \in seen, tree' \in seen', seen \subseteq seen'
  PROVE  /\ \A p : Lasted(p)' => Lasted(p) /\ Where(tree', p) = Where(tree, p)
         /\ NamedPaths' = NamedPaths
         /\ \A a : Anchoring(a) => Anchoring(a)'
         /\ \A l : Sound(l) => Sound(l)'
<1>1. \A p : Lasted(p)' => Lasted(p) /\ Where(tree', p) = Where(tree, p)
  BY LastingFades
<1>2. \A a, w : AnchorFor(a, w) => AnchorFor(a, w)'
  BY <1>1 DEF AnchorFor
<1>3. \A p : HasLed(p) \subseteq HasLed(p)'
  BY DEF HasLed
<1>4. \A l, w : OnTheWay(l, w) => OnTheWay(l, w)'
  BY <1>2, <1>3 DEF OnTheWay
<1>5. QED  BY <1>1, <1>2, <1>4 DEF Sound, Anchoring, NamedPaths

LEMMA GrantsFade ==
  ASSUME GrantsHold, UNCHANGED <<stage, plan, todo, anchors, grants>>,
         tree \in seen, tree' \in seen', seen \subseteq seen'
  PROVE  GrantsHold'
<1>1. /\ \A p : Lasted(p)' => Lasted(p) /\ Where(tree', p) = Where(tree, p)
      /\ NamedPaths' = NamedPaths
      /\ \A a : Anchoring(a) => Anchoring(a)'
      /\ \A l : Sound(l) => Sound(l)'
  BY Fading
<1>2. \A p, kind : Lasted(p)' /\ Granted(p, kind) => Granted(p, kind)'
  BY <1>1 DEF Granted
<1>3. WriteScanHolds' /\ WriteOpenHolds' /\ WrittenHolds'
  BY <1>1, <1>2 DEF GrantsHold, WriteScanHolds, WriteOpenHolds, WrittenHolds
<1>4. ReadScanHolds' /\ ReadOpenHolds' /\ ReadHolds'
  BY <1>1, <1>2 DEF GrantsHold, ReadScanHolds, ReadOpenHolds, ReadHolds
<1>5. \A g \in grants' : g.kind = "write" => Sound(g.at)'
  BY <1>1 DEF GrantsHold
<1>6. QED  BY <1>3, <1>4, <1>5 DEF GrantsHold

LEMMA GrantsAreThere ==
  ASSUME NEW p, There(p), NEW kind
  PROVE  \E g \in Grants(p, kind) : g.at \in Where(tree, p) /\ g.kind = kind
<1>1. PICK l : l \in Where(tree, p)
  BY DEF There
<1>2. [at |-> l, dir |-> tree[l].kind = "dir", kind |-> kind] \in Grants(p, kind)
  BY <1>1 DEF Grants
<1>3. QED  BY <1>1, <1>2

(* The loops over the writable paths.                                       *)
LEMMA GrantsWrite ==
  ASSUME GrantsHold, NamesHold, PathsHold, tree \in seen, UNCHANGED <<plan, tree, seen>>,
         Probe \/ ScanWrite \/ OpenWrites \/ OpenWrite
  PROVE  GrantsHold'
<1>1. \A p : Lasted(p)' <=> Lasted(p)
  BY DEF Lasted, There
<1>2. /\ \A a : Anchoring(a) => Anchoring(a)'
      /\ \A l : Sound(l) => Sound(l)'
      /\ NamedPaths' = NamedPaths
  BY Fading
<1>3. (\A g \in grants' : g.kind = "write" => Sound(g.at)')
        /\ stage' \in {"failed", "write_scan", "write_open"}
  <2>1. CASE UNCHANGED grants
    BY <1>2, <2>1 DEF GrantsHold, Probe, ScanWrite, OpenWrites, OpenWrite, Go, GiveUp
  <2>2. CASE ~UNCHANGED grants
    <3>1. stage = "write_open" /\ stage' = stage
          /\ \E p \in todo : grants' = grants \cup Grants(p, "write")
      BY <2>2 DEF Probe, ScanWrite, OpenWrites, OpenWrite, GiveUp
    <3>2. PICK p \in todo : grants' = grants \cup Grants(p, "write")
      BY <3>1
    <3>3. ASSUME NEW g \in Grants(p, "write")  PROVE Sound(g.at)
      <4>1. Anchoring(p) /\ g.at \in Where(tree, p)
        BY <3>1, <3>2 DEF GrantsHold, WriteOpenHolds, Grants
      <4>2. PICK w \in plan.write : AnchorFor(p, w)
        BY <4>1 DEF Anchoring
      <4>3. g.at \in HasLed(p)
        BY <4>1 DEF HasLed
      <4>4. p \in Ancestors(w)
        BY <4>2 DEF AnchorFor
      <4>5. QED  BY <4>2, <4>3, <4>4 DEF Sound, OnTheWay
    <3>4. QED  BY <1>2, <3>1, <3>2, <3>3 DEF GrantsHold
  <2>3. QED  BY <2>1, <2>2
<1>4. WriteScanHolds'
  <2>1. CASE Probe
    <3>1. stage = "probe" /\ anchors' = anchors /\ anchors = {}
      BY <2>1 DEF Probe, NamesHold, NotYet
    <3>2. stage' = "write_scan" => todo' = plan.write
      BY <2>1 DEF Probe, GiveUp
    <3>3. QED  BY <3>1, <3>2 DEF WriteScanHolds
  <2>2. CASE ScanWrite
    <3>1. PICK p \in todo : todo' = todo \ {p} /\ anchors' = anchors \cup {NearestAnchor(p)}
      BY <2>2 DEF ScanWrite
    <3>2. stage = "write_scan" /\ p \in plan.write /\ IsPath(p) /\ RootHolds
      BY <2>2, <3>1 DEF ScanWrite, GrantsHold, WriteScanHolds, PathsHold, PlanIsSound
    <3>3. Anchoring(NearestAnchor(p)) /\ (Lasted(p) => NearestAnchor(p) = p)
      BY <3>2, AnchorIsOnTheWay DEF Anchoring
    <3>4. \A a \in anchors' : Anchoring(a)'
      <4>1. \A a \in anchors' : Anchoring(a)
        BY <3>1, <3>2, <3>3 DEF GrantsHold, WriteScanHolds
      <4>2. QED  BY <1>2, <4>1
    <3>5. \A w \in plan'.write : Lasted(w)' => w \in todo' \/ w \in anchors'
      BY <1>1, <3>1, <3>2, <3>3 DEF GrantsHold, WriteScanHolds
    <3>6. todo' \subseteq plan'.write
      BY <3>1, <3>2 DEF GrantsHold, WriteScanHolds
    <3>7. QED  BY <3>4, <3>5, <3>6 DEF WriteScanHolds
  <2>3. CASE OpenWrites \/ OpenWrite
    BY <2>3 DEF OpenWrites, OpenWrite, Go, GiveUp, WriteScanHolds
  <2>4. QED  BY <2>1, <2>2, <2>3
<1>5. WriteOpenHolds'
  <2>1. CASE Probe \/ ScanWrite
    BY <2>1 DEF Probe, ScanWrite, Go, GiveUp, WriteOpenHolds
  <2>2. CASE OpenWrites
    <3>1. stage = "write_scan" /\ todo = {} /\ todo' = anchors
      BY <2>2 DEF OpenWrites
    <3>2. \A a \in todo' : Anchoring(a)'
      <4>1. \A a \in todo' : Anchoring(a)
        BY <3>1 DEF GrantsHold, WriteScanHolds
      <4>2. QED  BY <1>2, <4>1
    <3>3. \A w \in plan'.write : Lasted(w)' => w \in todo'
      BY <1>1, <3>1 DEF GrantsHold, WriteScanHolds
    <3>4. QED  BY <3>2, <3>3 DEF WriteOpenHolds
  <2>3. CASE OpenWrite
    <3>1. stage = "write_open"
      BY <2>3 DEF OpenWrite
    <3>2. PICK p \in todo :
            /\ todo' = todo \ {p}
            /\ \/ There(p) /\ grants' = grants \cup Grants(p, "write")
               \/ stage' = "failed"
      BY <2>3 DEF OpenWrite, GiveUp
    <3>3. CASE stage' = "failed"
      BY <3>3 DEF WriteOpenHolds
    <3>4. CASE There(p) /\ grants' = grants \cup Grants(p, "write")
      <4>1. \A w \in plan.write : Granted(w, "write") => Granted(w, "write")'
        BY <3>4 DEF Granted
      <4>2. Granted(p, "write")'
        <5>1. PICK g \in Grants(p, "write") : g.at \in Where(tree, p) /\ g.kind = "write"
          BY <3>4, GrantsAreThere
        <5>2. g \in grants' /\ Where(tree', p) = Where(tree, p)
          BY <3>4, <5>1
        <5>3. QED  BY <5>1, <5>2 DEF Granted
      <4>3. \A w \in plan'.write : Lasted(w)' => w \in todo' \/ Granted(w, "write")'
        BY <1>1, <3>1, <3>2, <4>1, <4>2 DEF GrantsHold, WriteOpenHolds
      <4>4. \A a \in todo' : Anchoring(a)'
        <5>1. \A a \in todo' : Anchoring(a)
          BY <3>1, <3>2 DEF GrantsHold, WriteOpenHolds
        <5>2. QED  BY <1>2, <5>1
      <4>5. QED  BY <4>3, <4>4 DEF WriteOpenHolds
    <3>5. QED  BY <3>2, <3>3, <3>4
  <2>4. QED  BY <2>1, <2>2, <2>3
<1>6. WrittenHolds' /\ ReadScanHolds' /\ ReadOpenHolds' /\ ReadHolds'
  BY <1>3 DEF WrittenHolds, ReadScanHolds, ReadOpenHolds, ReadHolds, Stages, Limited, Ruled, Restricted,
              Filtering
<1>7. QED  BY <1>3, <1>4, <1>5, <1>6 DEF GrantsHold

(* The loops over the readable paths; the fork.                             *)
LEMMA GrantsRead ==
  ASSUME GrantsHold, tree \in seen, UNCHANGED <<plan, tree, seen>>,
         ScanReads \/ ScanRead \/ OpenReads \/ OpenRead \/ BuildFilter
  PROVE  GrantsHold'
<1>1. \A p : Lasted(p)' <=> Lasted(p)
  BY DEF Lasted, There
<1>2. /\ \A a : Anchoring(a) => Anchoring(a)'
      /\ \A l : Sound(l) => Sound(l)'
      /\ NamedPaths' = NamedPaths
  BY Fading
<1>3. grants \subseteq grants' /\ \A p, kind : Granted(p, kind) => Granted(p, kind)'
  <2>1. grants \subseteq grants'
    BY DEF ScanReads, ScanRead, OpenReads, OpenRead, BuildFilter
  <2>2. QED  BY <1>2, <2>1 DEF Granted
<1>4. /\ \A g \in grants' : g \in grants \/ g.kind = "read"
      /\ stage' \in {"failed", "read_scan", "read_open", "limits"}
  BY DEF ScanReads, ScanRead, OpenReads, OpenRead, BuildFilter, Go, GiveUp, Grants
<1>5. \A g \in grants' : g.kind = "write" => Sound(g.at)'
  BY <1>2, <1>4 DEF GrantsHold
<1>6. WriteScanHolds' /\ WriteOpenHolds'
  BY <1>4 DEF WriteScanHolds, WriteOpenHolds
<1>7. WrittenHolds'
  <2>1. \A w \in plan.write : Lasted(w) => Granted(w, "write")
    <3>1. CASE ScanReads
      BY <3>1 DEF ScanReads, GrantsHold, WriteOpenHolds
    <3>2. CASE ~ScanReads
      <4>1. stage \in {"read_scan", "read_open"}
        BY <3>2 DEF ScanRead, OpenReads, OpenRead, BuildFilter
      <4>2. QED  BY <4>1 DEF GrantsHold, WrittenHolds
    <3>3. QED  BY <3>1, <3>2
  <2>2. QED  BY <1>1, <1>3, <2>1 DEF WrittenHolds
<1>8. ReadScanHolds'
  <2>1. CASE ScanReads
    <3>1. todo' = NamedPaths
      BY <2>1 DEF ScanReads, NamedPaths
    <3>2. QED  BY <1>2, <3>1 DEF ReadScanHolds
  <2>2. CASE ScanRead
    <3>1. stage = "read_scan" /\ \A p \in NamedPaths : Lasted(p) => p \in todo \/ p \in anchors
      BY <2>2 DEF ScanRead, GrantsHold, ReadScanHolds
    <3>2. PICK p \in todo : /\ todo' = todo \ {p}
                            /\ anchors' = IF There(p) THEN anchors \cup {p} ELSE anchors
      BY <2>2 DEF ScanRead
    <3>3. Lasted(p) => There(p)
      BY DEF Lasted
    <3>4. QED  BY <1>1, <1>2, <3>1, <3>2, <3>3 DEF ReadScanHolds
  <2>3. CASE OpenReads \/ OpenRead \/ BuildFilter
    BY <2>3 DEF OpenReads, OpenRead, BuildFilter, Go, GiveUp, ReadScanHolds
  <2>4. QED  BY <2>1, <2>2, <2>3
<1>9. ReadOpenHolds'
  <2>1. CASE ScanReads \/ ScanRead \/ BuildFilter
    BY <2>1 DEF ScanReads, ScanRead, BuildFilter, Go, GiveUp, ReadOpenHolds
  <2>2. CASE OpenReads
    <3>1. todo' = anchors /\ \A p \in NamedPaths : Lasted(p) => p \in anchors
      BY <2>2 DEF OpenReads, GrantsHold, ReadScanHolds
    <3>2. QED  BY <1>1, <1>2, <3>1 DEF ReadOpenHolds
  <2>3. CASE OpenRead
    <3>1. \A p \in NamedPaths : Lasted(p) => p \in todo \/ Granted(p, "read")
      BY <2>3 DEF OpenRead, GrantsHold, ReadOpenHolds
    <3>2. PICK p \in todo : /\ todo' = todo \ {p}
                            /\ \/ grants' = grants \cup Grants(p, "read")
                               \/ Missing(p)
                               \/ stage' = "failed"
      BY <2>3 DEF OpenRead, GiveUp
    <3>3. CASE stage' = "failed"
      BY <3>3 DEF ReadOpenHolds
    <3>4. CASE stage' # "failed"
      <4>1. Lasted(p) => Granted(p, "read")'
        <5>1. SUFFICES ASSUME Lasted(p)  PROVE Granted(p, "read")'
          OBVIOUS
        <5>2. ~Missing(p)
          BY <5>1 DEF Lasted, There, Missing, Where
        <5>3. PICK g \in Grants(p, "read") : g.at \in Where(tree, p) /\ g.kind = "read"
          BY <5>1, GrantsAreThere DEF Lasted
        <5>4. g \in grants' /\ Where(tree', p) = Where(tree, p)
          BY <3>2, <3>4, <5>2, <5>3
        <5>5. QED  BY <5>3, <5>4 DEF Granted
      <4>2. QED  BY <1>1, <1>2, <1>3, <3>1, <3>2, <4>1 DEF ReadOpenHolds
    <3>5. QED  BY <3>3, <3>4
  <2>4. QED  BY <2>1, <2>2, <2>3
<1>10. ReadHolds'
  <2>1. CASE BuildFilter
    <3>1. \A p \in NamedPaths : Lasted(p) => Granted(p, "read")
      BY <2>1 DEF BuildFilter, GrantsHold, ReadOpenHolds
    <3>2. QED  BY <1>1, <1>2, <1>3, <3>1 DEF ReadHolds
  <2>2. CASE ~BuildFilter
    <3>1. stage' \in {"read_scan", "read_open", "failed"}
      BY <2>2 DEF ScanReads, ScanRead, OpenReads, OpenRead, Go, GiveUp
    <3>2. QED  BY <3>1 DEF ReadHolds, Stages, Limited, Ruled, Restricted, Filtering
  <2>3. QED  BY <2>1, <2>2
<1>11. QED  BY <1>4, <1>5, <1>6, <1>7, <1>8, <1>9, <1>10 DEF GrantsHold

LEMMA GrantsStep ==
  ASSUME GrantsHold, NamesHold, PathsHold, SeenHolds, [Next]_vars
  PROVE  GrantsHold'
<1> USE DEF Stages, Limited, Ruled, Restricted, Filtering
<1>S. SeenHolds' /\ (stage # "idle" => stage' # "idle" /\ seen \subseteq seen')
  BY SeenStep
<1>1. CASE Others \/ Resolve \/ UNCHANGED vars
  <2>1. UNCHANGED <<stage, plan, todo, anchors, grants>>
    BY <1>1 DEF Others, Resolve, OtherNext, Appear, Disappear, vars, sandboxVars, launchVars
  <2>2. CASE stage = "idle"
    BY <2>1, <2>2 DEF GrantsHold, WriteScanHolds, WriteOpenHolds, WrittenHolds, ReadScanHolds,
                      ReadOpenHolds, ReadHolds, NamesHold, NotYet
  <2>3. CASE stage # "idle"
    <3>1. tree \in seen /\ tree' \in seen' /\ seen \subseteq seen'
      BY <1>S, <2>1, <2>3 DEF SeenHolds
    <3>2. QED  BY <2>1, <3>1, GrantsFade
  <2>4. QED  BY <2>2, <2>3
<1>2. ASSUME Plan \/ (Launch /\ (Prepare \/ StartProxy))
      PROVE  GrantsHold'
  <2>1. /\ grants' = {}
        /\ stage' \in {"planned", "prepared", "probe", "failed"}
    BY <1>2 DEF Plan, BuildPlan, Launch, Prepare, StartProxy, Go, GiveUp, NamesHold, NotYet, GrantsHold,
                treeVars
  <2>2. QED
    BY <2>1 DEF GrantsHold, WriteScanHolds, WriteOpenHolds, WrittenHolds, ReadScanHolds, ReadOpenHolds,
                ReadHolds
<1>3. CASE Launch /\ (Probe \/ ScanWrite \/ OpenWrites \/ OpenWrite)
  <2>1. UNCHANGED <<plan, tree, seen>>
    BY <1>3 DEF Probe, ScanWrite, OpenWrites, OpenWrite, treeVars
  <2>2. tree \in seen
    BY <1>3 DEF SeenHolds, Probe, ScanWrite, OpenWrites, OpenWrite
  <2>3. QED  BY <1>3, <2>1, <2>2, GrantsWrite
<1>4. CASE Launch /\ (ScanReads \/ ScanRead \/ OpenReads \/ OpenRead \/ BuildFilter)
  <2>1. UNCHANGED <<plan, tree, seen>>
    BY <1>4 DEF ScanReads, ScanRead, OpenReads, OpenRead, BuildFilter, treeVars
  <2>2. tree \in seen
    BY <1>4 DEF SeenHolds, ScanReads, ScanRead, OpenReads, OpenRead, BuildFilter
  <2>3. QED  BY <1>4, <2>1, <2>2, GrantsRead
<1>5. CASE Launch /\ stage \in Forked
  <2>1. /\ UNCHANGED <<plan, tree, seen, grants>> /\ stage \in Stages
        /\ stage' \in Stages \cup {"failed"}
    BY <1>5 DEF Launch, LaunchNext, LaunchSteps, Forked, Go, GiveUp, Prepare, StartProxy, Probe,
       ScanWrite, OpenWrites, OpenWrite, ScanReads, ScanRead, OpenReads, OpenRead, BuildFilter,
       ApplyLimits, CreateRuleset, AddRules, RestrictSelf, InstallFilter, HandOver, Exec, KernelRefuses,
       treeVars
  <2>2. tree \in seen
    BY <1>5 DEF SeenHolds, Forked
  <2>3. /\ \A p : Lasted(p)' => Lasted(p)
        /\ NamedPaths' = NamedPaths
        /\ \A l : Sound(l) => Sound(l)'
    BY <2>1, <2>2, Fading
  <2>4. \A p, kind : Granted(p, kind) => Granted(p, kind)'
    BY <2>1 DEF Granted
  <2>5. WrittenHolds' /\ ReadHolds'
    BY <2>1, <2>3, <2>4 DEF GrantsHold, WrittenHolds, ReadHolds
  <2>6. WriteScanHolds' /\ WriteOpenHolds' /\ ReadScanHolds' /\ ReadOpenHolds'
    BY <2>1 DEF WriteScanHolds, WriteOpenHolds, ReadScanHolds, ReadOpenHolds
  <2>7. \A g \in grants' : g.kind = "write" => Sound(g.at)'
    BY <2>1, <2>3 DEF GrantsHold
  <2>8. QED  BY <2>5, <2>6, <2>7 DEF GrantsHold
<1>6. QED
  BY <1>1, <1>2, <1>3, <1>4, <1>5
  DEF Next, Launch, LaunchNext, LaunchSteps, Forked, ApplyLimits, CreateRuleset, AddRules, RestrictSelf,
      InstallFilter, HandOver, Exec, KernelRefuses

LEMMA GrantsInit == Init => GrantsHold
BY DEF Init, SandboxInit, GrantsHold, WriteScanHolds, WriteOpenHolds, WrittenHolds, ReadScanHolds,
       ReadOpenHolds, ReadHolds, Stages, Limited, Ruled, Restricted, Filtering

LEMMA GrantsAreSound ==
  ASSUME GrantsHold, NamesHold, ChildHolds, PathsHold, ReadsAreNamed  PROVE GrantsAreNamed
<1>1. SUFFICES ASSUME stage = "running"  PROVE WritesAreNamed /\ LastingIsGranted
  BY DEF GrantsAreNamed, WritesAreNamed, LastingIsGranted
<1>2. stage \in Stages /\ child.rules = {Rule(g) : g \in grants}
  BY <1>1 DEF ChildHolds, Stages, Limited, Ruled, Restricted, Filtering
<1>3. WritesAreNamed
  <2>1. SUFFICES ASSUME NEW r \in child.rules, r.access \cap WriteMask # {}
                 PROVE  \E w \in plan.write : \E a \in Ancestors(w) :
                          /\ r.at \in HasLed(a)
                          /\ \A b \in Ancestors(w) : Len(b) > Len(a) => ~Lasted(b)
                          /\ Straight(w) => r.at = Opened(a)
                          /\ Straight(w) /\ ~Contains(w, "..") => IsPrefix(r.at, Opened(w))
    BY DEF WritesAreNamed
  <2>2. PICK g \in grants : r = Rule(g)
    BY <1>2
  <2>3. g.kind = "write"
    <3>1. g.kind # "write" => r.access \subseteq ReadMask
      BY <2>2 DEF Rule, AccessFor
    <3>2. WriteMask \cap ReadMask = {}
      BY DEF WriteMask, ReadMask
    <3>3. QED  BY <2>1, <3>1, <3>2
  <2>4. r.at = g.at
    BY <2>2 DEF Rule
  <2>5. PICK w \in plan.write : OnTheWay(r.at, w)
    BY <2>3, <2>4 DEF GrantsHold, Sound
  <2>6. PICK a \in Ancestors(w) : AnchorFor(a, w) /\ r.at \in HasLed(a)
    BY <2>5 DEF OnTheWay
  <2>7. IsPath(w)
    BY <1>1 DEF PathsHold, PlanIsSound
  <2>8. Straight(w) => r.at = Opened(a) /\ (~Contains(w, "..") => IsPrefix(r.at, Opened(w)))
    BY <2>6, <2>7, StraightHasLed
  <2>9. QED  BY <2>6, <2>8 DEF AnchorFor
<1>4. \A p \in NamedPaths : Lasted(p) =>
        \E r \in child.rules : r.at \in Where(tree, p) /\ "READ_FILE" \in r.access
  <2>1. SUFFICES ASSUME NEW p \in NamedPaths, Lasted(p)
                 PROVE  \E r \in child.rules : r.at \in Where(tree, p) /\ "READ_FILE" \in r.access
    OBVIOUS
  <2>2. PICK g \in grants : g.at \in Where(tree, p) /\ g.kind = "read"
    BY <1>2, <2>1 DEF GrantsHold, ReadHolds, Granted
  <2>3. Rule(g).at \in Where(tree, p) /\ "READ_FILE" \in Rule(g).access
    BY <2>2 DEF Rule, AccessFor, ReadMask, FileApplicable
  <2>4. QED  BY <1>2, <2>3
<1>5. \A p \in plan.write : Lasted(p) =>
        \E r \in child.rules : r.at \in Where(tree, p) /\ "WRITE_FILE" \in r.access
  <2>1. SUFFICES ASSUME NEW p \in plan.write, Lasted(p)
                 PROVE  \E r \in child.rules : r.at \in Where(tree, p) /\ "WRITE_FILE" \in r.access
    OBVIOUS
  <2>2. PICK g \in grants : g.at \in Where(tree, p) /\ g.kind = "write"
    BY <1>2, <2>1 DEF GrantsHold, WrittenHolds, Granted
  <2>3. Rule(g).at \in Where(tree, p) /\ "WRITE_FILE" \in Rule(g).access
    BY <2>2 DEF Rule, AccessFor, WriteMask, FileApplicable
  <2>4. QED  BY <1>2, <2>3
<1>6. LastingIsGranted
  BY <1>4, <1>5 DEF LastingIsGranted, NamedPaths
<1>7. QED  BY <1>3, <1>6

(* Whatever other processes create and remove during the launch, links      *)
(* among it: the child writes only beneath where a directory on the way to  *)
(* a writable path led, no farther from that path than what was there all   *)
(* the time, and over no link and no ".." only above it; and wherever a     *)
(* named path led all the time, it can read, and write if that was named.   *)
THEOREM GrantsFollowThePlan == Spec => []GrantsAreNamed
<1>1. Init => GrantsHold /\ PathsHold /\ EntriesHold
  BY GrantsInit, PathsInit, EntriesInit
<1>2. Init => NamesHold /\ ChildHolds /\ SeenHolds
  BY DEF Init, SandboxInit, NamesHold, SeenHolds, ChildHolds, Unconfined, Stages, Limited, Ruled,
         Restricted, Filtering
<1>3. EntriesHold /\ [Next]_vars => EntriesHold'
  BY EntriesStep
<1>4. GrantsHold /\ PathsHold /\ EntriesHold /\ NamesHold /\ SeenHolds /\ ChildHolds /\ [Next]_vars
        => GrantsHold' /\ PathsHold' /\ NamesHold' /\ SeenHolds' /\ ChildHolds'
  BY GrantsStep, PathsStep, NamesStep, SeenStep, ChildStep
<1>5. GrantsHold /\ NamesHold /\ ChildHolds /\ PathsHold /\ ReadsAreNamed => GrantsAreNamed
  BY GrantsAreSound
<1>6. QED  BY <1>1, <1>2, <1>3, <1>4, <1>5, ReadsStayNamed, PTL DEF Spec

-----------------------------------------------------------------------------
(* Patterns: what is left of one from i on, and of a name from j on         *)

Places(P, N, f, i) ==
  \A x \in i .. Len(P) :
    IF P[x] = "*" THEN f[x] <= f[x + 1] ELSE f[x + 1] = f[x] + 1 /\ P[x] = N[f[x]]
GlobFrom(P, N, i, j) ==
  \E f \in [i .. Len(P) + 1 -> 1 .. Len(N) + 1] :
    f[i] = j /\ f[Len(P) + 1] = Len(N) + 1 /\ Places(P, N, f, i)

LEMMA GlobIsFrom ==
  ASSUME NEW P, NEW N  PROVE Glob(P, N) <=> GlobFrom(P, N, 1, 1)
BY DEF Glob, GlobFrom, Places

(* At the end of the name only stars can be left.                           *)
LEMMA GlobEnds ==
  ASSUME NEW P, NEW N, Len(P) \in Nat, Len(N) \in Nat, NEW i \in 1 .. Len(P) + 1
  PROVE  /\ GlobFrom(P, N, i, Len(N) + 1) <=> \A x \in i .. Len(P) : P[x] = "*"
         /\ \A j : GlobFrom(P, N, Len(P) + 1, j) => j = Len(N) + 1
<1>1. ASSUME \A x \in i .. Len(P) : P[x] = "*"  PROVE GlobFrom(P, N, i, Len(N) + 1)
  <2> DEFINE f == [x \in i .. Len(P) + 1 |-> Len(N) + 1]
  <2>1. f \in [i .. Len(P) + 1 -> 1 .. Len(N) + 1] /\ f[i] = Len(N) + 1 /\ f[Len(P) + 1] = Len(N) + 1
    OBVIOUS
  <2>2. \A x \in i .. Len(P) : x + 1 \in i .. Len(P) + 1 /\ x \in i .. Len(P) + 1
    OBVIOUS
  <2>3. Places(P, N, f, i)
    BY <1>1, <2>2 DEF Places
  <2>4. QED  BY <2>1, <2>3 DEF GlobFrom
<1>2. ASSUME GlobFrom(P, N, i, Len(N) + 1), NEW y \in i .. Len(P)  PROVE P[y] = "*"
  <2>1. PICK f \in [i .. Len(P) + 1 -> 1 .. Len(N) + 1] : f[i] = Len(N) + 1 /\ Places(P, N, f, i)
    BY <1>2 DEF GlobFrom
  <2> DEFINE T == {x \in Nat : f[x] = Len(N) + 1}
  <2>2. ASSUME NEW x \in i .. Len(P), f[x] = Len(N) + 1  PROVE P[x] = "*" /\ f[x + 1] = Len(N) + 1
    <3>1. x + 1 \in i .. Len(P) + 1
      OBVIOUS
    <3>2. f[x + 1] \in 1 .. Len(N) + 1
      BY <2>1, <3>1
    <3>3. IF P[x] = "*" THEN f[x] <= f[x + 1] ELSE f[x + 1] = f[x] + 1 /\ P[x] = N[f[x]]
      BY <2>1 DEF Places
    <3>4. QED  BY <2>2, <3>2, <3>3
  <2>3. \A x \in i .. Len(P) : x \in T
    <3>1. i \in T /\ \A n \in i .. (Len(P) - 1) : n \in T => n + 1 \in T
      BY <2>1, <2>2
    <3>2. PICK m \in Nat : m = Len(P)
      OBVIOUS
    <3>3. i \in Nat
      BY <3>2
    <3> HIDE DEF T
    <3>4. QED  BY <3>1, <3>2, <3>3, Climbs
  <2>4. QED  BY <2>2, <2>3
<1>3. ASSUME NEW j, GlobFrom(P, N, Len(P) + 1, j)  PROVE j = Len(N) + 1
  BY <1>3 DEF GlobFrom
<1>4. QED  BY <1>1, <1>2, <1>3

LEMMA GlobStar ==
  ASSUME NEW P, NEW N, Len(P) \in Nat, Len(N) \in Nat,
         NEW i \in 1 .. Len(P), P[i] = "*", NEW j \in 1 .. Len(N) + 1
  PROVE  GlobFrom(P, N, i, j) <=> \E k \in j .. Len(N) + 1 : GlobFrom(P, N, i + 1, k)
<1>1. ASSUME GlobFrom(P, N, i, j)  PROVE \E k \in j .. Len(N) + 1 : GlobFrom(P, N, i + 1, k)
  <2>1. PICK f \in [i .. Len(P) + 1 -> 1 .. Len(N) + 1] :
               f[i] = j /\ f[Len(P) + 1] = Len(N) + 1 /\ Places(P, N, f, i)
    BY <1>1 DEF GlobFrom
  <2>2. f[i] <= f[i + 1] /\ f[i + 1] \in 1 .. Len(N) + 1
    BY <2>1 DEF Places
  <2> DEFINE g == [x \in i + 1 .. Len(P) + 1 |-> f[x]]
  <2>3. g \in [i + 1 .. Len(P) + 1 -> 1 .. Len(N) + 1] /\ g[i + 1] = f[i + 1] /\ g[Len(P) + 1] = Len(N) + 1
    BY <2>1
  <2>4. \A x \in i + 1 .. Len(P) : g[x] = f[x] /\ g[x + 1] = f[x + 1]
    OBVIOUS
  <2>5. Places(P, N, g, i + 1)
    BY <2>1, <2>4 DEF Places
  <2>6. GlobFrom(P, N, i + 1, f[i + 1])
    <3> HIDE DEF g
    <3>1. QED  BY <2>3, <2>5 DEF GlobFrom
  <2>7. QED  BY <2>1, <2>2, <2>6
<1>2. ASSUME NEW k \in j .. Len(N) + 1, GlobFrom(P, N, i + 1, k)  PROVE GlobFrom(P, N, i, j)
  <2>1. PICK f \in [i + 1 .. Len(P) + 1 -> 1 .. Len(N) + 1] :
               f[i + 1] = k /\ f[Len(P) + 1] = Len(N) + 1 /\ Places(P, N, f, i + 1)
    BY <1>2 DEF GlobFrom
  <2> DEFINE g == [x \in i .. Len(P) + 1 |-> IF x = i THEN j ELSE f[x]]
  <2>2. /\ g \in [i .. Len(P) + 1 -> 1 .. Len(N) + 1] /\ g[i] = j /\ g[i + 1] = k
        /\ g[Len(P) + 1] = Len(N) + 1
    BY <2>1
  <2>3. \A x \in i + 1 .. Len(P) : g[x] = f[x] /\ g[x + 1] = f[x + 1]
    OBVIOUS
  <2>4. Places(P, N, g, i)
    <3> HIDE DEF g
    <3>1. \A x \in i .. Len(P) : x = i \/ x \in i + 1 .. Len(P)
      OBVIOUS
    <3>2. QED  BY <2>1, <2>2, <2>3, <3>1 DEF Places
  <2>5. QED
    <3> HIDE DEF g
    <3>1. QED  BY <2>2, <2>4 DEF GlobFrom
<1>3. QED  BY <1>1, <1>2

(* A character without a star takes one of the name.                        *)
LEMMA GlobLiteral ==
  ASSUME NEW P, NEW N, Len(P) \in Nat, Len(N) \in Nat,
         NEW i \in 1 .. Len(P), P[i] # "*", NEW j \in 1 .. Len(N) + 1
  PROVE  GlobFrom(P, N, i, j) <=> j <= Len(N) /\ P[i] = N[j] /\ GlobFrom(P, N, i + 1, j + 1)
<1>1. ASSUME GlobFrom(P, N, i, j)  PROVE j <= Len(N) /\ P[i] = N[j] /\ GlobFrom(P, N, i + 1, j + 1)
  <2>1. PICK f \in [i .. Len(P) + 1 -> 1 .. Len(N) + 1] :
               f[i] = j /\ f[Len(P) + 1] = Len(N) + 1 /\ Places(P, N, f, i)
    BY <1>1 DEF GlobFrom
  <2>2. f[i + 1] = j + 1 /\ P[i] = N[j] /\ f[i + 1] \in 1 .. Len(N) + 1
    BY <2>1 DEF Places
  <2> DEFINE g == [x \in i + 1 .. Len(P) + 1 |-> f[x]]
  <2>3. g \in [i + 1 .. Len(P) + 1 -> 1 .. Len(N) + 1] /\ g[i + 1] = j + 1 /\ g[Len(P) + 1] = Len(N) + 1
    BY <2>1, <2>2
  <2>4. \A x \in i + 1 .. Len(P) : g[x] = f[x] /\ g[x + 1] = f[x + 1]
    OBVIOUS
  <2>5. Places(P, N, g, i + 1)
    BY <2>1, <2>4 DEF Places
  <2>6. GlobFrom(P, N, i + 1, j + 1)
    <3> HIDE DEF g
    <3>1. QED  BY <2>3, <2>5 DEF GlobFrom
  <2>7. QED  BY <2>2, <2>6
<1>2. ASSUME j <= Len(N), P[i] = N[j], GlobFrom(P, N, i + 1, j + 1)  PROVE GlobFrom(P, N, i, j)
  <2>1. PICK f \in [i + 1 .. Len(P) + 1 -> 1 .. Len(N) + 1] :
               f[i + 1] = j + 1 /\ f[Len(P) + 1] = Len(N) + 1 /\ Places(P, N, f, i + 1)
    BY <1>2 DEF GlobFrom
  <2> DEFINE g == [x \in i .. Len(P) + 1 |-> IF x = i THEN j ELSE f[x]]
  <2>2. /\ g \in [i .. Len(P) + 1 -> 1 .. Len(N) + 1] /\ g[i] = j /\ g[i + 1] = j + 1
        /\ g[Len(P) + 1] = Len(N) + 1
    BY <2>1
  <2>3. \A x \in i + 1 .. Len(P) : g[x] = f[x] /\ g[x + 1] = f[x + 1]
    OBVIOUS
  <2>4. Places(P, N, g, i)
    <3> HIDE DEF g
    <3>1. \A x \in i .. Len(P) : x = i \/ x \in i + 1 .. Len(P)
      OBVIOUS
    <3>2. QED  BY <1>2, <2>1, <2>2, <2>3, <3>1 DEF Places
  <2>5. QED
    <3> HIDE DEF g
    <3>1. QED  BY <2>2, <2>4 DEF GlobFrom
<1>3. QED  BY <1>1, <1>2

(* Over characters without stars, the rest of a match is a match of the     *)
(* rest, and the other way round where the characters agree.                *)
LEMMA GlobShift ==
  ASSUME NEW P, NEW N, Len(P) \in Nat, Len(N) \in Nat, NEW i \in 1 .. Len(P) + 1, NEW d \in Nat,
         i + d <= Len(P) + 1, \A e \in 0 .. d - 1 : P[i + e] # "*",
         NEW k \in 1 .. Len(N) + 1, GlobFrom(P, N, i, k)
  PROVE  k + d <= Len(N) + 1 /\ GlobFrom(P, N, i + d, k + d)
<1> DEFINE T == {e \in Nat : k + e <= Len(N) + 1 /\ GlobFrom(P, N, i + e, k + e)}
<1>1. 0 \in T
  <2>1. i + 0 = i /\ k + 0 = k
    OBVIOUS
  <2>2. QED  BY <2>1
<1>2. ASSUME NEW e \in 0 .. d - 1, e \in T  PROVE e + 1 \in T
  <2>1. PICK x \in 1 .. Len(P), y \in 1 .. Len(N) + 1 : x = i + e /\ y = k + e
    BY <1>2
  <2>2. P[x] # "*" /\ GlobFrom(P, N, x, y)
    BY <1>2, <2>1
  <2>3. y <= Len(N) /\ GlobFrom(P, N, x + 1, y + 1)
    BY <2>2, GlobLiteral
  <2>4. x + 1 = i + (e + 1) /\ y + 1 = k + (e + 1)
    BY <2>1
  <2>5. QED  BY <2>1, <2>3, <2>4
<1>3. \A e \in 0 .. d : e \in T
  <2> HIDE DEF T
  <2>1. QED  BY <1>1, <1>2, Climbs
<1>4. QED  BY <1>3

LEMMA GlobBack ==
  ASSUME NEW P, NEW N, Len(P) \in Nat, Len(N) \in Nat, NEW i \in 1 .. Len(P) + 1, NEW d \in Nat,
         i + d <= Len(P) + 1, NEW k \in 1 .. Len(N) + 1, k + d <= Len(N) + 1,
         \A e \in 0 .. d - 1 : P[i + e] # "*" /\ P[i + e] = N[k + e],
         GlobFrom(P, N, i + d, k + d)
  PROVE  GlobFrom(P, N, i, k)
<1> DEFINE T == {e \in Nat : e <= d /\ GlobFrom(P, N, i + (d - e), k + (d - e))}
<1>1. 0 \in T
  <2>1. d - 0 = d
    OBVIOUS
  <2>2. QED  BY <2>1
<1>2. ASSUME NEW e \in 0 .. d - 1, e \in T  PROVE e + 1 \in T
  <2>1. PICK x \in 1 .. Len(P), y \in 1 .. Len(N) : x = i + (d - (e + 1)) /\ y = k + (d - (e + 1))
    BY <1>2
  <2>2. x + 1 = i + (d - e) /\ y + 1 = k + (d - e) /\ d - (e + 1) \in 0 .. d - 1
    BY <2>1
  <2>3. P[x] # "*" /\ P[x] = N[y] /\ GlobFrom(P, N, x + 1, y + 1)
    BY <1>2, <2>1, <2>2
  <2>4. GlobFrom(P, N, x, y)
    BY <2>3, GlobLiteral
  <2>5. QED  BY <2>1, <2>4
<1>3. \A e \in 0 .. d : e \in T
  <2> HIDE DEF T
  <2>1. QED  BY <1>1, <1>2, Climbs
<1>4. GlobFrom(P, N, i + (d - d), k + (d - d))
  BY <1>3
<1>5. i + (d - d) = i /\ k + (d - d) = k
  OBVIOUS
<1>6. QED  BY <1>4, <1>5

-----------------------------------------------------------------------------
(* The loop of wildcard_matches                                             *)

(* Since the last star at after the candidate agrees with the pattern, and  *)
(* the whole matches when what follows that star matches from there on or   *)
(* later; before the first star, when the rest matches here.                *)
InRange(P, N, s) ==
  /\ s.p \in 1 .. Len(P) + 1 /\ s.c \in 1 .. Len(N) + 1
  /\ s.star \in 0 .. Len(P) /\ s.after \in 0 .. s.c
  /\ s.star = 0 <=> s.after = 0
  /\ s.star # 0 => s.star < s.p /\ s.c - s.after = s.p - s.star - 1
Agrees(P, N, s) ==
  \A e \in 0 .. s.p - s.star - 2 :
    P[s.star + 1 + e] # "*" /\ P[s.star + 1 + e] = N[s.after + e]
Remains(P, N, s) ==
  IF s.star = 0 THEN GlobFrom(P, N, s.p, s.c)
  ELSE \E k \in s.after .. Len(N) + 1 : GlobFrom(P, N, s.star + 1, k)
LoopHolds(P, N, s) ==
  /\ InRange(P, N, s)
  /\ s.star # 0 => Agrees(P, N, s)
  /\ Glob(P, N) <=> Remains(P, N, s)

Over(P, N, s) == s.c > Len(N) \/ MatchTurn(P, N, s) = s

Pair(P, N) == Len(P) \in Nat /\ Len(N) \in Nat /\ \A i \in 1 .. Len(N) : N[i] # "*"

Reads(P, N, s, m, n, p, c, z, a) ==
  m = Len(P) /\ n = Len(N) /\ p = s.p /\ c = s.c /\ z = s.star /\ a = s.after
Ordered(m, n, p, c, z, a) ==
  /\ 1 <= p /\ p <= m + 1 /\ 1 <= c /\ c <= n + 1 /\ z <= m /\ a <= c
  /\ (z = 0) = (a = 0)
  /\ z # 0 => z < p /\ c + z + 1 = p + a

LEMMA Numbers ==
  ASSUME NEW P, NEW N, Pair(P, N), NEW s, InRange(P, N, s)
  PROVE  \E m \in Nat, n \in Nat, p \in Nat, c \in Nat, z \in Nat, a \in Nat :
           Reads(P, N, s, m, n, p, c, z, a) /\ Ordered(m, n, p, c, z, a)
<1>1. PICK m \in Nat, n \in Nat : m = Len(P) /\ n = Len(N)
  BY DEF Pair
<1>2. PICK p \in 1 .. m + 1, c \in 1 .. n + 1, z \in 0 .. m : p = s.p /\ c = s.c /\ z = s.star
  BY <1>1 DEF InRange
<1>3. PICK a \in 0 .. c : a = s.after
  BY <1>2 DEF InRange
<1>4. (z = 0 <=> a = 0) /\ (z # 0 => z < p /\ c - a = p - z - 1)
  BY <1>2, <1>3 DEF InRange
<1>5. z # 0 => c + z + 1 = p + a
  BY <1>4
<1>6. p \in Nat /\ c \in Nat /\ z \in Nat /\ a \in Nat
  OBVIOUS
<1>7. Reads(P, N, s, m, n, p, c, z, a)
  BY <1>1, <1>2, <1>3 DEF Reads
<1>8. Ordered(m, n, p, c, z, a)
  BY <1>4, <1>5 DEF Ordered
<1>9. QED  BY <1>6, <1>7, <1>8

(* Behind a star, a match from its first place is a match of what is left   *)
(* here, and a match from a later place reaches farther.                    *)
LEMMA RemainsHere ==
  ASSUME NEW P, NEW N, Pair(P, N), NEW s, LoopHolds(P, N, s), s.star # 0
  PROVE  /\ GlobFrom(P, N, s.star + 1, s.after) <=> GlobFrom(P, N, s.p, s.c)
         /\ \A k \in s.after .. Len(N) + 1 : GlobFrom(P, N, s.star + 1, k) =>
              k + (s.c - s.after) <= Len(N) + 1 /\ GlobFrom(P, N, s.p, k + (s.c - s.after))
<1>0. PICK m \in Nat, n \in Nat, p \in Nat, c \in Nat, z \in Nat, b \in Nat :
        Reads(P, N, s, m, n, p, c, z, b) /\ Ordered(m, n, p, c, z, b)
  BY Numbers DEF LoopHolds
<1>1. PICK i \in 1 .. Len(P) + 1, d \in Nat : i = s.star + 1 /\ d = s.p - s.star - 1
  <2>1. z # 0
    BY <1>0 DEF Reads
  <2>2. z + 1 \in 1 .. m + 1 /\ p - z - 1 \in Nat
    BY <1>0, <2>1 DEF Ordered
  <2>3. QED  BY <1>0, <2>2 DEF Reads
<1>2. PICK a \in 1 .. Len(N) + 1 : a = s.after
  <2>1. z # 0
    BY <1>0 DEF Reads
  <2>2. b \in 1 .. n + 1
    BY <1>0, <2>1 DEF Ordered
  <2>3. QED  BY <1>0, <2>2 DEF Reads
<1>3. i + d = s.p /\ a + d = s.c /\ d = s.c - s.after /\ i + d <= Len(P) + 1 /\ a + d <= Len(N) + 1
  <2>1. i = z + 1 /\ d = p - z - 1 /\ a = b /\ z # 0
    BY <1>0, <1>1, <1>2 DEF Reads
  <2>2. i + d = p /\ a + d = c /\ d = c - b /\ i + d <= m + 1 /\ a + d <= n + 1
    BY <1>0, <2>1 DEF Ordered
  <2>3. QED  BY <1>0, <2>2 DEF Reads
<1>4. \A e \in 0 .. d - 1 : P[i + e] # "*" /\ P[i + e] = N[a + e]
  <2>1. d - 1 = s.p - s.star - 2
    <3>1. d = p - z - 1
      BY <1>0, <1>1 DEF Reads
    <3>2. d - 1 = p - z - 2
      BY <3>1
    <3>3. QED  BY <1>0, <3>2 DEF Reads
  <2>2. QED  BY <1>1, <1>2, <2>1 DEF LoopHolds, Agrees
<1>5. ASSUME NEW k \in 1 .. Len(N) + 1, GlobFrom(P, N, i, k)
      PROVE  k + d <= Len(N) + 1 /\ GlobFrom(P, N, i + d, k + d)
  BY <1>3, <1>4, <1>5, GlobShift DEF Pair
<1>6. GlobFrom(P, N, i + d, a + d) => GlobFrom(P, N, i, a)
  BY <1>3, <1>4, GlobBack DEF Pair
<1>7. s.after .. Len(N) + 1 \subseteq 1 .. Len(N) + 1
  BY <1>2
<1>8. QED  BY <1>1, <1>2, <1>3, <1>5, <1>6, <1>7

(* The two cases of a character of the pattern that is left.                *)
LEMMA HereLiteral ==
  ASSUME NEW P, NEW N, Pair(P, N), NEW p \in 1 .. Len(P) + 1, NEW c \in 1 .. Len(N),
         ~(p <= Len(P) /\ P[p] = N[c]), ~(p <= Len(P) /\ P[p] = "*")
  PROVE  ~GlobFrom(P, N, p, c)
<1>1. CASE p = Len(P) + 1
  BY <1>1, GlobEnds DEF Pair
<1>2. CASE p # Len(P) + 1
  <2>1. p \in 1 .. Len(P) /\ P[p] # "*" /\ P[p] # N[c] /\ c \in 1 .. Len(N) + 1
    BY <1>2 DEF Pair
  <2>2. QED  BY <2>1, GlobLiteral DEF Pair
<1>3. QED  BY <1>1, <1>2

LEMMA TurnTakes ==
  ASSUME NEW P, NEW N, Pair(P, N), NEW s, LoopHolds(P, N, s),
         s.c <= Len(N), s.p <= Len(P), P[s.p] = N[s.c],
         NEW t, t.p = s.p + 1, t.c = s.c + 1, t.star = s.star, t.after = s.after
  PROVE  LoopHolds(P, N, t)
<1>0. PICK m \in Nat, n \in Nat, p \in Nat, c \in Nat, z \in Nat, a \in Nat :
        Reads(P, N, s, m, n, p, c, z, a) /\ Ordered(m, n, p, c, z, a)
  BY Numbers DEF LoopHolds
<1>1. s.p \in 1 .. Len(P) /\ s.c \in 1 .. Len(N) /\ P[s.p] # "*"
  BY DEF LoopHolds, InRange, Pair
<1>2. InRange(P, N, t)
  <2>0. p <= m /\ c <= n
    BY <1>0, <1>1 DEF Reads
  <2>1. /\ p + 1 \in 1 .. m + 1 /\ c + 1 \in 1 .. n + 1 /\ z \in 0 .. m /\ a \in 0 .. c + 1
        /\ (z = 0 <=> a = 0) /\ (z # 0 => z < p + 1 /\ (c + 1) - a = (p + 1) - z - 1)
    BY <1>0, <2>0 DEF Ordered
  <2>2. t.p = p + 1 /\ t.c = c + 1 /\ t.star = z /\ t.after = a
    BY <1>0 DEF Reads
  <2>3. QED  BY <1>0, <2>1, <2>2 DEF InRange, Reads
<1>3. CASE s.star = 0
  <2>1. GlobFrom(P, N, s.p, s.c) <=> GlobFrom(P, N, s.p + 1, s.c + 1)
    <3>1. PICK i \in 1 .. Len(P), j \in 1 .. Len(N) : i = s.p /\ j = s.c
      BY <1>1
    <3>2. j \in 1 .. Len(N) + 1 /\ j <= Len(N) /\ P[i] # "*" /\ P[i] = N[j]
      BY <1>1, <3>1 DEF Pair
    <3>3. GlobFrom(P, N, i, j) <=> GlobFrom(P, N, i + 1, j + 1)
      BY <3>2, GlobLiteral DEF Pair
    <3>4. QED  BY <3>1, <3>3
  <2>2. QED  BY <1>2, <1>3, <2>1 DEF LoopHolds, Remains
<1>4. CASE s.star # 0
  <2>1. Agrees(P, N, t)
    <3>1. SUFFICES ASSUME NEW e \in 0 .. t.p - t.star - 2
                   PROVE  P[t.star + 1 + e] # "*" /\ P[t.star + 1 + e] = N[t.after + e]
      BY DEF Agrees
    <3>2. CASE e \in 0 .. s.p - s.star - 2
      BY <1>4, <3>2 DEF LoopHolds, Agrees
    <3>3. CASE e \notin 0 .. s.p - s.star - 2
      <4>1. e \in 0 .. (p + 1) - z - 2 /\ e \notin 0 .. p - z - 2
        BY <1>0, <3>3 DEF Reads
      <4>2. e = p - z - 1
        BY <1>0, <4>1
      <4>3. z # 0 /\ c + z + 1 = p + a
        BY <1>0, <1>4 DEF Reads, Ordered
      <4>4. z + 1 + e = p /\ a + e = c
        <5>1. \A q, w, y, b \in Nat : q = p - w - 1 /\ y + w + 1 = p + b => w + 1 + q = p /\ b + q = y
          BY <1>0
        <5>2. e \in Nat /\ p \in Nat /\ z \in Nat /\ c \in Nat /\ a \in Nat
          BY <1>0, <4>1
        <5>3. QED  BY <4>2, <4>3, <5>1, <5>2
      <4>5. t.star + 1 + e = s.p /\ t.after + e = s.c
        BY <1>0, <4>4 DEF Reads
      <4>6. QED  BY <1>1, <4>5
    <3>4. QED  BY <3>2, <3>3
  <2>2. Remains(P, N, t) <=> Remains(P, N, s)
    BY <1>4 DEF Remains
  <2>3. QED  BY <1>2, <1>4, <2>1, <2>2 DEF LoopHolds
<1>5. QED  BY <1>3, <1>4

LEMMA TurnStars ==
  ASSUME NEW P, NEW N, Pair(P, N), NEW s, LoopHolds(P, N, s),
         s.c <= Len(N), s.p <= Len(P), P[s.p] = "*",
         NEW t, t.p = s.p + 1, t.c = s.c, t.star = s.p, t.after = s.c
  PROVE  LoopHolds(P, N, t)
<1>1. s.p \in 1 .. Len(P) /\ s.c \in 1 .. Len(N)
  BY DEF LoopHolds, InRange, Pair
<1>2. InRange(P, N, t) /\ t.star # 0 /\ Agrees(P, N, t)
  <2>0. PICK m \in Nat, n \in Nat, p \in Nat, c \in Nat :
          m = Len(P) /\ n = Len(N) /\ p = s.p /\ c = s.c /\ p \in 1 .. m /\ c \in 1 .. n
    BY <1>1 DEF Pair
  <2>1. t.p = p + 1 /\ t.c = c /\ t.star = p /\ t.after = c
    BY <2>0
  <2>2. /\ p + 1 \in 1 .. m + 1 /\ c \in 1 .. n + 1 /\ p \in 0 .. m /\ c \in 0 .. c
        /\ p # 0 /\ c # 0 /\ p < p + 1 /\ c - c = (p + 1) - p - 1
    BY <2>0
  <2>3. 0 .. (p + 1) - p - 2 = {}
    OBVIOUS
  <2>4. QED  BY <2>0, <2>1, <2>2, <2>3 DEF InRange, Agrees
<1>3. PICK p \in 1 .. Len(P), c \in 1 .. Len(N) : p = s.p /\ c = s.c
  BY <1>1
<1>4. \A j \in 1 .. Len(N) + 1 :
        GlobFrom(P, N, p, j) <=> \E k \in j .. Len(N) + 1 : GlobFrom(P, N, p + 1, k)
  BY <1>3, GlobStar DEF Pair
<1>5. Remains(P, N, t) <=> \E k \in c .. Len(N) + 1 : GlobFrom(P, N, p + 1, k)
  BY <1>2, <1>3 DEF Remains
<1>6. c \in 1 .. Len(N) + 1
  BY DEF Pair
<1>7. CASE s.star = 0
  BY <1>2, <1>3, <1>4, <1>5, <1>6, <1>7 DEF LoopHolds, Remains
<1>8. CASE s.star # 0
  <2>1. PICK a \in 1 .. c : a = s.after
    BY <1>3, <1>8 DEF LoopHolds, InRange
  <2>2. ASSUME NEW k \in s.after .. Len(N) + 1, GlobFrom(P, N, s.star + 1, k)
        PROVE  Remains(P, N, t)
    <3>1. k + (c - a) <= Len(N) + 1 /\ GlobFrom(P, N, p, k + (c - a))
      BY <1>3, <1>8, <2>1, <2>2, RemainsHere
    <3>2. PICK j \in c .. Len(N) + 1 : j = k + (c - a)
      BY <2>1, <2>2, <3>1 DEF Pair
    <3>3. j \in 1 .. Len(N) + 1 /\ GlobFrom(P, N, p, j)
      BY <3>1, <3>2
    <3>4. PICK m \in j .. Len(N) + 1 : GlobFrom(P, N, p + 1, m)
      BY <1>4, <3>3
    <3>5. m \in c .. Len(N) + 1
      BY <3>2
    <3>6. QED  BY <1>5, <3>4, <3>5
  <2>3. ASSUME Remains(P, N, t)  PROVE Remains(P, N, s)
    <3>1. GlobFrom(P, N, p, c)
      BY <1>4, <1>5, <1>6, <2>3
    <3>2. GlobFrom(P, N, s.star + 1, s.after)
      BY <1>3, <1>8, <3>1, RemainsHere
    <3>3. s.after \in s.after .. Len(N) + 1
      BY <2>1 DEF Pair
    <3>4. QED  BY <1>8, <3>2, <3>3 DEF Remains
  <2>4. Remains(P, N, s) <=> Remains(P, N, t)
    BY <1>8, <2>2, <2>3 DEF Remains
  <2>5. QED  BY <1>2, <2>4 DEF LoopHolds
<1>9. QED  BY <1>7, <1>8

LEMMA TurnGoesBack ==
  ASSUME NEW P, NEW N, Pair(P, N), NEW s, LoopHolds(P, N, s), s.star # 0,
         s.c <= Len(N), ~(s.p <= Len(P) /\ P[s.p] = N[s.c]), ~(s.p <= Len(P) /\ P[s.p] = "*"),
         NEW t, t.p = s.star + 1, t.c = s.after + 1, t.star = s.star, t.after = s.after + 1
  PROVE  LoopHolds(P, N, t)
<1>0. PICK m \in Nat, n \in Nat, p \in Nat, c \in Nat, z \in Nat, a \in Nat :
        Reads(P, N, s, m, n, p, c, z, a) /\ Ordered(m, n, p, c, z, a)
  BY Numbers DEF LoopHolds
<1>1. InRange(P, N, t) /\ t.star # 0 /\ Agrees(P, N, t)
  <2>1. t.p = z + 1 /\ t.c = a + 1 /\ t.star = z /\ t.after = a + 1 /\ c <= n /\ z # 0
    BY <1>0 DEF Reads
  <2>2. /\ z + 1 \in 1 .. m + 1 /\ a + 1 \in 1 .. n + 1 /\ z \in 0 .. m /\ a + 1 \in 0 .. a + 1
        /\ a + 1 # 0 /\ z < z + 1 /\ (a + 1) - (a + 1) = (z + 1) - z - 1
    BY <1>0, <2>1 DEF Ordered
  <2>3. 0 .. (z + 1) - z - 2 = {}
    OBVIOUS
  <2>4. QED  BY <1>0, <2>1, <2>2, <2>3 DEF InRange, Agrees, Reads
<1>2. s.p \in 1 .. Len(P) + 1 /\ s.c \in 1 .. Len(N)
  BY DEF LoopHolds, InRange, Pair
<1>3. ~GlobFrom(P, N, s.p, s.c)
  <2>1. PICK i \in 1 .. Len(P) + 1, j \in 1 .. Len(N) : i = s.p /\ j = s.c
    BY <1>2
  <2>2. ~GlobFrom(P, N, i, j)
    BY <2>1, HereLiteral
  <2>3. QED  BY <2>1, <2>2
<1>4. ~GlobFrom(P, N, s.star + 1, s.after)
  BY <1>3, RemainsHere
<1>5. s.after \in Nat /\ s.after <= Len(N)
  BY <1>2 DEF LoopHolds, InRange, Pair
<1>6. \A k : k \in s.after .. Len(N) + 1 <=> k = s.after \/ k \in s.after + 1 .. Len(N) + 1
  BY <1>5 DEF Pair
<1>7. Remains(P, N, s) <=> Remains(P, N, t)
  BY <1>1, <1>4, <1>6 DEF Remains
<1>8. QED  BY <1>1, <1>7 DEF LoopHolds

LEMMA TimesGrows ==
  ASSUME NEW a \in Nat, NEW c \in Nat, NEW w \in Nat, a <= c
  PROVE  a * w \in Nat /\ c * w \in Nat /\ a * w <= c * w
<1>1. PICK d \in Nat : c = a + d
  <2>1. c - a \in Nat /\ c = a + (c - a)
    OBVIOUS
  <2>2. QED  BY <2>1
<1>2. c * w = a * w + d * w
  BY <1>1
<1>3. a * w \in Nat /\ d * w \in Nat
  OBVIOUS
<1>4. QED  BY <1>2, <1>3

(* What every turn adds to.                                                 *)
Weight(P, s) == s.after * (Len(P) + 1) + s.p

LEMMA TurnHolds ==
  ASSUME NEW P, NEW N, Pair(P, N), NEW s, LoopHolds(P, N, s), ~Over(P, N, s)
  PROVE  LET t == MatchTurn(P, N, s) IN
         LoopHolds(P, N, t) /\ Weight(P, s) \in Nat /\ Weight(P, t) \in Nat /\ Weight(P, s) + 1 <= Weight(P, t)
<1>1. PICK t : t = MatchTurn(P, N, s)
  OBVIOUS
<1>2. PICK m \in Nat, n \in Nat, p \in Nat, c \in Nat, z \in Nat, a \in Nat :
        Reads(P, N, s, m, n, p, c, z, a) /\ Ordered(m, n, p, c, z, a)
  BY Numbers DEF LoopHolds
<1>3. s.c <= Len(N) /\ t # s
  <2>1. ~(c > n)
    BY <1>2 DEF Over, Reads
  <2>2. c <= n
    BY <2>1
  <2>3. QED  BY <1>1, <1>2, <2>2 DEF Over, Reads
<1>4. ~(s.c > Len(N))
  BY DEF Over
<1>5. Weight(P, s) = a * (m + 1) + p
  BY <1>2 DEF Weight, Reads
<1>6. CASE s.p <= Len(P) /\ P[s.p] = N[s.c]
  <2>1. t = [p |-> s.p + 1, c |-> s.c + 1, star |-> s.star, after |-> s.after]
    BY <1>1, <1>4, <1>6 DEF MatchTurn
  <2>2. t.p = s.p + 1 /\ t.c = s.c + 1 /\ t.star = s.star /\ t.after = s.after
    BY <2>1
  <2>3. LoopHolds(P, N, t)
    BY <1>3, <1>6, <2>2, TurnTakes
  <2>4. Weight(P, t) = a * (m + 1) + (p + 1)
    BY <1>2, <2>2 DEF Weight, Reads
  <2>5. QED  BY <1>1, <1>5, <2>3, <2>4, TimesGrows
<1>7. CASE ~(s.p <= Len(P) /\ P[s.p] = N[s.c]) /\ s.p <= Len(P) /\ P[s.p] = "*"
  <2>1. t = [p |-> s.p + 1, c |-> s.c, star |-> s.p, after |-> s.c]
    BY <1>1, <1>4, <1>7 DEF MatchTurn
  <2>2. t.p = s.p + 1 /\ t.c = s.c /\ t.star = s.p /\ t.after = s.c
    BY <2>1
  <2>3. LoopHolds(P, N, t)
    BY <1>3, <1>7, <2>2, TurnStars
  <2>4. Weight(P, t) = c * (m + 1) + (p + 1)
    BY <1>2, <2>2 DEF Weight, Reads
  <2>5. a * (m + 1) \in Nat /\ c * (m + 1) \in Nat /\ a * (m + 1) <= c * (m + 1)
    BY <1>2, TimesGrows DEF Ordered
  <2>6. QED  BY <1>1, <1>5, <2>3, <2>4, <2>5
<1>8. CASE ~(s.p <= Len(P) /\ P[s.p] = N[s.c]) /\ ~(s.p <= Len(P) /\ P[s.p] = "*")
  <2>1. s.star # 0
    BY <1>1, <1>3, <1>4, <1>8 DEF MatchTurn
  <2>2. t = [p |-> s.star + 1, c |-> s.after + 1, star |-> s.star, after |-> s.after + 1]
    BY <1>1, <1>4, <1>8, <2>1 DEF MatchTurn
  <2>3. t.p = s.star + 1 /\ t.c = s.after + 1 /\ t.star = s.star /\ t.after = s.after + 1
    BY <2>2
  <2>4. LoopHolds(P, N, t)
    BY <1>3, <1>8, <2>1, <2>3, TurnGoesBack
  <2>5. Weight(P, t) = (a + 1) * (m + 1) + (z + 1)
    BY <1>2, <2>3 DEF Weight, Reads
  <2>6. (a + 1) * (m + 1) = a * (m + 1) + (m + 1) /\ a * (m + 1) \in Nat
    BY <1>2
  <2>7. p <= m + 1
    BY <1>2 DEF Ordered
  <2>8. QED  BY <1>1, <1>5, <2>4, <2>5, <2>6, <2>7
<1>9. QED  BY <1>6, <1>7, <1>8

(* When the loop is over, the candidate matches if it is at its end and     *)
(* only stars are left of the pattern.                                      *)
LEMMA LoopDecides ==
  ASSUME NEW P, NEW N, Pair(P, N), NEW s, LoopHolds(P, N, s), Over(P, N, s)
  PROVE  Glob(P, N) <=> s.c > Len(N) /\ \A i \in s.p .. Len(P) : P[i] = "*"
<1>1. PICK m \in Nat, n \in Nat, p \in Nat, c \in Nat, z \in Nat, a \in Nat :
        Reads(P, N, s, m, n, p, c, z, a) /\ Ordered(m, n, p, c, z, a)
  BY Numbers DEF LoopHolds
<1>2. CASE s.c > Len(N)
  <2>1. c = n + 1 /\ p \in 1 .. m + 1
    BY <1>1, <1>2 DEF Reads, Ordered
  <2>2. GlobFrom(P, N, p, c) <=> \A i \in p .. Len(P) : P[i] = "*"
    BY <1>1, <2>1, GlobEnds DEF Pair, Reads
  <2>3. Remains(P, N, s) <=> GlobFrom(P, N, p, c)
    <3>1. CASE s.star = 0
      BY <1>1, <3>1 DEF Remains, Reads
    <3>2. CASE s.star # 0
      <4>1. /\ GlobFrom(P, N, s.star + 1, a) <=> GlobFrom(P, N, p, c)
            /\ \A k \in a .. n + 1 : GlobFrom(P, N, s.star + 1, k) => k + (c - a) <= n + 1
        BY <1>1, <3>2, RemainsHere DEF Reads
      <4>2. a \in a .. n + 1 /\ \A k \in a .. n + 1 : k + (c - a) <= n + 1 => k = a
        BY <1>1, <2>1 DEF Ordered
      <4>3. (\E k \in a .. n + 1 : GlobFrom(P, N, s.star + 1, k)) <=> GlobFrom(P, N, p, c)
        BY <4>1, <4>2
      <4>4. QED  BY <1>1, <3>2, <4>3 DEF Remains, Reads
    <3>3. QED  BY <3>1, <3>2
  <2>4. QED  BY <1>1, <1>2, <2>2, <2>3 DEF LoopHolds, Reads
<1>3. CASE ~(s.c > Len(N))
  <2>1. MatchTurn(P, N, s) = s /\ c \in 1 .. n /\ p \in 1 .. m + 1
    <3>1. ~(c > n)
      BY <1>1, <1>3 DEF Reads
    <3>2. QED  BY <1>1, <1>3, <3>1 DEF Over, Ordered
  <2>2. ~(s.p <= Len(P) /\ P[s.p] = N[s.c])
    <3>1. s.p <= Len(P) /\ P[s.p] = N[s.c] => MatchTurn(P, N, s).p = p + 1
      BY <1>1, <1>3 DEF MatchTurn, Reads
    <3>2. QED  BY <1>1, <2>1, <3>1 DEF Reads
  <2>3. ~(s.p <= Len(P) /\ P[s.p] = "*")
    <3>1. s.p <= Len(P) /\ P[s.p] = "*" => MatchTurn(P, N, s).p = p + 1
      BY <1>1, <1>3, <2>2 DEF MatchTurn, Reads
    <3>2. QED  BY <1>1, <2>1, <3>1 DEF Reads
  <2>4. s.star = 0
    <3>1. s.star # 0 => MatchTurn(P, N, s).after = a + 1
      BY <1>1, <1>3, <2>2, <2>3 DEF MatchTurn, Reads
    <3>2. QED  BY <1>1, <2>1, <3>1 DEF Reads
  <2>5. ~GlobFrom(P, N, p, c)
    <3>1. ~(p <= Len(P) /\ P[p] = N[c]) /\ ~(p <= Len(P) /\ P[p] = "*")
      BY <1>1, <2>2, <2>3 DEF Reads
    <3>2. p \in 1 .. Len(P) + 1 /\ c \in 1 .. Len(N)
      BY <1>1, <2>1 DEF Reads
    <3>3. QED  BY <3>1, <3>2, HereLiteral
  <2>6. QED  BY <1>1, <1>3, <2>4, <2>5 DEF LoopHolds, Remains, Reads
<1>4. QED  BY <1>2, <1>3

AtFirst == [p |-> 1, c |-> 1, star |-> 0, after |-> 0]
IsLoop(g, P, N, k) ==
  g = [n \in 0 .. k |-> IF n = 0 THEN AtFirst ELSE MatchTurn(P, N, g[n - 1])]

LEMMA LoopExists == ASSUME NEW P, NEW N, NEW k \in Nat  PROVE \E g : IsLoop(g, P, N, k)
<1> DEFINE T == {n \in Nat : \E g : IsLoop(g, P, N, n)}
<1>1. 0 \in T
  <2>1. IsLoop([n \in 0 .. 0 |-> AtFirst], P, N, 0)
    BY DEF IsLoop
  <2>2. QED  BY <2>1
<1>2. ASSUME NEW n \in 0 .. (k - 1), n \in T  PROVE n + 1 \in T
  <2>1. PICK g : IsLoop(g, P, N, n)
    BY <1>2
  <2> DEFINE h == [i \in 0 .. (n + 1) |-> IF i = n + 1 THEN MatchTurn(P, N, g[n]) ELSE g[i]]
  <2>2. \A i \in 0 .. n : g[i] = IF i = 0 THEN AtFirst ELSE MatchTurn(P, N, g[i - 1])
    BY <2>1 DEF IsLoop
  <2>3. ASSUME NEW i \in 0 .. (n + 1)
        PROVE  h[i] = IF i = 0 THEN AtFirst ELSE MatchTurn(P, N, h[i - 1])
    <3>1. CASE i = n + 1
      <4>1. h[i - 1] = g[n] /\ i # 0
        BY <3>1
      <4>2. QED  BY <3>1, <4>1
    <3>2. CASE i # n + 1
      <4>1. i \in 0 .. n /\ h[i] = g[i]
        BY <3>2
      <4>2. i # 0 => h[i - 1] = g[i - 1]
        BY <4>1
      <4>3. QED  BY <2>2, <4>1, <4>2
    <3>3. QED  BY <3>1, <3>2
  <2>4. IsLoop(h, P, N, n + 1)
    BY <2>3 DEF IsLoop
  <2>5. QED  BY <2>4
<1>3. \A n \in 0 .. k : n \in T
  <2> HIDE DEF T
  <2>1. QED  BY <1>1, <1>2, Climbs
<1>4. QED  BY <1>3

LEMMA LoopHoldsAtFirst == ASSUME NEW P, NEW N, Pair(P, N)  PROVE LoopHolds(P, N, AtFirst)
<1>1. AtFirst.p = 1 /\ AtFirst.c = 1 /\ AtFirst.star = 0 /\ AtFirst.after = 0
  BY DEF AtFirst
<1>2. InRange(P, N, AtFirst)
  BY <1>1 DEF InRange, Pair
<1>3. QED  BY <1>1, <1>2, GlobIsFrom DEF LoopHolds, Remains

(* The search with its one position to go back to finds every match, in the *)
(* turns that the model lets it have.                                       *)
LEMMA WildcardsAreGlobs ==
  ASSUME NEW P, NEW N, Pair(P, N)  PROVE WildcardMatches(P, N) <=> Glob(P, N)
<1>1. PICK turns \in Nat : turns = Turns(P, N)
  BY DEF Pair, Turns
<1> DEFINE g == CHOOSE f : IsLoop(f, P, N, turns)
           T == {k \in Nat : LoopHolds(P, N, g[k]) /\ (Over(P, N, g[k]) \/ k + 1 <= Weight(P, g[k]))}
<1>2. IsLoop(g, P, N, turns)
  BY LoopExists
<1>3. WildcardMatches(P, N) <=>
        \/ P = <<"*">>
        \/ g[turns].c > Len(N) /\ \A i \in g[turns].p .. Len(P) : P[i] = "*"
  BY <1>1, Zenon DEF WildcardMatches, IsLoop, AtFirst
<1> HIDE DEF g
<1>4. \A k \in 0 .. turns : g[k] = IF k = 0 THEN AtFirst ELSE MatchTurn(P, N, g[k - 1])
  BY <1>2 DEF IsLoop
<1>5. 0 \in T
  <2>1. g[0] = AtFirst
    BY <1>4
  <2>2. Weight(P, AtFirst) = 1
    BY DEF Weight, AtFirst, Pair
  <2>3. QED  BY <2>1, <2>2, LoopHoldsAtFirst
<1>6. ASSUME NEW k \in 0 .. turns - 1, k \in T  PROVE k + 1 \in T
  <2>1. g[k + 1] = MatchTurn(P, N, g[k])
    BY <1>4
  <2>2. PICK s, t : s = g[k] /\ t = g[k + 1] /\ t = MatchTurn(P, N, s)
    BY <2>1
  <2>3. LoopHolds(P, N, s) /\ (Over(P, N, s) \/ k + 1 <= Weight(P, s))
    BY <1>6, <2>2
  <2>4. CASE Over(P, N, s)
    <3>1. t = s
      BY <2>2, <2>4 DEF Over, MatchTurn
    <3>2. LoopHolds(P, N, t) /\ Over(P, N, t)
      BY <2>3, <2>4, <3>1
    <3>3. LoopHolds(P, N, g[k + 1]) /\ Over(P, N, g[k + 1])
      BY <2>2, <3>2, Zenon
    <3>4. QED  BY <3>3
  <2>5. CASE ~Over(P, N, s)
    <3>1. LoopHolds(P, N, t) /\ Weight(P, s) \in Nat /\ Weight(P, t) \in Nat
          /\ Weight(P, s) + 1 <= Weight(P, t)
      BY <2>2, <2>3, <2>5, TurnHolds
    <3>2. (k + 1) + 1 <= Weight(P, t)
      BY <2>3, <2>5, <3>1
    <3>3. LoopHolds(P, N, g[k + 1]) /\ (k + 1) + 1 <= Weight(P, g[k + 1])
      BY <2>2, <3>1, <3>2, Zenon
    <3>4. QED  BY <3>3
  <2>6. QED  BY <2>4, <2>5
<1>7. turns \in T
  <2> HIDE DEF T
  <2>1. \A k \in 0 .. turns : k \in T
    BY <1>5, <1>6, Climbs
  <2>2. QED  BY <2>1
<1>8. PICK s : s = g[turns]
  OBVIOUS
<1>9. LoopHolds(P, N, s) /\ Over(P, N, s)
  <2>1. LoopHolds(P, N, s) /\ (Over(P, N, s) \/ turns + 1 <= Weight(P, s))
    BY <1>7, <1>8
  <2>2. SUFFICES ASSUME ~Over(P, N, s)  PROVE FALSE
    BY <2>1
  <2>3. PICK m \in Nat, n \in Nat, p \in Nat, c \in Nat, z \in Nat, a \in Nat :
          Reads(P, N, s, m, n, p, c, z, a) /\ Ordered(m, n, p, c, z, a)
    BY <2>1, Numbers DEF LoopHolds
  <2>4. a <= n /\ p <= m + 1
    <3>1. ~(c > n)
      BY <2>2, <2>3 DEF Over, Reads
    <3>2. QED  BY <2>3, <3>1 DEF Ordered
  <2>5. a * (m + 1) \in Nat /\ n * (m + 1) \in Nat /\ a * (m + 1) <= n * (m + 1)
    BY <2>3, <2>4, TimesGrows
  <2>6. Weight(P, s) = a * (m + 1) + p
    BY <2>3 DEF Weight, Reads
  <2>7. turns = (m + 1) * (n + 1)
    BY <1>1, <2>3 DEF Turns, Reads
  <2>8. (m + 1) * (n + 1) = n * (m + 1) + (m + 1)
    BY <2>3
  <2>9. QED  BY <2>1, <2>2, <2>3, <2>4, <2>5, <2>6, <2>7, <2>8
<1>10. Glob(P, N) <=> s.c > Len(N) /\ \A i \in s.p .. Len(P) : P[i] = "*"
  BY <1>9, LoopDecides
<1>11. P = <<"*">> => Glob(P, N)
  <2>1. SUFFICES ASSUME P = <<"*">>  PROVE GlobFrom(P, N, 1, 1)
    BY GlobIsFrom
  <2>2. Len(P) = 1 /\ P[1] = "*"
    BY <2>1
  <2>3. GlobFrom(P, N, 2, Len(N) + 1)
    <3>1. 2 \in 1 .. Len(P) + 1 /\ 2 .. Len(P) = {} /\ Len(P) \in Nat /\ Len(N) \in Nat
      BY <2>2 DEF Pair
    <3>2. GlobFrom(P, N, 2, Len(N) + 1) <=> \A x \in 2 .. Len(P) : P[x] = "*"
      BY <3>1, GlobEnds
    <3>3. QED  BY <3>1, <3>2
  <2>4. 1 \in 1 .. Len(P) /\ 1 \in 1 .. Len(N) + 1 /\ Len(N) + 1 \in 1 .. Len(N) + 1 /\ 1 + 1 = 2
    BY <2>2 DEF Pair
  <2>5. QED  BY <2>2, <2>3, <2>4, GlobStar DEF Pair
<1>12. QED  BY <1>3, <1>8, <1>10, <1>11

-----------------------------------------------------------------------------
(* The child's environment                                                  *)

ProxyNames == IF plan.net = "filtered" THEN ProxyVars ELSE {}

ScrubHolds ==
  /\ env \in Environments
  /\ stage = "prepared" => kept = env \ Scrubbed(plan.scrub, plan.passthrough)
  /\ stage = "probe" => kept = (env \ Scrubbed(plan.scrub, plan.passthrough)) \cup ProxyNames

LEMMA ScrubStep ==
  ASSUME PathsHold, ScrubHolds, [Next]_vars
  PROVE  ScrubHolds'
<1>1. env' = env
  BY DEF Next, Resolve, Plan, BuildPlan, Launch, LaunchNext, LaunchSteps, Prepare, StartProxy, Probe,
     ScanWrite, OpenWrites, OpenWrite, ScanReads, ScanRead, OpenReads, OpenRead, BuildFilter,
     ApplyLimits, CreateRuleset, AddRules, RestrictSelf, InstallFilter, HandOver, Exec, KernelRefuses,
     Others, OtherNext, Appear, Disappear, vars, sandboxVars
<1>2. CASE Launch /\ Prepare
  <2>1. PICK names : names = env \ Scrubbed(plan.scrub, plan.passthrough)
    OBVIOUS
  <2>2. /\ kept' = names /\ stage' = "prepared" /\ stage = "planned"
        /\ plan' = [plan EXCEPT
            !.read = {PreparedPath(plan.cwd, p, names) : p \in plan.read},
            !.write = {PreparedPath(plan.cwd, p, names) : p \in plan.write}]
    BY <1>2, <2>1 DEF Prepare, Go
  <2>3. plan'.scrub = plan.scrub /\ plan'.passthrough = plan.passthrough
    BY <2>2 DEF PathsHold, PlanIsSound
  <2>4. Scrubbed(plan.scrub, plan.passthrough)' = Scrubbed(plan.scrub, plan.passthrough)
    BY <1>1, <2>3 DEF Scrubbed
  <2>5. QED  BY <1>1, <2>1, <2>2, <2>4 DEF ScrubHolds
<1>3. CASE Launch /\ StartProxy
  <2>1. /\ plan' = plan /\ stage = "prepared"
        /\ stage' = "failed" \/ (stage' = "probe" /\ kept' = kept \cup ProxyNames)
    BY <1>3 DEF StartProxy, Go, GiveUp, ProxyNames
  <2>2. Scrubbed(plan.scrub, plan.passthrough)' = Scrubbed(plan.scrub, plan.passthrough)
        /\ ProxyNames' = ProxyNames
    BY <1>1, <2>1 DEF Scrubbed, ProxyNames
  <2>3. QED  BY <1>1, <2>1, <2>2 DEF ScrubHolds
<1>4. CASE Resolve \/ Others \/ UNCHANGED vars
  <2>1. UNCHANGED <<stage, plan, kept>>
    BY <1>4 DEF Resolve, Others, OtherNext, Appear, Disappear, vars, sandboxVars, launchVars
  <2>2. Scrubbed(plan.scrub, plan.passthrough)' = Scrubbed(plan.scrub, plan.passthrough)
        /\ ProxyNames' = ProxyNames
    BY <1>1, <2>1 DEF Scrubbed, ProxyNames
  <2>3. QED  BY <1>1, <2>1, <2>2 DEF ScrubHolds
<1>5. CASE Plan \/ (Launch /\ ~Prepare /\ ~StartProxy)
  <2>1. stage' \notin {"prepared", "probe"}
    BY <1>5 DEF Plan, BuildPlan, Launch, LaunchNext, LaunchSteps, Probe, ScanWrite, OpenWrites,
       OpenWrite, ScanReads, ScanRead, OpenReads, OpenRead, BuildFilter, ApplyLimits, CreateRuleset,
       AddRules, RestrictSelf, InstallFilter, HandOver, Exec, KernelRefuses, Go, GiveUp
  <2>2. QED  BY <1>1, <2>1 DEF ScrubHolds
<1>6. QED  BY <1>2, <1>3, <1>4, <1>5 DEF Next

LEMMA MatchesAreGlobs ==
  ASSUME ScrubHolds, NEW n \in env, ~Contains(n, "*"), NEW patterns, \A p \in patterns : IsSeq(p)
  PROVE  MatchesAny(n, patterns) <=> \E p \in patterns \ {<<>>} : Glob(p, n)
<1>1. n \in Seq(STRING)
  BY SandboxAssumption DEF ScrubHolds
<1>2. Len(n) \in Nat /\ \A i \in 1 .. Len(n) : n[i] # "*"
  BY <1>1 DEF Contains
<1>3. ASSUME NEW p \in patterns  PROVE Len(p) \in Nat
  BY <1>3 DEF IsSeq
<1>4. \A p \in patterns : WildcardMatches(p, n) <=> Glob(p, n)
  BY <1>2, <1>3, WildcardsAreGlobs DEF Pair
<1>5. QED  BY <1>4 DEF MatchesAny

LEMMA ScrubIsSound == ASSUME ScrubHolds, PathsHold  PROVE ScrubIsGlob
<1> DEFINE Means(patterns, n) == \E p \in patterns \ {<<>>} : Glob(p, n)
           Stays(n) == n \notin Internal /\ (Means(plan.scrub, n) => Means(plan.passthrough, n))
<1>1. SUFFICES ASSUME stage = "probe"
               PROVE  /\ ProxyNames \subseteq kept /\ kept \subseteq env \cup ProxyNames
                      /\ \A n \in env \ ProxyNames : ~Contains(n, "*") => (n \in kept <=> Stays(n))
  BY Zenon DEF ScrubIsGlob, ProxyNames
<1>2. kept = (env \ Scrubbed(plan.scrub, plan.passthrough)) \cup ProxyNames
  BY <1>1 DEF ScrubHolds
<1>3. ASSUME NEW n \in env \ ProxyNames, ~Contains(n, "*")  PROVE n \in kept <=> Stays(n)
  <2>1. \A p \in plan.scrub \cup plan.passthrough : IsSeq(p)
    BY <1>1 DEF PathsHold, PlanIsSound
  <2>2. /\ MatchesAny(n, plan.scrub) <=> Means(plan.scrub, n)
        /\ MatchesAny(n, plan.passthrough) <=> Means(plan.passthrough, n)
    BY <1>3, <2>1, MatchesAreGlobs
  <2>3. n \in kept <=> n \notin Scrubbed(plan.scrub, plan.passthrough)
    BY <1>2
  <2>4. n \in Scrubbed(plan.scrub, plan.passthrough) <=>
          n \in Internal \/ (MatchesAny(n, plan.scrub) /\ ~MatchesAny(n, plan.passthrough))
    BY DEF Scrubbed
  <2> HIDE DEF Means
  <2>5. QED  BY <2>2, <2>3, <2>4
<1>4. QED
  <2> HIDE DEF Stays
  <2>1. QED  BY <1>2, <1>3

(* For every profile and environment: of the names without a star the child *)
(* gets those that are not internal and that no pattern to scrub means but  *)
(* one to pass; the proxy's variables it gets in any case, no other name.   *)
THEOREM EnvironmentIsScrubbed == Spec => []ScrubIsGlob
<1>1. Init => PathsHold /\ EntriesHold /\ ScrubHolds
  <2>1. Init => ScrubHolds
    BY DEF Init, SandboxInit, ScrubHolds
  <2>2. QED  BY <2>1, PathsInit, EntriesInit
<1>2. EntriesHold /\ [Next]_vars => EntriesHold'
  BY EntriesStep
<1>3. PathsHold /\ EntriesHold /\ ScrubHolds /\ [Next]_vars => PathsHold' /\ ScrubHolds'
  BY PathsStep, ScrubStep
<1>4. ScrubHolds /\ PathsHold => ScrubIsGlob
  BY ScrubIsSound
<1>5. QED  BY <1>1, <1>2, <1>3, <1>4, PTL DEF Spec

-----------------------------------------------------------------------------
(* The directories a path comes through                                     *)

At(p) == Location(WorkDir, p)
Comes(p, n) == \A i \in 1 .. n : IsDirectory(At(SubSeq(p, 1, i)))

LEMMA SameAnywhere == ASSUME NEW c, NEW p, Absolute(p)  PROVE Location(c, p) = At(p)
<1>1. Join(c, p) = p /\ Join(WorkDir, p) = p
  BY DEF Join
<1>2. QED  BY <1>1, Zenon DEF Location, At

LEMMA PartOfPath ==
  ASSUME NEW p, IsPath(p), NEW n \in 1 .. Len(p)
  PROVE  /\ IsPath(SubSeq(p, 1, n)) /\ Len(p) \in Nat /\ Len(SubSeq(p, 1, n)) = n
         /\ \A i \in 1 .. n : SubSeq(p, 1, n)[i] = p[i]
<1>1. IsSeq(p) /\ p[1] = "/"
  BY DEF IsPath, Absolute
<1>2. PICK q : q = SubSeq(p, 1, n)
  OBVIOUS
<1>3. IsSeq(q) /\ Len(p) \in Nat /\ Len(q) = n /\ \A i \in 1 .. n : q[i] = p[i]
  BY <1>1, <1>2, UptoAny
<1>4. q # <<>> /\ q[1] = "/"
  <2>1. n # 0 /\ 1 \in 1 .. n
    BY <1>3
  <2>2. QED  BY <1>1, <1>3, <2>1, EmptyIsSeq
<1>5. QED  BY <1>2, <1>3, <1>4 DEF IsPath, Absolute

LEMMA PathLen == ASSUME NEW p, IsPath(p)  PROVE Len(p) \in Nat \ {0} /\ SubSeq(p, 1, Len(p)) = p
<1>1. IsSeq(p) /\ p # <<>>
  BY DEF IsPath, Absolute
<1>2. Len(p) \in 1 .. Len(p) /\ SubSeq(p, 1, Len(p)) = p /\ Len(p) \in Nat
  BY <1>1, UptoFull DEF IsSeq
<1>3. QED  BY <1>2

LEMMA StepsInto ==
  ASSUME NEW p, IsPath(p)
  PROVE  /\ At(SubSeq(p, 1, 1)) = <<"/">>
         /\ \A n \in 1 .. (Len(p) - 1) : At(SubSeq(p, 1, n + 1)) = Into(At(SubSeq(p, 1, n)), p[n + 1])
BY LocationWalks DEF IsPath, At

LEMMA OfJoin ==
  ASSUME NEW c, NEW p, IsPath(Join(c, p))
  PROVE  /\ Location(c, p) = At(Join(c, p))
         /\ Leads(c, p) <=> Comes(Join(c, p), Len(Join(c, p)) - 1)
<1>1. PICK x : x = Join(c, p)
  OBVIOUS
<1>2. Join(WorkDir, x) = x /\ IsPath(x)
  BY <1>1 DEF Join, IsPath
<1>3. Location(c, p) = At(x)
  BY <1>1, <1>2, Zenon DEF Location, At
<1>4. ASSUME NEW n \in 1 .. (Len(x) - 1)  PROVE Location(c, SubSeq(x, 1, n)) = At(SubSeq(x, 1, n))
  <2>1. n \in 1 .. Len(x)
    BY <1>2, PathLen
  <2>2. Absolute(SubSeq(x, 1, n))
    BY <1>2, <2>1, PartOfPath DEF IsPath
  <2>3. QED  BY <2>2, SameAnywhere
<1>5. Leads(c, p) <=> Comes(x, Len(x) - 1)
  BY <1>1, <1>4 DEF Leads, Comes
<1>6. QED  BY <1>1, <1>3, <1>5

(* A location has no "." and no "..": it is its own.                        *)
Clean(l) == IsPath(l) /\ \A i \in 2 .. Len(l) : l[i] \notin {".", ".."}

LEMMA IntoIsClean == ASSUME NEW l, Clean(l), NEW c  PROVE Clean(Into(l, c))
<1>1. IsPath(l) /\ IsSeq(l) /\ l # <<>> /\ Len(l) \in Nat \ {0}
  BY PathLen DEF Clean, IsPath, Absolute
<1>2. CASE c = "."
  BY <1>2 DEF Into
<1>3. CASE c = ".."
  <2>1. CASE Len(l) > 1
    <3>1. PICK q : q = Front(l)
      OBVIOUS
    <3>2. IsPath(q) /\ Len(q) = Len(l) - 1 /\ \A i \in 1 .. (Len(l) - 1) : q[i] = l[i]
      BY <1>1, <2>1, <3>1, PathFront, FrontAny
    <3>3. \A i \in 2 .. Len(q) : i \in 2 .. Len(l) /\ q[i] = l[i]
      BY <1>1, <3>2
    <3>4. Clean(q)
      BY <3>2, <3>3 DEF Clean
    <3>5. QED  BY <1>3, <2>1, <3>1, <3>4 DEF Into
  <2>2. QED  BY <1>3, <2>1 DEF Into
<1>4. CASE c \notin {".", ".."}
  <2>1. PICK q : q = Append(l, c)
    OBVIOUS
  <2>2. /\ IsPath(q) /\ Len(q) = Len(l) + 1
        /\ \A i \in 1 .. Len(l) : q[i] = l[i]
        /\ q[Len(l) + 1] = c
    BY <1>1, <2>1, PathAppend, AppendAny
  <2>3. ASSUME NEW i \in 2 .. Len(q)  PROVE q[i] \notin {".", ".."}
    <3>1. CASE i = Len(l) + 1
      BY <1>4, <2>2, <3>1
    <3>2. CASE i # Len(l) + 1
      <4>1. i \in 1 .. Len(l) /\ i \in 2 .. Len(l)
        BY <1>1, <2>2, <3>2
      <4>2. QED  BY <2>2, <4>1 DEF Clean
    <3>3. QED  BY <3>1, <3>2
  <2>4. QED  BY <1>4, <2>1, <2>2, <2>3 DEF Into, Clean
<1>5. QED  BY <1>2, <1>3, <1>4

LEMMA LocationIsClean == ASSUME NEW p, IsPath(p)  PROVE Clean(At(p))
<1> DEFINE T == {n \in Nat : Clean(At(SubSeq(p, 1, n)))}
<1>1. 1 \in T
  <2>1. Len(<<"/">>) = 1 /\ 2 .. 1 = {}
    OBVIOUS
  <2>2. Clean(<<"/">>)
    BY <2>1, RootIsPath DEF Clean
  <2>3. QED  BY <2>2, StepsInto
<1>2. ASSUME NEW n \in 1 .. (Len(p) - 1), n \in T  PROVE n + 1 \in T
  <2>1. Clean(At(SubSeq(p, 1, n))) /\ n + 1 \in Nat
    BY <1>2
  <2>2. QED  BY <2>1, StepsInto, IntoIsClean
<1>3. Len(p) \in Nat \ {0} /\ SubSeq(p, 1, Len(p)) = p
  BY PathLen
<1>4. Len(p) \in T
  <2>1. \A n \in 1 .. Len(p) : n \in T
    <3> HIDE DEF T
    <3>1. 1 \in Nat /\ Len(p) \in Nat
      BY <1>3
    <3>2. QED  BY <1>1, <1>2, <3>1, Climbs
  <2>2. QED  BY <1>3, <2>1
<1>5. QED  BY <1>3, <1>4

LEMMA CleanStays ==
  ASSUME NEW l, Clean(l), NEW k \in 1 .. Len(l)
  PROVE  At(SubSeq(l, 1, k)) = SubSeq(l, 1, k)
<1> DEFINE T == {n \in Nat : At(SubSeq(l, 1, n)) = SubSeq(l, 1, n)}
<1>1. IsPath(l) /\ Len(l) \in Nat \ {0} /\ l[1] = "/"
  BY PathLen DEF Clean, IsPath, Absolute
<1>2. 1 \in T
  <2>1. PICK q : q = SubSeq(l, 1, 1)
    OBVIOUS
  <2>2. 1 \in 1 .. Len(l) /\ 1 \in 1 .. 1
    BY <1>1
  <2>3. IsPath(q) /\ Len(q) = 1 /\ q[1] = "/"
    BY <1>1, <2>1, <2>2, PartOfPath
  <2>4. IsSeq(<<"/">>) /\ Len(<<"/">>) = 1 /\ <<"/">>[1] = "/"
    BY RootIsPath DEF IsPath
  <2>5. \A i \in 1 .. Len(q) : q[i] = <<"/">>[i]
    <3>1. \A i \in 1 .. 1 : i = 1
      OBVIOUS
    <3>2. QED  BY <2>3, <2>4, <3>1
  <2>6. q = <<"/">>
    BY <2>3, <2>4, <2>5, SameAny DEF IsPath
  <2>7. QED  BY <1>1, <2>1, <2>6, StepsInto
<1>3. ASSUME NEW n \in 1 .. (Len(l) - 1), n \in T  PROVE n + 1 \in T
  <2>1. PICK q, r : q = SubSeq(l, 1, n) /\ r = SubSeq(l, 1, n + 1)
    OBVIOUS
  <2>2. n \in 1 .. Len(l) /\ n + 1 \in 1 .. Len(l) /\ n + 1 \in 2 .. Len(l) /\ n \in Nat
    BY <1>1
  <2>3. /\ IsPath(q) /\ Len(q) = n /\ \A i \in 1 .. n : q[i] = l[i]
        /\ IsPath(r) /\ Len(r) = n + 1 /\ \A i \in 1 .. (n + 1) : r[i] = l[i]
    BY <1>1, <2>1, <2>2, PartOfPath
  <2>4. At(q) = q /\ At(r) = Into(q, l[n + 1])
    BY <1>1, <1>3, <2>1, StepsInto
  <2>5. Into(q, l[n + 1]) = Append(q, l[n + 1])
    BY <2>2 DEF Clean, Into
  <2>6. PICK s : s = Append(q, l[n + 1])
    OBVIOUS
  <2>7. IsSeq(q) /\ IsSeq(r)
    BY <2>3 DEF IsPath
  <2>8. IsSeq(s) /\ Len(s) = n + 1 /\ (\A i \in 1 .. n : s[i] = q[i]) /\ s[n + 1] = l[n + 1]
    BY <2>3, <2>6, <2>7, AppendAny
  <2>9. ASSUME NEW i \in 1 .. Len(s)  PROVE s[i] = r[i]
    <3>1. CASE i = n + 1
      BY <2>2, <2>3, <2>8, <3>1
    <3>2. CASE i # n + 1
      <4>1. i \in 1 .. n /\ i \in 1 .. (n + 1)
        BY <2>2, <2>8, <3>2
      <4>2. QED  BY <2>3, <2>8, <4>1
    <3>3. QED  BY <3>1, <3>2
  <2>10. s = r
    BY <2>3, <2>7, <2>8, <2>9, SameAny
  <2>11. At(r) = r
    BY <2>4, <2>5, <2>6, <2>10
  <2>12. n + 1 \in Nat
    BY <2>2
  <2>13. QED  BY <2>1, <2>11, <2>12
<1>4. k \in T
  <2>1. \A n \in 1 .. Len(l) : n \in T
    <3> HIDE DEF T
    <3>1. 1 \in Nat /\ Len(l) \in Nat
      BY <1>1
    <3>2. QED  BY <1>2, <1>3, <3>1, Climbs
  <2>2. QED  BY <2>1
<1>5. QED  BY <1>4

LEMMA PathThen ==
  ASSUME NEW a, IsPath(a), NEW r, IsSeq(r)
  PROVE  /\ IsPath(a \o r) /\ Len(r) \in Nat /\ Len(a \o r) = Len(a) + Len(r)
         /\ \A n \in 1 .. Len(a) : SubSeq(a \o r, 1, n) = SubSeq(a, 1, n)
         /\ \A i \in 1 .. Len(r) : (a \o r)[Len(a) + i] = r[i]
<1>1. PICK S, R : a \in Seq(S) /\ r \in Seq(R)
  BY DEF IsPath, IsSeq
<1>2. a \in Seq(S \cup R) /\ r \in Seq(S \cup R)
  BY <1>1, SeqMonotonic
<1>3. PICK x : x = a \o r
  OBVIOUS
<1>4. /\ Len(x) = Len(a) + Len(r) /\ Len(r) \in Nat /\ Len(a) \in Nat
      /\ \A i \in 1 .. Len(a) + Len(r) : x[i] = IF i <= Len(a) THEN a[i] ELSE r[i - Len(a)]
  BY <1>2, <1>3, ConcatProperties
<1>5. IsPath(x)
  BY <1>3, ConcatAny DEF IsPath
<1>6. ASSUME NEW n \in 1 .. Len(a)  PROVE SubSeq(x, 1, n) = SubSeq(a, 1, n)
  <2>1. n \in 1 .. Len(x)
    BY <1>4
  <2>2. PICK y, b : y = SubSeq(x, 1, n) /\ b = SubSeq(a, 1, n)
    OBVIOUS
  <2>3. /\ IsPath(y) /\ Len(y) = n /\ \A i \in 1 .. n : y[i] = x[i]
        /\ IsPath(b) /\ Len(b) = n /\ \A i \in 1 .. n : b[i] = a[i]
    BY <1>5, <2>1, <2>2, PartOfPath
  <2>4. ASSUME NEW i \in 1 .. Len(y)  PROVE y[i] = b[i]
    <3>1. i \in 1 .. n /\ i \in 1 .. Len(a) + Len(r) /\ i <= Len(a)
      BY <1>4, <2>3
    <3>2. x[i] = a[i]
      BY <1>4, <3>1
    <3>3. QED  BY <2>3, <3>1, <3>2
  <2>5. QED  BY <2>2, <2>3, <2>4, SameAny DEF IsPath
<1>7. ASSUME NEW i \in 1 .. Len(r)  PROVE x[Len(a) + i] = r[i]
  <2>1. Len(a) + i \in 1 .. Len(a) + Len(r) /\ ~(Len(a) + i <= Len(a)) /\ Len(a) + i - Len(a) = i
    BY <1>4
  <2>2. QED  BY <1>4, <2>1
<1>8. QED  BY <1>3, <1>4, <1>5, <1>6, <1>7

(* What follows a path leads on from its location, however it is spelled.   *)
LEMMA SameTail ==
  ASSUME NEW a, IsPath(a), NEW b, IsPath(b), At(a) = At(b), NEW r, IsSeq(r)
  PROVE  \A i \in 0 .. Len(r) : At(SubSeq(a \o r, 1, Len(a) + i)) = At(SubSeq(b \o r, 1, Len(b) + i))
<1>1. PICK x, y : x = a \o r /\ y = b \o r
  OBVIOUS
<1>2. /\ IsPath(x) /\ Len(r) \in Nat /\ Len(x) = Len(a) + Len(r)
      /\ \A n \in 1 .. Len(a) : SubSeq(x, 1, n) = SubSeq(a, 1, n)
      /\ \A i \in 1 .. Len(r) : x[Len(a) + i] = r[i]
      /\ IsPath(y) /\ Len(y) = Len(b) + Len(r)
      /\ \A n \in 1 .. Len(b) : SubSeq(y, 1, n) = SubSeq(b, 1, n)
      /\ \A i \in 1 .. Len(r) : y[Len(b) + i] = r[i]
  BY <1>1, PathThen
<1>3. /\ Len(a) \in Nat \ {0} /\ SubSeq(a, 1, Len(a)) = a
      /\ Len(b) \in Nat \ {0} /\ SubSeq(b, 1, Len(b)) = b
  BY PathLen
<1> DEFINE T == {i \in Nat : At(SubSeq(x, 1, Len(a) + i)) = At(SubSeq(y, 1, Len(b) + i))}
<1>4. 0 \in T
  <2>1. Len(a) \in 1 .. Len(a) /\ Len(b) \in 1 .. Len(b) /\ Len(a) + 0 = Len(a) /\ Len(b) + 0 = Len(b)
    BY <1>3
  <2>2. SubSeq(x, 1, Len(a)) = a /\ SubSeq(y, 1, Len(b)) = b
    BY <1>2, <1>3, <2>1
  <2>3. QED  BY <2>1, <2>2
<1>5. ASSUME NEW i \in 0 .. (Len(r) - 1), i \in T  PROVE i + 1 \in T
  <2>1. /\ i + 1 \in 1 .. Len(r) /\ i \in Nat /\ i + 1 \in Nat
        /\ Len(a) + i \in 1 .. (Len(x) - 1) /\ Len(b) + i \in 1 .. (Len(y) - 1)
        /\ Len(a) + i + 1 = Len(a) + (i + 1) /\ Len(b) + i + 1 = Len(b) + (i + 1)
    BY <1>2, <1>3
  <2>2. At(SubSeq(x, 1, Len(a) + i + 1)) = Into(At(SubSeq(x, 1, Len(a) + i)), x[Len(a) + i + 1])
    BY <1>2, <2>1, StepsInto
  <2>3. At(SubSeq(y, 1, Len(b) + i + 1)) = Into(At(SubSeq(y, 1, Len(b) + i)), y[Len(b) + i + 1])
    BY <1>2, <2>1, StepsInto
  <2>4. x[Len(a) + i + 1] = r[i + 1] /\ y[Len(b) + i + 1] = r[i + 1]
    BY <1>2, <2>1
  <2>5. At(SubSeq(x, 1, Len(a) + (i + 1))) = At(SubSeq(y, 1, Len(b) + (i + 1)))
    BY <1>5, <2>1, <2>2, <2>3, <2>4
  <2>6. QED  BY <2>1, <2>5
<1>6. \A i \in 0 .. Len(r) : i \in T
  <2> HIDE DEF T
  <2>1. 0 \in Nat /\ Len(r) \in Nat
    BY <1>2
  <2>2. QED  BY <1>4, <1>5, <2>1, Climbs
<1>7. QED  BY <1>1, <1>6

LEMMA SameOnward ==
  ASSUME NEW a, IsPath(a), Comes(a, Len(a)), NEW b, IsPath(b), Comes(b, Len(b)), At(a) = At(b),
         NEW r, IsSeq(r)
  PROVE  /\ At(a \o r) = At(b \o r)
         /\ Comes(a \o r, Len(a \o r) - 1) <=> Comes(b \o r, Len(b \o r) - 1)
<1>1. PICK x, y : x = a \o r /\ y = b \o r
  OBVIOUS
<1>2. /\ IsPath(x) /\ Len(r) \in Nat /\ Len(x) = Len(a) + Len(r)
      /\ \A n \in 1 .. Len(a) : SubSeq(x, 1, n) = SubSeq(a, 1, n)
      /\ IsPath(y) /\ Len(y) = Len(b) + Len(r)
      /\ \A n \in 1 .. Len(b) : SubSeq(y, 1, n) = SubSeq(b, 1, n)
  BY <1>1, PathThen
<1>3. Len(a) \in Nat \ {0} /\ Len(b) \in Nat \ {0} /\ SubSeq(x, 1, Len(x)) = x /\ SubSeq(y, 1, Len(y)) = y
  BY <1>2, PathLen
<1>4. \A i \in 0 .. Len(r) : At(SubSeq(x, 1, Len(a) + i)) = At(SubSeq(y, 1, Len(b) + i))
  BY <1>1, SameTail
<1>5. At(x) = At(y)
  <2>1. Len(r) \in 0 .. Len(r)
    BY <1>2
  <2>2. QED  BY <1>2, <1>3, <1>4, <2>1
<1>6. ASSUME Comes(x, Len(x) - 1), NEW n \in 1 .. (Len(y) - 1)  PROVE IsDirectory(At(SubSeq(y, 1, n)))
  <2>1. CASE n \in 1 .. Len(b)
    BY <1>2, <2>1 DEF Comes
  <2>2. CASE n \notin 1 .. Len(b)
    <3>1. n - Len(b) \in 0 .. Len(r) /\ Len(b) + (n - Len(b)) = n /\ Len(a) + (n - Len(b)) \in 1 .. (Len(x) - 1)
      BY <1>2, <1>3, <2>2
    <3>2. At(SubSeq(x, 1, Len(a) + (n - Len(b)))) = At(SubSeq(y, 1, n))
      BY <1>4, <3>1
    <3>3. QED  BY <1>6, <3>1, <3>2 DEF Comes
  <2>3. QED  BY <2>1, <2>2
<1>7. ASSUME Comes(y, Len(y) - 1), NEW n \in 1 .. (Len(x) - 1)  PROVE IsDirectory(At(SubSeq(x, 1, n)))
  <2>1. CASE n \in 1 .. Len(a)
    BY <1>2, <2>1 DEF Comes
  <2>2. CASE n \notin 1 .. Len(a)
    <3>1. n - Len(a) \in 0 .. Len(r) /\ Len(a) + (n - Len(a)) = n /\ Len(b) + (n - Len(a)) \in 1 .. (Len(y) - 1)
      BY <1>2, <1>3, <2>2
    <3>2. At(SubSeq(x, 1, n)) = At(SubSeq(y, 1, Len(b) + (n - Len(a))))
      BY <1>4, <3>1
    <3>3. QED  BY <1>7, <3>1, <3>2 DEF Comes
  <2>3. QED  BY <2>1, <2>2
<1>8. QED  BY <1>1, <1>5, <1>6, <1>7 DEF Comes

(* A "." at the end leads nowhere else.                                     *)
LEMMA DotsStay ==
  ASSUME NEW p, IsPath(p), NEW m \in 1 .. Len(p), \A n \in (m + 1) .. Len(p) : p[n] = "."
  PROVE  At(SubSeq(p, 1, m)) = At(p)
<1> DEFINE T == {n \in Nat : At(SubSeq(p, 1, n)) = At(SubSeq(p, 1, m))}
<1>1. Len(p) \in Nat \ {0} /\ SubSeq(p, 1, Len(p)) = p /\ m \in Nat /\ Len(p) \in m .. Len(p)
  BY PathLen
<1>2. m \in T
  BY <1>1
<1>3. ASSUME NEW n \in m .. (Len(p) - 1), n \in T  PROVE n + 1 \in T
  <2>1. n \in 1 .. (Len(p) - 1) /\ n + 1 \in (m + 1) .. Len(p) /\ n + 1 \in Nat
    BY <1>1
  <2>2. At(SubSeq(p, 1, n + 1)) = Into(At(SubSeq(p, 1, n)), ".")
    BY <2>1, StepsInto
  <2>3. Into(At(SubSeq(p, 1, n)), ".") = At(SubSeq(p, 1, n))
    BY DEF Into
  <2>4. QED  BY <1>3, <2>1, <2>2, <2>3
<1>4. Len(p) \in T
  <2>1. \A n \in m .. Len(p) : n \in T
    <3> HIDE DEF T
    <3>1. QED  BY <1>1, <1>2, <1>3, Climbs
  <2>2. QED  BY <1>1, <2>1
<1>5. QED  BY <1>1, <1>4

LEMMA HasGreatest ==
  ASSUME NEW k \in Nat, NEW T, T \subseteq 1 .. k, T # {}
  PROVE  \E m \in T : \A n \in T : m >= n
<1> DEFINE U == {k - n : n \in T}
<1>1. U \subseteq Nat /\ U # {}
  <2>1. \A n \in T : n \in 1 .. k /\ k - n \in Nat
    OBVIOUS
  <2>2. QED  BY <2>1
<1>2. PICK u \in U : \A v \in U : u <= v
  <2> HIDE DEF U
  <2>1. QED  BY <1>1, HasLeast
<1>3. PICK m \in T : u = k - m
  BY <1>2
<1>4. ASSUME NEW n \in T  PROVE m >= n
  <2>1. k - n \in U /\ n \in 1 .. k /\ m \in 1 .. k
    OBVIOUS
  <2>2. k - m <= k - n
    BY <1>2, <1>3, <2>1
  <2>3. QED  BY <2>1, <2>2
<1>5. QED  BY <1>4

LEMMA TrimmedIs ==
  ASSUME NEW p, IsSeq(p), p # <<>>
  PROVE  \E m \in 1 .. Len(p) : /\ Trimmed(p) = SubSeq(p, 1, m)
                                /\ \A n \in (m + 1) .. Len(p) : p[n] = "."
                                /\ p[Len(p)] # "." => m = Len(p)
<1> DEFINE T == {n \in 1 .. Len(p) : n = 1 \/ p[n] # "."}
<1>1. Len(p) \in Nat \ {0}
  BY UptoFull DEF IsSeq
<1>2. T \subseteq 1 .. Len(p) /\ 1 \in T
  BY <1>1
<1>3. \E m \in T : \A n \in T : m >= n
  <2> HIDE DEF T
  <2>1. QED  BY <1>1, <1>2, HasGreatest
<1>4. PICK m \in T : Max(T) = m /\ \A n \in T : m >= n
  <2> HIDE DEF T
  <2>1. Max(T) \in T /\ \A n \in T : Max(T) >= n
    BY <1>3 DEF Max
  <2>2. QED  BY <2>1
<1>5. Trimmed(p) = SubSeq(p, 1, m)
  BY <1>4, Zenon DEF Trimmed
<1>6. ASSUME NEW n \in (m + 1) .. Len(p)  PROVE p[n] = "."
  <2>1. n \in 1 .. Len(p) /\ ~(m >= n)
    BY <1>1, <1>4
  <2>2. QED  BY <1>4, <2>1
<1>7. ASSUME p[Len(p)] # "."  PROVE m = Len(p)
  <2>1. Len(p) \in T
    BY <1>1, <1>7
  <2>2. QED  BY <1>1, <1>4, <2>1
<1>8. QED  BY <1>5, <1>6, <1>7

(* The parent of a path whose last component is a name is a part of it, but *)
(* for the "." at the end.                                                  *)
LEMMA ParentIsPart ==
  ASSUME NEW w, IsPath(w), NEW p, IsSeq(p), p # <<>>, p[Len(p)] # ".", Len(Join(w, p)) > 1
  PROVE  /\ IsSeq(Parent(p))
         /\ \E k \in 1 .. (Len(Join(w, p)) - 1) :
              /\ Join(w, Parent(p)) = SubSeq(Join(w, p), 1, k)
              /\ \A j \in (k + 1) .. (Len(Join(w, p)) - 1) : Join(w, p)[j] = "."
<1>1. PICK x, q : x = Join(w, p) /\ q = Front(p)
  OBVIOUS
<1>2. /\ Len(p) \in Nat \ {0} /\ IsSeq(q) /\ Len(q) = Len(p) - 1
      /\ \A i \in 1 .. (Len(p) - 1) : q[i] = p[i]
  BY <1>1, FrontAny
<1>3. IsPath(x) /\ Len(x) \in Nat \ {0} /\ Len(x) > 1 /\ Len(w) \in Nat \ {0} /\ SubSeq(w, 1, Len(w)) = w
  BY <1>1, JoinIsPath, PathLen
<1>4. Parent(p) = Trimmed(q)
  <2>1. PICK m \in 1 .. Len(p) : Trimmed(p) = SubSeq(p, 1, m) /\ m = Len(p)
    BY TrimmedIs
  <2>2. Trimmed(p) = p
    BY <2>1, UptoFull
  <2>3. QED  BY <1>1, <2>2 DEF Parent
<1>5. CASE q = <<>>
  <2>1. Parent(p) = <<>> /\ ~Absolute(<<>>)
    BY <1>4, <1>5 DEF Trimmed, Absolute
  <2>2. Len(p) = 1
    BY <1>2, <1>5, EmptyIsSeq
  <2>3. ~Absolute(p)
    <3>1. SUFFICES ASSUME Absolute(p)  PROVE FALSE
      OBVIOUS
    <3>2. x = p
      BY <1>1, <3>1 DEF Join
    <3>3. Len(x) = 1 /\ Len(x) > 1
      BY <1>3, <2>2, <3>2
    <3>4. QED  BY <3>3
  <2>4. x = w \o p /\ Join(w, <<>>) = w \o <<>>
    BY <1>1, <2>1, <2>3 DEF Join
  <2>5. Len(x) = Len(w) + 1 /\ SubSeq(x, 1, Len(w)) = w
    <3>1. Len(w) \in 1 .. Len(w)
      BY <1>3
    <3>2. /\ Len(x) = Len(w) + Len(p)
          /\ \A n \in 1 .. Len(w) : SubSeq(x, 1, n) = SubSeq(w, 1, n)
      BY <2>4, PathThen
    <3>3. QED  BY <1>3, <2>2, <3>1, <3>2
  <2>6. w \o <<>> = w
    <3>1. PICK S : w \in Seq(S)
      BY DEF IsPath, IsSeq
    <3>2. QED  BY <3>1
  <2>7. /\ Len(w) \in 1 .. (Len(x) - 1) /\ (Len(w) + 1) .. (Len(x) - 1) = {}
    BY <1>3, <2>5
  <2>8. QED  BY <1>1, <2>1, <2>4, <2>5, <2>6, <2>7, EmptyIsSeq
<1>6. CASE q # <<>>
  <2>1. PICK m \in 1 .. Len(q) : /\ Trimmed(q) = SubSeq(q, 1, m)
                                 /\ \A n \in (m + 1) .. Len(q) : q[n] = "."
    BY <1>2, <1>6, TrimmedIs
  <2>2. PICK t : t = SubSeq(q, 1, m)
    OBVIOUS
  <2>3. IsSeq(t) /\ Len(t) = m /\ \A i \in 1 .. m : t[i] = q[i]
    BY <1>2, <2>2, UptoAny
  <2>4. m \in Nat \ {0} /\ t # <<>> /\ t[1] = p[1] /\ \A i \in 1 .. m : t[i] = p[i]
    <3>1. m \in Nat \ {0} /\ 1 \in 1 .. m /\ \A i \in 1 .. m : i \in 1 .. (Len(p) - 1)
      BY <1>2
    <3>2. QED  BY <1>2, <2>3, <3>1, EmptyIsSeq
  <2>5. CASE Absolute(p)
    <3>1. x = p /\ Absolute(t) /\ Join(w, t) = t
      BY <1>1, <2>4, <2>5 DEF Join, Absolute
    <3>2. m \in 1 .. (Len(x) - 1) /\ m \in 1 .. Len(x)
      BY <1>2, <3>1
    <3>3. t = SubSeq(x, 1, m)
      <4>1. PICK y : y = SubSeq(x, 1, m)
        OBVIOUS
      <4>2. IsSeq(y) /\ Len(y) = m /\ \A i \in 1 .. m : y[i] = p[i]
        BY <1>3, <3>1, <3>2, <4>1, PartOfPath DEF IsPath
      <4>3. Len(t) = Len(y) /\ \A i \in 1 .. Len(t) : t[i] = y[i]
        BY <2>3, <2>4, <4>2
      <4>4. t = y
        BY <2>3, <4>2, <4>3, SameAny
      <4>5. QED  BY <4>1, <4>4
    <3>4. ASSUME NEW j \in (m + 1) .. (Len(x) - 1)  PROVE x[j] = "."
      <4>1. j \in (m + 1) .. Len(q) /\ j \in 1 .. (Len(p) - 1)
        BY <1>2, <3>1
      <4>2. QED  BY <1>2, <2>1, <3>1, <4>1
    <3>5. QED  BY <1>1, <1>4, <2>1, <2>2, <2>3, <3>1, <3>2, <3>3, <3>4
  <2>6. CASE ~Absolute(p)
    <3>1. x = w \o p /\ ~Absolute(t) /\ Join(w, t) = w \o t
      BY <1>1, <2>4, <2>6 DEF Join, Absolute
    <3>2. PICK y : y = w \o t
      OBVIOUS
    <3>3. /\ Len(x) = Len(w) + Len(p) /\ (\A n \in 1 .. Len(w) : SubSeq(x, 1, n) = SubSeq(w, 1, n))
          /\ \A i \in 1 .. Len(p) : x[Len(w) + i] = p[i]
      BY <3>1, PathThen
    <3>4. /\ IsPath(y) /\ Len(y) = Len(w) + m
          /\ \A n \in 1 .. Len(w) : SubSeq(y, 1, n) = SubSeq(w, 1, n)
          /\ \A i \in 1 .. m : y[Len(w) + i] = t[i]
      <4>1. IsSeq(t)
        BY <2>3
      <4>2. /\ IsPath(w \o t) /\ Len(w \o t) = Len(w) + Len(t)
            /\ \A n \in 1 .. Len(w) : SubSeq(w \o t, 1, n) = SubSeq(w, 1, n)
            /\ \A i \in 1 .. Len(t) : (w \o t)[Len(w) + i] = t[i]
        BY <4>1, PathThen
      <4>3. QED  BY <2>3, <3>2, <4>2
    <3>5. /\ Len(w) + m \in 1 .. (Len(x) - 1) /\ Len(w) + m \in 1 .. Len(x)
      BY <1>2, <1>3, <3>3
    <3>6. PICK z : z = SubSeq(x, 1, Len(w) + m)
      OBVIOUS
    <3>7. IsPath(z) /\ Len(z) = Len(w) + m /\ \A i \in 1 .. (Len(w) + m) : z[i] = x[i]
      BY <1>3, <3>5, <3>6, PartOfPath
    <3>8. ASSUME NEW i \in 1 .. Len(w)  PROVE x[i] = y[i]
      <4>1. SubSeq(x, 1, Len(w)) = w /\ SubSeq(y, 1, Len(w)) = w
        <5>1. Len(w) \in 1 .. Len(w)
          BY <1>3
        <5>2. QED  BY <1>3, <3>3, <3>4, <5>1
      <4>2. Len(w) \in 1 .. Len(x) /\ Len(w) \in 1 .. Len(y)
        BY <1>3, <2>4, <3>3, <3>4, <1>2
      <4>3. w[i] = x[i] /\ w[i] = y[i]
        BY <1>3, <3>4, <4>1, <4>2, PartOfPath
      <4>4. QED  BY <4>3
    <3>9. ASSUME NEW i \in 1 .. Len(y)  PROVE y[i] = z[i]
      <4>1. i \in 1 .. (Len(w) + m)
        BY <3>4
      <4>2. CASE i \in 1 .. Len(w)
        BY <3>7, <3>8, <4>1, <4>2
      <4>3. CASE i \notin 1 .. Len(w)
        <5>1. i - Len(w) \in 1 .. m /\ i - Len(w) \in 1 .. Len(p) /\ Len(w) + (i - Len(w)) = i
          BY <1>2, <1>3, <2>4, <4>1, <4>3
        <5>2. y[i] = t[i - Len(w)] /\ x[i] = p[i - Len(w)]
          BY <3>3, <3>4, <5>1
        <5>3. QED  BY <2>4, <3>7, <4>1, <5>1, <5>2
      <4>4. QED  BY <4>2, <4>3
    <3>10. y = z
      BY <3>4, <3>7, <3>9, SameAny DEF IsPath
    <3>11. ASSUME NEW j \in (Len(w) + m + 1) .. (Len(x) - 1)  PROVE x[j] = "."
      <4>1. /\ j - Len(w) \in (m + 1) .. Len(q) /\ j - Len(w) \in 1 .. (Len(p) - 1)
            /\ j - Len(w) \in 1 .. Len(p) /\ Len(w) + (j - Len(w)) = j
        BY <1>2, <1>3, <2>4, <3>3
      <4>2. q[j - Len(w)] = "." /\ q[j - Len(w)] = p[j - Len(w)]
        BY <1>2, <2>1, <4>1
      <4>3. QED  BY <3>3, <4>1, <4>2
    <3>12. QED  BY <1>1, <1>4, <2>1, <2>2, <2>3, <3>1, <3>2, <3>5, <3>6, <3>10, <3>11
  <2>7. QED  BY <2>5, <2>6
<1>7. QED  BY <1>5, <1>6

LEMMA PrefixBoth ==
  ASSUME NEW p, NEW q, IsPath(p), IsPath(q), IsPrefix(p, q), IsPrefix(q, p)
  PROVE  p = q
<1>1. IsSeq(p) /\ IsSeq(q) /\ p # <<>> /\ q # <<>> /\ Len(p) \in Nat /\ Len(q) \in Nat
  BY PathLen DEF IsPath, Absolute
<1>2. Len(p) <= Len(q) /\ Len(q) <= Len(p) /\ \A i \in 1 .. Len(p) : p[i] = q[i]
  BY <1>1, PrefixMeans
<1>3. QED  BY <1>1, <1>2, SameAny

LEMMA PartIsPrefix ==
  ASSUME NEW p, IsPath(p), NEW n \in 1 .. Len(p)
  PROVE  IsPrefix(SubSeq(p, 1, n), p)
<1>1. PICK q : q = SubSeq(p, 1, n)
  OBVIOUS
<1>2. IsPath(q) /\ Len(q) = n /\ (\A i \in 1 .. n : q[i] = p[i]) /\ Len(p) \in Nat
  BY <1>1, PartOfPath
<1>3. IsSeq(q) /\ q # <<>> /\ IsSeq(p) /\ Len(q) <= Len(p)
  BY <1>2 DEF IsPath, Absolute
<1>4. QED  BY <1>1, <1>2, <1>3, PrefixMeans

(* On a disk, what a directory lies beneath is a directory.                 *)
LEMMA NotBeneathFile ==
  ASSUME disk \in Disks, NEW l \in DOMAIN disk, disk[l].kind # "directory",
         NEW d, IsPath(d), IsDirectory(d)
  PROVE  ~IsPrefix(l, d)
<1>1. /\ \A k \in DOMAIN disk : IsPath(k)
      /\ IsPath(WorkDir)
      /\ \A m \in DOMAIN disk \cup {WorkDir} : ~IsStrictPrefix(l, m) /\ l # WorkDir
  BY ResolverAssumption DEF IsDisk, IsLocation, IsPath, IsSeq
<1>2. SUFFICES ASSUME IsPrefix(l, d)  PROVE FALSE
  OBVIOUS
<1>3. CASE d \in DOMAIN disk
  <2>1. d # l
    BY <1>3 DEF IsDirectory
  <2>2. QED  BY <1>1, <1>2, <1>3, <2>1 DEF IsStrictPrefix
<1>4. CASE d \notin DOMAIN disk
  <2>1. PICK m \in DOMAIN disk \cup {WorkDir} : IsPrefix(d, m)
    BY <1>4 DEF IsDirectory
  <2>2. IsPath(m) /\ IsPath(l)
    BY <1>1
  <2>3. IsPrefix(l, m)
    BY <1>2, <2>1, <2>2, PrefixFurther
  <2>4. m = l
    BY <1>1, <2>3 DEF IsStrictPrefix
  <2>5. d = l
    BY <1>2, <2>1, <2>2, <2>4, PrefixBoth
  <2>6. QED  BY <1>4, <2>5
<1>5. QED  BY <1>3, <1>4

LEMMA FrontOfAppend == ASSUME NEW l, IsSeq(l), NEW c  PROVE Front(Append(l, c)) = l
<1>1. PICK q : q = Append(l, c)
  OBVIOUS
<1>2. IsSeq(q) /\ Len(l) \in Nat /\ Len(q) = Len(l) + 1 /\ \A i \in 1 .. Len(l) : q[i] = l[i]
  BY <1>1, AppendAny
<1>3. q # <<>>
  BY <1>2, EmptyIsSeq
<1>4. IsSeq(Front(q)) /\ Len(Front(q)) = Len(q) - 1 /\ \A i \in 1 .. (Len(q) - 1) : Front(q)[i] = q[i]
  BY <1>2, <1>3, FrontAny
<1>5. Len(q) - 1 = Len(l)
  BY <1>2
<1>6. QED  BY <1>1, <1>2, <1>4, <1>5, SameAny

(* Where a path leads to a file, its parent leads to the directory of the   *)
(* file, as the location of that directory does.                            *)
LEMMA ParentLeads ==
  ASSUME disk \in Disks, NEW p, IsSeq(p), p # <<>>, Leads(WorkDir, p),
         NEW l \in DOMAIN disk, l = Location(WorkDir, p), disk[l].kind # "directory",
         NEW a, a = Join(WorkDir, Parent(p))
  PROVE  /\ IsSeq(Parent(p)) /\ IsPath(a) /\ Comes(a, Len(a))
         /\ IsPath(Front(l)) /\ Comes(Front(l), Len(Front(l)))
         /\ At(a) = At(Front(l))
<1>1. IsPath(WorkDir) /\ IsPath(l)
  BY ResolverAssumption DEF IsDisk, IsLocation, IsPath, IsSeq
<1>2. PICK x : x = Join(WorkDir, p)
  OBVIOUS
<1>3. IsPath(x) /\ Len(x) \in Nat \ {0} /\ SubSeq(x, 1, Len(x)) = x
  BY <1>1, <1>2, JoinIsPath, PathLen
<1>4. l = At(x) /\ Comes(x, Len(x) - 1)
  BY <1>2, <1>3, OfJoin
<1>5. Len(x) > 1
  <2>1. SUFFICES ASSUME Len(x) = 1  PROVE FALSE
    BY <1>3
  <2>2. l = <<"/">>
    BY <1>3, <1>4, <2>1, StepsInto
  <2>3. IsPrefix(l, WorkDir)
    <3>1. WorkDir[1] = "/" /\ Len(WorkDir) \in Nat \ {0} /\ IsSeq(WorkDir)
      BY <1>1, PathLen DEF IsPath, Absolute
    <3>2. IsSeq(l) /\ l # <<>> /\ Len(l) = 1 /\ l[1] = "/"
      BY <1>1, <2>2 DEF IsPath
    <3>3. Len(l) <= Len(WorkDir) /\ \A i \in 1 .. Len(l) : l[i] = WorkDir[i]
      <4>1. \A i \in 1 .. 1 : i = 1
        OBVIOUS
      <4>2. QED  BY <3>1, <3>2, <4>1
    <3>4. QED  BY <3>1, <3>2, <3>3, PrefixMeans
  <2>4. IsStrictPrefix(l, WorkDir) \/ l = WorkDir
    BY <2>3 DEF IsStrictPrefix
  <2>5. QED  BY <2>4, ResolverAssumption DEF IsDisk
<1>6. PICK n, y, d, c : n = Len(x) - 1 /\ y = SubSeq(x, 1, n) /\ d = At(y) /\ c = x[Len(x)]
  OBVIOUS
<1>7. n \in 1 .. Len(x) /\ n \in 1 .. (Len(x) - 1) /\ n + 1 = Len(x) /\ n \in Nat
  BY <1>3, <1>5, <1>6
<1>8. IsPath(y) /\ Len(y) = n /\ \A i \in 1 .. n : y[i] = x[i]
  BY <1>3, <1>6, <1>7, PartOfPath
<1>9. IsDirectory(d) /\ Clean(d) /\ IsPath(d)
  BY <1>4, <1>6, <1>7, <1>8, LocationIsClean DEF Comes, Clean
<1>10. l = Into(d, c)
  BY <1>3, <1>4, <1>6, <1>7, StepsInto
<1>11. ~IsPrefix(l, d)
  BY <1>9, NotBeneathFile
<1>12. c # "." /\ c # ".." /\ l = Append(d, c)
  <2>1. IsPrefix(d, d)
    BY <1>9, PrefixSelf
  <2>2. ASSUME Len(d) > 1  PROVE IsPrefix(Front(d), d)
    <3>1. IsPath(Front(d)) /\ IsSeq(d) /\ d # <<>>
      BY <1>9, <2>2, PathFront DEF IsPath, Absolute
    <3>2. /\ Len(d) \in Nat \ {0} /\ Len(Front(d)) = Len(d) - 1
          /\ \A i \in 1 .. (Len(d) - 1) : Front(d)[i] = d[i]
      BY <3>1, FrontAny
    <3>3. IsSeq(Front(d)) /\ Front(d) # <<>>
      BY <3>1 DEF IsPath, Absolute
    <3>4. QED  BY <3>1, <3>2, <3>3, PrefixMeans
  <2>3. QED  BY <1>10, <1>11, <2>1, <2>2 DEF Into
<1>13. Front(l) = d /\ IsPrefix(d, l) /\ d # l
  <2>1. IsSeq(d)
    BY <1>9 DEF IsPath
  <2>2. d # l
    BY <1>9, <1>11, PrefixSelf
  <2>3. QED  BY <1>9, <1>12, <2>1, <2>2, FrontOfAppend, PathAppend
<1>14. At(d) = d /\ Comes(d, Len(d))
  <2>1. Len(d) \in Nat \ {0} /\ SubSeq(d, 1, Len(d)) = d
    BY <1>9, PathLen
  <2>2. ASSUME NEW i \in 1 .. Len(d)  PROVE At(SubSeq(d, 1, i)) = SubSeq(d, 1, i) /\ IsDirectory(SubSeq(d, 1, i))
    <3>1. PICK u : u = SubSeq(d, 1, i)
      OBVIOUS
    <3>2. At(u) = u /\ IsPath(u) /\ IsPrefix(u, d)
      BY <1>9, <3>1, CleanStays, PartOfPath, PartIsPrefix
    <3>3. IsPrefix(u, l)
      BY <1>1, <1>9, <1>13, <3>2, PrefixFurther
    <3>4. u # l
      BY <1>11, <3>2
    <3>5. u \in DOMAIN disk => disk[u].kind = "directory"
      BY <3>3, <3>4, ResolverAssumption DEF IsDisk, IsStrictPrefix
    <3>6. IsDirectory(u)
      BY <3>3, <3>5 DEF IsDirectory
    <3>7. QED  BY <3>1, <3>2, <3>6
  <2>3. At(SubSeq(d, 1, Len(d))) = SubSeq(d, 1, Len(d))
    BY <2>1, <2>2
  <2>4. QED  BY <2>1, <2>2, <2>3 DEF Comes
<1>15. p[Len(p)] # "." /\ Len(p) \in Nat \ {0}
  <2>1. Len(p) \in Nat \ {0}
    BY UptoFull DEF IsSeq
  <2>2. CASE Absolute(p)
    BY <1>2, <1>6, <1>12, <2>1, <2>2 DEF Join
  <2>3. CASE ~Absolute(p)
    <3>1. x = WorkDir \o p
      BY <1>2, <2>3 DEF Join
    <3>2. Len(x) = Len(WorkDir) + Len(p) /\ \A i \in 1 .. Len(p) : x[Len(WorkDir) + i] = p[i]
      BY <1>1, <3>1, PathThen
    <3>3. x[Len(x)] = p[Len(p)]
      BY <2>1, <3>2
    <3>4. QED  BY <1>6, <1>12, <2>1, <3>3
  <2>4. QED  BY <2>2, <2>3
<1>16. PICK k \in 1 .. n : /\ a = SubSeq(x, 1, k)
                           /\ \A j \in (k + 1) .. n : x[j] = "."
  <2>1. \E k \in 1 .. (Len(x) - 1) : /\ Join(WorkDir, Parent(p)) = SubSeq(x, 1, k)
                                     /\ \A j \in (k + 1) .. (Len(x) - 1) : x[j] = "."
    BY <1>1, <1>2, <1>5, <1>15, ParentIsPart
  <2>2. QED  BY <1>6, <2>1
<1>17. IsSeq(Parent(p))
  BY <1>1, <1>2, <1>5, <1>15, ParentIsPart
<1>18. k \in 1 .. Len(x) /\ k \in 1 .. Len(y) /\ k \in Nat
  BY <1>7, <1>8
<1>19. IsPath(a) /\ Len(a) = k
  BY <1>3, <1>16, <1>18, PartOfPath
<1>20. a = SubSeq(y, 1, k)
  BY <1>3, <1>6, <1>7, <1>16, UptoUpto DEF IsPath
<1>21. At(a) = d
  <2>1. \A j \in (k + 1) .. Len(y) : y[j] = "."
    <3>1. \A j \in (k + 1) .. Len(y) : j \in (k + 1) .. n /\ j \in 1 .. n
      BY <1>8, <1>18
    <3>2. QED  BY <1>8, <1>16, <3>1
  <2>2. QED  BY <1>6, <1>8, <1>18, <1>20, <2>1, DotsStay
<1>22. Comes(a, Len(a))
  <2>1. ASSUME NEW i \in 1 .. k  PROVE SubSeq(a, 1, i) = SubSeq(x, 1, i) /\ i \in 1 .. (Len(x) - 1)
    BY <1>3, <1>7, <1>16, <1>18, UptoUpto DEF IsPath
  <2>2. QED  BY <1>4, <1>19, <2>1 DEF Comes
<1>23. QED  BY <1>9, <1>13, <1>14, <1>17, <1>19, <1>21, <1>22

-----------------------------------------------------------------------------
(* The chain of bases as the disk has it                                    *)

IsEntry(e) ==
  /\ IsSeq(e.ref) /\ e.ref # <<>> /\ IsSeq(e.base)
  /\ e.builtin => Len(e.ref) = 1 /\ ~Absolute(e.ref)

LEMMA FilePathIsSeq ==
  ASSUME NEW e, IsEntry(e), ~e.builtin
  PROVE  IsSeq(FilePath(e)) /\ FilePath(e) # <<>>
<1>1. FilePath(e) = Join(e.base, e.ref) /\ IsSeq(e.ref) /\ IsSeq(e.base) /\ e.ref # <<>>
  BY DEF FilePath, IsEntry
<1>2. CASE Absolute(e.ref)
  BY <1>1, <1>2 DEF Join
<1>3. CASE ~Absolute(e.ref)
  <2>1. FilePath(e) = e.base \o e.ref
    BY <1>1, <1>3 DEF Join
  <2>2. PICK S, T : e.base \in Seq(S) /\ e.ref \in Seq(T)
    BY <1>1 DEF IsSeq
  <2>3. e.base \in Seq(S \cup T) /\ e.ref \in Seq(S \cup T)
    BY <2>2, SeqMonotonic
  <2>4. Len(e.base \o e.ref) = Len(e.base) + Len(e.ref) /\ Len(e.base) \in Nat /\ Len(e.ref) \in Nat \ {0}
    BY <1>1, <2>3, ConcatProperties
  <2>5. e.base \o e.ref # <<>>
    BY <2>4, EmptyIsSeq
  <2>6. QED  BY <1>1, <2>1, <2>5, ConcatAny
<1>4. QED  BY <1>2, <1>3

LEMMA ReachedIs ==
  ASSUME NEW p, IsSeq(p)
  PROVE  IsPath(Location(WorkDir, p))
<1>1. IsPath(Join(WorkDir, p))
  BY ResolverAssumption, JoinIsPath DEF IsLocation, IsPath, IsSeq
<1>2. QED  BY <1>1, OfJoin, LocationIsClean DEF Clean

LEMMA NowhereIsEmpty == Content(Nowhere) = [kind |-> "not_found"]
<1>1. \A b : <<>> # <<b>>
  OBVIOUS
<1>2. QED  BY <1>1 DEF Content, Nowhere, Absolute

(* A profile is loaded when what the disk has there is one.                 *)
LEMMA NodeIsLoaded ==
  ASSUME disk \in Disks, NEW e, IsEntry(e)
  PROVE  \/ Load(e) = Content(Node(e))
         \/ Load(e).kind = "not_found" /\ Len(FilePath(e)) > PathMax
<1>1. CASE e.builtin
  <2>1. PICK r : r = e.ref
    OBVIOUS
  <2>2. IsSeq(r) /\ Len(r) = 1 /\ ~Absolute(r) /\ Node(e) = r
    BY <1>1, <2>1 DEF IsEntry, Node
  <2>3. r = <<r[1]>>
    <3>1. PICK S : r \in Seq(S)
      BY <2>2 DEF IsSeq
    <3>2. QED  BY <2>2, <3>1
  <2>4. (\E b \in DOMAIN Builtins : r = <<b>>) <=> r[1] \in DOMAIN Builtins
    BY <2>3
  <2>5. QED  BY <1>1, <2>1, <2>2, <2>4 DEF Load, Content
<1>2. CASE ~e.builtin
  <2>1. PICK p : p = FilePath(e)
    OBVIOUS
  <2>2. IsSeq(p) /\ IsPath(Location(WorkDir, p))
    BY <1>2, <2>1, FilePathIsSeq, ReachedIs
  <2>3. Absolute(Location(WorkDir, p))
    BY <2>2 DEF IsPath
  <2>4. CASE Exists(p)
    <3>1. Node(e) = Location(WorkDir, p) /\ Location(WorkDir, p) \in DOMAIN disk
      BY <1>2, <2>1, <2>4 DEF Node, Reached, Exists
    <3>2. QED  BY <1>2, <2>1, <2>3, <2>4, <3>1 DEF Load, Content
  <2>5. CASE ~Exists(p)
    <3>1. Load(e) = [kind |-> "not_found"]
      BY <1>2, <2>1, <2>5 DEF Load
    <3>2. CASE ~Leads(WorkDir, p)
      BY <1>2, <2>1, <3>1, <3>2, NowhereIsEmpty DEF Node, Reached
    <3>3. CASE Leads(WorkDir, p) /\ Location(WorkDir, p) \notin DOMAIN disk
      BY <1>2, <2>1, <2>3, <3>1, <3>3 DEF Node, Reached, Content
    <3>4. CASE ~(Len(p) <= PathMax)
      <4>1. Len(p) \in Nat /\ PathMax \in Nat
        BY <2>2, ResolverAssumption DEF IsSeq
      <4>2. QED  BY <2>1, <3>1, <3>4, <4>1
    <3>5. QED  BY <2>5, <3>2, <3>3, <3>4 DEF Exists
  <2>6. QED  BY <2>4, <2>5
<1>3. QED  BY <1>1, <1>2

(* A reference is followed to where the disk has the base, whatever the     *)
(* spelling of the path that has led to the profile.                        *)
LEMMA BaseIsFollowed ==
  ASSUME disk \in Disks, NEW e, IsEntry(e), Load(e).kind = "profile", Load(e).extends # <<>>,
         NEW f, f = FromReference(Load(e).extends, Parent(FilePath(e)))
  PROVE  IsEntry(f) /\ HasBase(Node(e)) /\ Node(f) = BaseOf(Node(e))
<1>1. Load(e) = Content(Node(e))
  BY NodeIsLoaded
<1>2. HasBase(Node(e))
  BY <1>1 DEF HasBase
<1>3. PICK ref : ref = Load(e).extends
  OBVIOUS
<1>4. ref \in Seq(STRING) /\ ref # <<>> /\ IsSeq(ref) /\ Len(ref) \in Nat \ {0}
  <2>1. CASE e.builtin
    <3>1. e.ref[1] \in DOMAIN Builtins /\ Load(e) = Builtins[e.ref[1]]
      BY <2>1 DEF Load
    <3>2. QED  BY <1>3, <3>1, ResolverAssumption DEF IsBuiltin, IsProfile, IsSeq
  <2>2. CASE ~e.builtin
    <3>1. Load(e) = disk[Location(WorkDir, FilePath(e))] /\ Location(WorkDir, FilePath(e)) \in DOMAIN disk
      BY <2>2 DEF Load, Exists
    <3>2. QED  BY <1>3, <3>1, ResolverAssumption DEF IsDisk, IsContent, IsProfile, IsSeq
  <2>3. QED  BY <2>1, <2>2
<1>5. CASE ~LooksLikePath(ref)
  <2>1. f = BuiltinEntry(ref[1])
    BY <1>3, <1>5 DEF FromReference
  <2>2. Len(ref) = 1 /\ ref[1] # "/"
    <3>1. ~(Len(ref) > 1) /\ ref[1] # "/"
      BY <1>5 DEF LooksLikePath
    <3>2. Len(ref) \in Nat \ {0}
      BY <1>4
    <3>3. Len(ref) = 1
      BY <3>1, <3>2
    <3>4. QED  BY <3>1, <3>3
  <2>3. ref = <<ref[1]>>
    BY <1>4, <2>2
  <2>4. f.builtin /\ f.ref = ref /\ f.base = <<>>
    BY <2>1, <2>3 DEF BuiltinEntry
  <2>5. IsEntry(f)
    BY <1>4, <2>2, <2>4, EmptyIsSeq DEF IsEntry, Absolute
  <2>6. Node(f) = BaseOf(Node(e))
    BY <1>1, <1>3, <1>5, <2>4 DEF Node, BaseOf
  <2>7. QED  BY <1>2, <2>5, <2>6
<1>6. CASE LooksLikePath(ref)
  <2>1. ~e.builtin
    <3>1. SUFFICES ASSUME e.builtin  PROVE FALSE
      OBVIOUS
    <3>2. e.ref[1] \in DOMAIN Builtins /\ Load(e) = Builtins[e.ref[1]]
      BY <3>1 DEF Load
    <3>3. QED  BY <1>3, <1>6, <3>2, ResolverAssumption DEF IsBuiltin
  <2>2. PICK p, l, b : p = FilePath(e) /\ l = Location(WorkDir, p) /\ b = Parent(p)
    OBVIOUS
  <2>3. f = PathEntry(ref, b)
    BY <1>3, <1>6, <2>2 DEF FromReference
  <2>4. /\ Exists(p) /\ Leads(WorkDir, p) /\ l \in DOMAIN disk /\ disk[l].kind # "directory"
        /\ Node(e) = l
    BY <2>1, <2>2 DEF Load, Exists, Node, Reached
  <2>5. IsSeq(p) /\ p # <<>>
    BY <2>1, <2>2, FilePathIsSeq
  <2>6. PICK a : a = Join(WorkDir, b)
    OBVIOUS
  <2>7. /\ IsSeq(b) /\ IsPath(a) /\ Comes(a, Len(a))
        /\ IsPath(Front(l)) /\ Comes(Front(l), Len(Front(l)))
        /\ At(a) = At(Front(l))
    BY <2>2, <2>4, <2>5, <2>6, ParentLeads
  <2>8. ~f.builtin /\ f.ref = ref /\ f.base = b
    BY <2>3 DEF PathEntry
  <2>9. IsEntry(f)
    BY <1>4, <2>7, <2>8 DEF IsEntry
  <2>10. BaseOf(Node(e)) = Reached(Front(l), ref)
    BY <1>1, <1>3, <1>6, <2>4 DEF BaseOf
  <2>11. Node(f) = Reached(WorkDir, Join(b, ref))
    BY <2>8 DEF Node, FilePath
  <2>12. CASE Absolute(ref)
    <3>1. Join(b, ref) = ref /\ Join(WorkDir, ref) = ref /\ Join(Front(l), ref) = ref /\ IsPath(ref)
      BY <1>4, <2>12 DEF Join, IsPath
    <3>2. Location(WorkDir, ref) = Location(Front(l), ref) /\ (Leads(WorkDir, ref) <=> Leads(Front(l), ref))
      BY <3>1, OfJoin
    <3>3. QED  BY <1>2, <2>9, <2>10, <2>11, <3>1, <3>2 DEF Reached
  <2>13. CASE ~Absolute(ref)
    <3>1. Join(b, ref) = b \o ref /\ Join(Front(l), ref) = Front(l) \o ref
      BY <2>13 DEF Join
    <3>2. Join(WorkDir, b \o ref) = a \o ref
      <4>1. PICK S, T : b \in Seq(S) /\ WorkDir \in Seq(T)
        BY <2>7, ResolverAssumption DEF IsSeq, IsLocation
      <4> DEFINE A == S \cup T \cup STRING
      <4>2. b \in Seq(A) /\ WorkDir \in Seq(A) /\ ref \in Seq(A)
        BY <1>4, <4>1, SeqMonotonic
      <4>3. CASE Absolute(b)
        <5>1. IsPath(b \o ref)
          BY <1>4, <2>7, <4>3, ConcatAny DEF IsPath
        <5>2. QED  BY <2>6, <4>3, <5>1 DEF Join, IsPath
      <4>4. CASE ~Absolute(b)
        <5>1. ~Absolute(b \o ref)
          <6>1. CASE b = <<>>
            BY <1>4, <2>13, <6>1
          <6>2. CASE b # <<>>
            <7>1. (b \o ref)[1] = b[1]
              BY <4>2, <6>2
            <7>2. QED  BY <4>4, <6>2, <7>1 DEF Absolute
          <6>3. QED  BY <6>1, <6>2
        <5>2. Join(WorkDir, b \o ref) = WorkDir \o (b \o ref) /\ a = WorkDir \o b
          BY <2>6, <4>4, <5>1 DEF Join
        <5>3. WorkDir \o (b \o ref) = (WorkDir \o b) \o ref
          BY <4>2, ConcatAssociative
        <5>4. QED  BY <5>2, <5>3
      <4>5. QED  BY <4>3, <4>4
    <3>3. /\ At(a \o ref) = At(Front(l) \o ref)
          /\ Comes(a \o ref, Len(a \o ref) - 1) <=> Comes(Front(l) \o ref, Len(Front(l) \o ref) - 1)
      BY <1>4, <2>7, SameOnward
    <3>4. IsPath(a \o ref) /\ IsPath(Front(l) \o ref)
      BY <1>4, <2>7, PathThen
    <3>5. /\ Location(WorkDir, b \o ref) = At(a \o ref)
          /\ Leads(WorkDir, b \o ref) <=> Comes(a \o ref, Len(a \o ref) - 1)
      BY <3>2, <3>4, OfJoin
    <3>6. /\ Location(Front(l), ref) = At(Front(l) \o ref)
          /\ Leads(Front(l), ref) <=> Comes(Front(l) \o ref, Len(Front(l) \o ref) - 1)
      BY <3>1, <3>4, OfJoin
    <3>7. QED  BY <1>2, <2>9, <2>10, <2>11, <3>1, <3>3, <3>5, <3>6 DEF Reached
  <2>14. QED  BY <2>12, <2>13
<1>7. QED  BY <1>5, <1>6

(* The profiles a chain comes through: s[0] is where it starts.             *)
IsChain(s, k) ==
  /\ s[0] = Start
  /\ \A i \in 0 .. (k - 1) : HasBase(s[i]) /\ s[i + 1] = BaseOf(s[i])

IsTrail(g, k) == g = [n \in 0 .. k |-> IF n = 0 THEN Start ELSE Onward(g[n - 1])]

LEMMA TrailExists == ASSUME NEW k \in Nat  PROVE \E g : IsTrail(g, k)
<1> DEFINE T == {n \in Nat : \E g : IsTrail(g, n)}
<1>1. 0 \in T
  <2>1. IsTrail([n \in 0 .. 0 |-> Start], 0)
    BY DEF IsTrail
  <2>2. QED  BY <2>1
<1>2. ASSUME NEW n \in 0 .. (k - 1), n \in T  PROVE n + 1 \in T
  <2>1. PICK g : IsTrail(g, n)
    BY <1>2
  <2> DEFINE h == [i \in 0 .. (n + 1) |-> IF i = n + 1 THEN Onward(g[n]) ELSE g[i]]
  <2>2. \A i \in 0 .. n : g[i] = IF i = 0 THEN Start ELSE Onward(g[i - 1])
    BY <2>1 DEF IsTrail
  <2>3. ASSUME NEW i \in 0 .. (n + 1)
        PROVE  h[i] = IF i = 0 THEN Start ELSE Onward(h[i - 1])
    <3>1. CASE i = n + 1
      <4>1. h[i - 1] = g[n] /\ i # 0
        BY <3>1
      <4>2. QED  BY <3>1, <4>1
    <3>2. CASE i # n + 1
      <4>1. i \in 0 .. n /\ h[i] = g[i]
        BY <3>2
      <4>2. i # 0 => h[i - 1] = g[i - 1]
        BY <4>1
      <4>3. QED  BY <2>2, <4>1, <4>2
    <3>3. QED  BY <3>1, <3>2
  <2>4. IsTrail(h, n + 1)
    BY <2>3 DEF IsTrail
  <2>5. QED  BY <2>4
<1>3. k \in T
  <2>1. \A n \in 0 .. k : n \in T
    <3> HIDE DEF T
    <3>1. QED  BY <1>1, <1>2, Climbs
  <2>2. QED  BY <2>1
<1>4. QED  BY <1>3

LEMMA NodesCounted ==
  ASSUME disk \in Disks
  PROVE  /\ Nodes \in Nat
         /\ IsFiniteSet(DOMAIN disk \cup {<<b>> : b \in DOMAIN Builtins})
         /\ Cardinality(DOMAIN disk \cup {<<b>> : b \in DOMAIN Builtins}) <= Nodes
<1>1. IsFiniteSet(DOMAIN disk) /\ IsFiniteSet(DOMAIN Builtins)
  BY ResolverAssumption DEF IsDisk
<1>2. PICK D, B, N : D = DOMAIN disk /\ B = DOMAIN Builtins /\ N = {<<b>> : b \in DOMAIN Builtins}
  OBVIOUS
<1>3. IsFiniteSet(N) /\ Cardinality(N) <= Cardinality(B)
  <2>1. N = {<<b>> : b \in B}
    BY <1>2
  <2> DEFINE F == [b \in B |-> <<b>>]
  <2>2. F \in Surjection(B, N)
    BY <2>1 DEF Surjection
  <2>3. QED
    <3> HIDE DEF F
    <3>1. QED  BY <1>1, <1>2, <2>2, FS_Surjection
<1>4. /\ Cardinality(D) \in Nat /\ Cardinality(B) \in Nat /\ Cardinality(N) \in Nat
      /\ IsFiniteSet(D \cap N) /\ Cardinality(D \cap N) \in Nat
  <2>1. IsFiniteSet(D \cap N)
    BY <1>1, <1>2, <1>3, FS_Intersection
  <2>2. QED  BY <1>1, <1>2, <1>3, <2>1, FS_CardinalityType
<1>5. IsFiniteSet(D \cup N) /\ Cardinality(D \cup N) = Cardinality(D) + Cardinality(N) - Cardinality(D \cap N)
  BY <1>1, <1>2, <1>3, FS_Union
<1>6. Nodes = Cardinality(D) + Cardinality(B)
  BY <1>2 DEF Nodes
<1>7. Cardinality(D \cup N) <= Nodes /\ Nodes \in Nat
  BY <1>3, <1>4, <1>5, <1>6
<1>8. QED  BY <1>2, <1>5, <1>7

LEMMA BasedIsKnown ==
  ASSUME NEW v, HasBase(v)
  PROVE  v \in DOMAIN disk \cup {<<b>> : b \in DOMAIN Builtins}
BY DEF HasBase, Content

(* A chain that comes to one profile twice goes on as it did the first time.*)
LEMMA ChainRepeats ==
  ASSUME NEW s, NEW k \in Nat, IsChain(s, k), NEW i \in 0 .. k, NEW j \in 0 .. k, i < j, s[i] = s[j]
  PROVE  s[i + (k - j)] = s[k]
<1> DEFINE T == {n \in Nat : s[i + n] = s[j + n]}
<1>1. 0 \in T
  <2>1. i + 0 = i /\ j + 0 = j
    OBVIOUS
  <2>2. QED  BY <2>1
<1>2. ASSUME NEW n \in 0 .. ((k - j) - 1), n \in T  PROVE n + 1 \in T
  <2>1. /\ i + n \in 0 .. (k - 1) /\ j + n \in 0 .. (k - 1) /\ n + 1 \in Nat
        /\ i + (n + 1) = i + n + 1 /\ j + (n + 1) = j + n + 1
    OBVIOUS
  <2>2. s[i + n + 1] = BaseOf(s[i + n]) /\ s[j + n + 1] = BaseOf(s[j + n])
    BY <2>1 DEF IsChain
  <2>3. QED  BY <1>2, <2>1, <2>2
<1>3. k - j \in T
  <2>1. \A n \in 0 .. (k - j) : n \in T
    <3> HIDE DEF T
    <3>1. k - j \in Nat /\ 0 \in Nat
      OBVIOUS
    <3>2. QED  BY <1>1, <1>2, <3>1, Climbs
  <2>2. k - j \in 0 .. (k - j)
    OBVIOUS
  <2>3. QED  BY <2>1, <2>2
<1>4. j + (k - j) = k
  OBVIOUS
<1>5. QED  BY <1>3, <1>4

(* A chain that ends has no profile twice.                                  *)
LEMMA ChainFits ==
  ASSUME disk \in Disks, NEW s, NEW k \in Nat, IsChain(s, k), ~HasBase(s[k])
  PROVE  k <= Nodes
<1> DEFINE S == 0 .. (k - 1)
           N == DOMAIN disk \cup {<<b>> : b \in DOMAIN Builtins}
           f == [i \in S |-> s[i]]
<1>1. SUFFICES ASSUME k > Nodes  PROVE FALSE
  BY NodesCounted
<1>2. f \in [S -> N]
  BY BasedIsKnown DEF IsChain
<1>3. IsFiniteSet(S) /\ Cardinality(S) = k
  BY FS_Interval
<1>4. IsFiniteSet(N) /\ Cardinality(N) < Cardinality(S)
  <2>1. Nodes \in Nat /\ IsFiniteSet(N) /\ Cardinality(N) <= Nodes /\ Cardinality(N) \in Nat
    BY NodesCounted, FS_CardinalityType
  <2> HIDE DEF N, S
  <2>2. QED  BY <1>1, <1>3, <2>1
<1>5. PICK x \in S, y \in S : x # y /\ f[x] = f[y]
  <2> HIDE DEF S, N, f
  <2>1. QED  BY <1>2, <1>3, <1>4, FS_PigeonHole
<1>6. ASSUME NEW i \in S, NEW j \in S, i < j, s[i] = s[j]  PROVE FALSE
  <2>1. i \in 0 .. k /\ j \in 0 .. k /\ i + (k - j) \in 0 .. (k - 1)
    BY <1>6
  <2>2. s[i + (k - j)] = s[k]
    BY <1>6, <2>1, ChainRepeats
  <2>3. HasBase(s[i + (k - j)])
    BY <2>1 DEF IsChain
  <2>4. QED  BY <2>2, <2>3
<1>7. x < y \/ y < x
  BY <1>5
<1>8. QED  BY <1>5, <1>6, <1>7

LEMMA LastBaseIs ==
  ASSUME disk \in Disks
  PROVE  \E g : IsTrail(g, Nodes) /\ LastBase = g[Nodes]
<1> DEFINE walk == CHOOSE g : IsTrail(g, Nodes)
<1>1. IsTrail(walk, Nodes)
  BY NodesCounted, TrailExists
<1>2. LastBase = walk[Nodes]
  BY Zenon DEF LastBase, IsTrail
<1>3. QED  BY <1>1, <1>2

LEMMA EndIsLast ==
  ASSUME disk \in Disks, NEW s, NEW k \in Nat, IsChain(s, k), ~HasBase(s[k])
  PROVE  LastBase = s[k]
<1>1. Nodes \in Nat /\ k <= Nodes
  BY NodesCounted, ChainFits
<1>2. PICK g : IsTrail(g, Nodes) /\ LastBase = g[Nodes]
  BY LastBaseIs
<1>3. \A n \in 0 .. Nodes : g[n] = IF n = 0 THEN Start ELSE Onward(g[n - 1])
  BY <1>2 DEF IsTrail
<1> DEFINE T == {n \in Nat : (n <= k => g[n] = s[n]) /\ (n >= k => g[n] = s[k])}
<1>4. 0 \in T
  <2>1. g[0] = s[0]
    BY <1>1, <1>3 DEF IsChain
  <2>2. QED  BY <2>1
<1>5. ASSUME NEW n \in 0 .. (Nodes - 1), n \in T  PROVE n + 1 \in T
  <2>1. n + 1 \in 0 .. Nodes /\ n + 1 # 0 /\ n + 1 - 1 = n /\ n + 1 \in Nat
    BY <1>1
  <2>2. g[n + 1] = Onward(g[n])
    BY <1>3, <2>1
  <2>3. CASE n < k
    <3>1. n \in 0 .. (k - 1) /\ g[n] = s[n] /\ (n + 1 >= k => n + 1 = k)
      BY <1>5, <2>3
    <3>2. HasBase(s[n]) /\ s[n + 1] = BaseOf(s[n])
      BY <3>1 DEF IsChain
    <3>3. g[n + 1] = s[n + 1]
      BY <2>2, <3>1, <3>2 DEF Onward
    <3>4. QED  BY <2>1, <3>1, <3>3
  <2>4. CASE n >= k
    <3>1. g[n] = s[k] /\ ~(n + 1 <= k)
      BY <1>5, <2>4
    <3>2. g[n + 1] = s[k]
      BY <2>2, <3>1 DEF Onward
    <3>3. QED  BY <2>1, <3>1, <3>2
  <2>5. QED  BY <2>3, <2>4
<1>6. Nodes \in T
  <2>1. \A n \in 0 .. Nodes : n \in T
    <3> HIDE DEF T
    <3>1. QED  BY <1>1, <1>4, <1>5, Climbs
  <2>2. QED  BY <1>1, <2>1
<1>7. QED  BY <1>1, <1>2, <1>6

(* A chain that comes to one of its profiles again has no end.              *)
LEMMA CycleGoesOn ==
  ASSUME disk \in Disks, NEW s, NEW k \in Nat, IsChain(s, k), NEW m \in 0 .. (k - 1), s[m] = s[k]
  PROVE  HasBase(LastBase)
<1>1. Nodes \in Nat
  BY NodesCounted
<1>2. PICK g : IsTrail(g, Nodes) /\ LastBase = g[Nodes]
  BY LastBaseIs
<1>3. \A n \in 0 .. Nodes : g[n] = IF n = 0 THEN Start ELSE Onward(g[n - 1])
  BY <1>2 DEF IsTrail
<1> DEFINE T == {n \in Nat : \E i \in 0 .. (k - 1) : g[n] = s[i]}
<1>4. 0 \in T
  <2>1. g[0] = s[0] /\ 0 \in 0 .. (k - 1)
    BY <1>1, <1>3 DEF IsChain
  <2>2. QED  BY <2>1
<1>5. ASSUME NEW n \in 0 .. (Nodes - 1), n \in T  PROVE n + 1 \in T
  <2>1. n + 1 \in 0 .. Nodes /\ n + 1 # 0 /\ n + 1 - 1 = n /\ n + 1 \in Nat
    BY <1>1
  <2>2. g[n + 1] = Onward(g[n])
    BY <1>3, <2>1
  <2>3. PICK i \in 0 .. (k - 1) : g[n] = s[i]
    BY <1>5
  <2>4. g[n + 1] = s[i + 1]
    BY <2>2, <2>3 DEF IsChain, Onward
  <2>5. CASE i + 1 = k
    BY <2>1, <2>4, <2>5
  <2>6. CASE i + 1 # k
    <3>1. i + 1 \in 0 .. (k - 1)
      BY <2>6
    <3>2. QED  BY <2>1, <2>4, <3>1
  <2>7. QED  BY <2>5, <2>6
<1>6. Nodes \in T
  <2>1. \A n \in 0 .. Nodes : n \in T
    <3> HIDE DEF T
    <3>1. QED  BY <1>1, <1>4, <1>5, Climbs
  <2>2. QED  BY <1>1, <2>1
<1>7. QED  BY <1>2, <1>6 DEF IsChain

(* What the chain is made of does not change while it is followed.          *)
LEMMA DiskStays ==
  ASSUME disk' = disk, asked' = asked
  PROVE  /\ Start' = Start
         /\ \A e : Node(e)' = Node(e)
         /\ \A v : HasBase(v)' = HasBase(v) /\ BaseOf(v)' = BaseOf(v)
<1>1. Start' = Start
  BY DEF Start, Node, Chosen, IsCommunity, CommunityError, CommunityEntry, CatalogEntries,
         Reached, Leads, IsDirectory, Exists, AutoProfile, DetectStack, IsFile
<1>2. /\ \A e : Node(e)' = Node(e)
      /\ \A v : HasBase(v)' = HasBase(v) /\ BaseOf(v)' = BaseOf(v)
  BY DEF Node, HasBase, BaseOf, Content, Reached, Leads, IsDirectory
<1>3. QED  BY <1>1, <1>2

LEMMA EndStays ==
  ASSUME disk' = disk, asked' = asked
  PROVE  LastBase' = LastBase /\ HasBase(LastBase)' = HasBase(LastBase) /\ ChainEnds' = ChainEnds
<1>1. LastBase' = LastBase
  BY DEF LastBase, Onward, Nodes, Start, Node, Chosen, IsCommunity, CommunityError, CommunityEntry,
         CatalogEntries, HasBase, BaseOf, Content, Reached, Leads, IsDirectory, Exists, AutoProfile,
         DetectStack, IsFile
<1>2. QED  BY <1>1 DEF ChainEnds, HasBase, Content

LEMMA CleanedIsSeq == ASSUME NEW p, IsSeq(p)  PROVE IsSeq(Cleaned(p))
<1>1. Len(p) \in Nat
  BY DEF IsSeq
<1> DEFINE g == CHOOSE f : IsCleaning(f, p, Len(p))
           T == {n \in Nat : IsSeq(g[n])}
<1>2. IsCleaning(g, p, Len(p)) /\ Cleaned(p) = g[Len(p)]
  <2>1. IsCleaning(g, p, Len(p))
    BY <1>1, CleaningExists
  <2>2. Cleaned(p) = g[Len(p)]
    BY Zenon DEF Cleaned, IsCleaning
  <2>3. QED  BY <2>1, <2>2
<1> HIDE DEF g
<1>3. \A n \in 0 .. Len(p) :
        g[n] = IF n = 0 THEN <<>> ELSE IF p[n] = "." THEN g[n - 1] ELSE Append(g[n - 1], p[n])
  BY <1>2 DEF IsCleaning
<1>4. 0 \in T
  BY <1>1, <1>3, EmptyIsSeq
<1>5. ASSUME NEW n \in 0 .. (Len(p) - 1), n \in T  PROVE n + 1 \in T
  <2>1. n + 1 \in 0 .. Len(p) /\ n + 1 # 0 /\ n + 1 - 1 = n /\ n + 1 \in Nat
    BY <1>1
  <2>2. g[n + 1] = IF p[n + 1] = "." THEN g[n] ELSE Append(g[n], p[n + 1])
    BY <1>3, <2>1
  <2>3. IsSeq(Append(g[n], p[n + 1]))
    BY <1>5, AppendAny
  <2>4. QED  BY <1>5, <2>1, <2>2, <2>3
<1>6. Len(p) \in T
  <2>1. \A n \in 0 .. Len(p) : n \in T
    <3> HIDE DEF T
    <3>1. QED  BY <1>1, <1>4, <1>5, Climbs
  <2>2. QED  BY <1>1, <2>1
<1>7. QED  BY <1>2, <1>6

LEMMA CatalogHasDirectory == IsSeq(Parent(Catalog)) /\ Parent(Catalog) # <<>>
<1> DEFINE dir == Append(ProfilesDir, "community")
<1>1. IsPath(dir) /\ Catalog = Append(dir, "catalog.yaml")
  BY ResolverAssumption, PathAppend DEF Catalog, IsLocation, IsPath, IsSeq
<1> HIDE DEF dir
<1>2. PICK c : c = Catalog
  OBVIOUS
<1>3. IsPath(c) /\ Len(dir) \in Nat \ {0} /\ Len(c) = Len(dir) + 1 /\ c[Len(dir) + 1] = "catalog.yaml"
  BY <1>1, <1>2, PathAppend, AppendAny, PathLen DEF IsPath
<1>4. IsSeq(c) /\ c # <<>> /\ c[Len(c)] # "." /\ Len(c) > 1 /\ Join(c, c) = c /\ Len(c) \in Nat
  BY <1>3 DEF IsPath, Absolute, Join
<1>5. /\ IsSeq(Parent(c))
      /\ \E k \in 1 .. (Len(c) - 1) : Join(c, Parent(c)) = SubSeq(c, 1, k)
  BY <1>3, <1>4, ParentIsPart
<1>6. ASSUME Parent(c) = <<>>  PROVE FALSE
  <2>1. Join(c, <<>>) = c
    <3>1. PICK S : c \in Seq(S)
      BY <1>4 DEF IsSeq
    <3>2. c \o <<>> = c
      BY <3>1
    <3>3. QED  BY <3>2 DEF Join, Absolute
  <2>2. PICK k \in 1 .. (Len(c) - 1) : c = SubSeq(c, 1, k)
    BY <1>5, <1>6, <2>1
  <2>3. k \in 1 .. Len(c) /\ k # Len(c)
    BY <1>4
  <2>4. Len(SubSeq(c, 1, k)) = k
    BY <1>4, <2>3, UptoAny
  <2>5. QED  BY <2>2, <2>3, <2>4
<1>7. QED  BY <1>2, <1>5, <1>6

LEMMA ChosenIsEntry ==
  ASSUME disk \in Disks, asked \in Asks, IsCommunity => CommunityError(asked[1]) = "none"
  PROVE  IsEntry(Chosen)
<1>1. asked \in Seq(STRING) /\ IsSeq(asked)
  BY ResolverAssumption DEF IsSeq
<1>2. ASSUME NEW n, n # "/"  PROVE IsEntry(BuiltinEntry(n))
  <2>1. IsSeq(<<n>>) /\ Len(<<n>>) = 1 /\ <<n>> # <<>> /\ <<n>>[1] = n
    <3>1. <<n>> \in Seq({n})
      OBVIOUS
    <3>2. QED  BY <3>1 DEF IsSeq
  <2>2. QED  BY <1>2, <2>1, EmptyIsSeq DEF IsEntry, BuiltinEntry, Absolute
<1>3. ASSUME NEW p, IsSeq(p), p # <<>>  PROVE IsEntry(PathEntry(p, <<>>))
  BY <1>3, EmptyIsSeq DEF IsEntry, PathEntry
<1>4. CASE asked = <<>>
  <2>1. Chosen = BuiltinEntry(AutoProfile) /\ AutoProfile # "/"
    BY <1>4 DEF Chosen, AutoProfile
  <2>2. QED  BY <1>2, <2>1
<1>5. CASE asked # <<>> /\ IsCommunity
  <2>1. PICK id : id = asked[1]
    OBVIOUS
  <2>2. /\ Catalog \in DOMAIN disk /\ disk[Catalog].kind = "catalog" /\ CatalogEntries(id) # {}
        /\ Chosen = CommunityEntry(id)
    BY <1>5, <2>1 DEF CommunityError, Chosen
  <2>3. PICK C, m : C = CatalogEntries(id) /\ m = Min(C)
    OBVIOUS
  <2>4. \A i \in C : i \in Nat /\ i \in 1 .. Len(disk[Catalog].entries)
    BY <2>3 DEF CatalogEntries
  <2>5. m \in C
    <3>1. \E n \in C : \A i \in C : n <= i
      BY <2>2, <2>3, <2>4, HasLeast
    <3>2. QED  BY <2>3, <3>1 DEF Min
  <2>6. IsCatalog(disk[Catalog])
    BY <2>2, ResolverAssumption DEF IsDisk, IsContent
  <2>7. PICK p : p = disk[Catalog].entries[m].path
    OBVIOUS
  <2>8. IsSeq(p)
    BY <2>2, <2>4, <2>5, <2>6, <2>7 DEF IsCatalog, IsSeq
  <2>9. PICK d, c : d = Parent(Catalog) /\ c = Cleaned(p)
    OBVIOUS
  <2>10. IsSeq(d) /\ IsSeq(c) /\ d # <<>>
    BY <2>8, <2>9, CleanedIsSeq, CatalogHasDirectory
  <2>11. IsSeq(d \o c) /\ d \o c # <<>>
    <3>1. PICK S, T : d \in Seq(S) /\ c \in Seq(T)
      BY <2>10 DEF IsSeq
    <3>2. d \in Seq(S \cup T) /\ c \in Seq(S \cup T)
      BY <3>1, SeqMonotonic
    <3>3. d \o c \in Seq(S \cup T) /\ Len(d \o c) = Len(d) + Len(c) /\ Len(d) \in Nat \ {0} /\ Len(c) \in Nat
      BY <2>10, <3>2, ConcatProperties
    <3>4. QED  BY <3>3, EmptyIsSeq DEF IsSeq
  <2>12. Chosen = PathEntry(d \o c, <<>>)
    BY <2>2, <2>3, <2>7, <2>9 DEF CommunityEntry, CommunityPath
  <2>13. QED  BY <1>3, <2>11, <2>12
<1>6. CASE asked # <<>> /\ ~IsCommunity /\ (LooksLikePath(asked) \/ Exists(asked))
  <2>1. Chosen = PathEntry(asked, <<>>)
    BY <1>6 DEF Chosen
  <2>2. QED  BY <1>1, <1>3, <1>6, <2>1
<1>7. CASE asked # <<>> /\ ~IsCommunity /\ ~(LooksLikePath(asked) \/ Exists(asked))
  <2>1. Chosen = BuiltinEntry(asked[1]) /\ asked[1] # "/"
    BY <1>7 DEF Chosen, LooksLikePath
  <2>2. QED  BY <1>2, <2>1
<1>8. QED  BY <1>4, <1>5, <1>6, <1>7

(* The entries under way and the one called are a chain from where it       *)
(* starts; when the calls return, it has come to its end.                   *)
Trail(s) ==
  /\ IsChain(s, Len(frames)) /\ s[Len(frames)] = Node(next)
  /\ \A i \in 1 .. Len(frames) : s[i - 1] = Node(frames[i].entry)

TrailHolds ==
  /\ disk \in Disks /\ asked \in Asks /\ step \in {"ask", "enter", "unwind", "resolved"}
  /\ IsSeq(frames) /\ Len(frames) \in Nat
  /\ step = "ask" => frames = <<>>
  /\ step = "enter" => IsEntry(next) /\ \E s : Trail(s)
  /\ step = "unwind" => ChainEnds
  /\ ChainDecides

LEMMA TrailInit == Init => TrailHolds
BY EmptyIsSeq DEF Init, ResolverInit, TrailHolds, ChainDecides

(* One link more.                                                           *)
LEMMA TrailGrows ==
  ASSUME NEW s, NEW k \in Nat, IsChain(s, k), HasBase(s[k])
  PROVE  \E t : /\ IsChain(t, k + 1) /\ t[k + 1] = BaseOf(s[k])
                /\ \A i \in 0 .. k : t[i] = s[i]
<1> DEFINE t == [i \in 0 .. (k + 1) |-> IF i = k + 1 THEN BaseOf(s[k]) ELSE s[i]]
<1>1. t[k + 1] = BaseOf(s[k]) /\ \A i \in 0 .. k : t[i] = s[i]
  OBVIOUS
<1> HIDE DEF t
<1>2. t[0] = Start
  BY <1>1 DEF IsChain
<1>3. ASSUME NEW i \in 0 .. k  PROVE HasBase(t[i]) /\ t[i + 1] = BaseOf(t[i])
  <2>1. CASE i = k
    BY <1>1, <2>1
  <2>2. CASE i # k
    <3>1. i \in 0 .. (k - 1) /\ i + 1 \in 0 .. k
      BY <2>2
    <3>2. QED  BY <1>1, <3>1 DEF IsChain
  <2>3. QED  BY <2>1, <2>2
<1>4. 0 .. (k + 1 - 1) = 0 .. k
  OBVIOUS
<1>5. QED  BY <1>1, <1>2, <1>3, <1>4 DEF IsChain

LEMMA ChainStays ==
  ASSUME disk' = disk, asked' = asked, NEW s, NEW k, IsChain(s, k)
  PROVE  IsChain(s, k)'
BY DiskStays DEF IsChain

LEMMA TrailChoose == ASSUME TrailHolds, Choose  PROVE TrailHolds'
<1>1. /\ step = "ask" /\ disk' = disk /\ asked' = asked /\ frames' = frames
      /\ frames = <<>> /\ Len(frames) = 0
  BY EmptyIsSeq DEF Choose, TrailHolds
<1>2. disk \in Disks /\ asked \in Asks /\ IsSeq(frames)
  BY DEF TrailHolds
<1>3. ASSUME NEW v, v = Start  PROVE \E s : IsChain(s, 0) /\ s[0] = v
  <2>1. [i \in {0} |-> v][0] = v /\ 0 .. (0 - 1) = {}
    OBVIOUS
  <2>2. IsChain([i \in {0} |-> v], 0)
    BY <1>3, <2>1 DEF IsChain
  <2>3. QED  BY <2>1, <2>2
<1>4. CASE IsCommunity /\ CommunityError(asked[1]) # "none"
  <2>1. step' = "resolved" /\ outcome' = CommunityError(asked[1])
    BY <1>4 DEF Choose, Fail
  <2>2. outcome' \in {"not_found", "catalog"}
    BY <1>4, <2>1 DEF CommunityError
  <2>3. Start = Nowhere
    BY <1>4 DEF Start
  <2>4. Content(Nowhere).kind # "profile"
    BY NowhereIsEmpty
  <2>5. ~HasBase(Nowhere)
    BY <2>4 DEF HasBase
  <2>6. PICK s : IsChain(s, 0) /\ s[0] = Nowhere
    BY <1>3, <2>3
  <2>7. LastBase = Nowhere
    BY <1>2, <2>5, <2>6, EndIsLast
  <2>8. ~ChainEnds
    BY <2>4, <2>7 DEF ChainEnds
  <2>9. ~ChainEnds'
    BY <1>1, <2>8, EndStays
  <2>10. ChainDecides'
    BY <2>2, <2>9 DEF ChainDecides
  <2>11. QED  BY <1>1, <1>2, <2>1, <2>10 DEF TrailHolds
<1>5. CASE ~(IsCommunity /\ CommunityError(asked[1]) # "none")
  <2>1. step' = "enter" /\ next' = Chosen
    BY <1>5 DEF Choose, Call
  <2>2. IsEntry(Chosen)
    BY <1>2, <1>5, ChosenIsEntry
  <2>3. Start = Node(Chosen)
    BY <1>5 DEF Start
  <2>4. PICK c : c = Chosen
    OBVIOUS
  <2>5. PICK s : IsChain(s, 0) /\ s[0] = Node(c)
    BY <1>3, <2>3, <2>4
  <2>6. IsChain(s, 0)' /\ Node(c)' = Node(c)
    BY <1>1, <2>5, ChainStays, DiskStays
  <2>7. next' = c
    BY <2>1, <2>4
  <2>8. Node(next)' = Node(c)
    BY <1>1, <2>7, DiskStays
  <2>9. Trail(s)'
    <3>1. Len(frames)' = 0 /\ 1 .. 0 = {}
      BY <1>1
    <3>2. QED  BY <2>5, <2>6, <2>8, <3>1 DEF Trail
  <2>10. IsEntry(next)'
    BY <2>2, <2>4, <2>7 DEF IsEntry
  <2>11. ChainDecides'
    BY <2>1 DEF ChainDecides
  <2>12. QED  BY <1>1, <1>2, <2>1, <2>9, <2>10, <2>11 DEF TrailHolds
<1>6. QED  BY <1>4, <1>5

LEMMA TrailEnter == ASSUME TrailHolds, Enter  PROVE TrailHolds'
<1> DEFINE k == Len(frames)
           frame == [entry |-> next, id |-> FilePath(next), own |-> Load(next).own]
<1>1. /\ step = "enter" /\ step' = "enter" /\ disk' = disk /\ asked' = asked
      /\ frames' = Append(frames, frame)
      /\ Load(next).kind = "profile" /\ Load(next).extends # <<>>
  BY DEF Enter, Call
<1>2. PICK f : f = FromReference(Load(next).extends, Parent(FilePath(next))) /\ next' = f
  BY DEF Enter, Call
<1>3. disk \in Disks /\ asked \in Asks /\ IsSeq(frames) /\ k \in Nat /\ IsEntry(next)
  BY <1>1 DEF TrailHolds
<1>4. PICK s : Trail(s)
  BY <1>1 DEF TrailHolds
<1>5. IsEntry(f) /\ HasBase(Node(next)) /\ Node(f) = BaseOf(Node(next))
  BY <1>1, <1>2, <1>3, BaseIsFollowed
<1>6. PICK t : IsChain(t, k + 1) /\ t[k + 1] = Node(f) /\ \A i \in 0 .. k : t[i] = s[i]
  <2>1. IsChain(s, k) /\ s[k] = Node(next)
    BY <1>4 DEF Trail
  <2> HIDE DEF k
  <2>2. QED  BY <1>3, <1>5, <2>1, TrailGrows
<1>7. /\ IsSeq(frames') /\ Len(frames') = k + 1
      /\ \A i \in 1 .. k : frames'[i] = frames[i]
      /\ frames'[k + 1] = frame
  <2> HIDE DEF frame
  <2>1. QED  BY <1>1, <1>3, AppendAny
<1>8. frame.entry = next
  OBVIOUS
<1> HIDE DEF frame
<1>9. ASSUME NEW i \in 1 .. (k + 1)  PROVE t[i - 1] = Node(frames'[i].entry)
  <2>1. CASE i = k + 1
    <3>1. t[i - 1] = s[k] /\ k \in 0 .. k
      BY <1>3, <1>6, <2>1
    <3>2. s[k] = Node(next)
      BY <1>4 DEF Trail
    <3>3. QED  BY <1>7, <1>8, <2>1, <3>1, <3>2
  <2>2. CASE i # k + 1
    <3>1. i \in 1 .. k /\ i - 1 \in 0 .. k
      BY <1>3, <2>2
    <3>2. s[i - 1] = Node(frames[i].entry)
      BY <1>4, <3>1 DEF Trail
    <3>3. QED  BY <1>6, <1>7, <3>1, <3>2
  <2>3. QED  BY <2>1, <2>2
<1>10. IsChain(t, Len(frames))'
  <2>1. PICK n : n = k + 1
    OBVIOUS
  <2>2. IsChain(t, n)
    BY <1>6, <2>1
  <2>3. IsChain(t, n)'
    BY <1>1, <2>2, ChainStays
  <2>4. n = Len(frames')
    BY <1>7, <2>1
  <2>5. QED  BY <2>3, <2>4 DEF IsChain
<1>11. \A i \in 1 .. Len(frames') : t[i - 1] = Node(frames'[i].entry)
  <2>1. \A i \in 1 .. (k + 1) : t[i - 1] = Node(frames'[i].entry)
    BY <1>9
  <2>2. QED  BY <1>7, <2>1
<1>12. Trail(t)'
  <2>1. t[Len(frames')] = Node(next)'
    BY <1>1, <1>2, <1>6, <1>7, DiskStays
  <2>2. ASSUME NEW i \in 1 .. Len(frames')  PROVE t[i - 1] = Node(frames[i].entry)'
    <3>1. t[i - 1] = Node(frames'[i].entry)
      BY <1>11
    <3>2. PICK e : e = frames'[i].entry
      OBVIOUS
    <3>3. Node(e)' = Node(e)
      BY <1>1, DiskStays
    <3>4. Node(frames[i].entry)' = Node(e)
      BY <1>1, <3>2, <3>3 DEF Node
    <3>5. QED  BY <3>1, <3>2, <3>4
  <2>3. QED  BY <1>10, <2>1, <2>2 DEF Trail
<1>13. IsEntry(next)'
  BY <1>2, <1>5 DEF IsEntry
<1>14. Len(frames') \in Nat
  BY <1>3, <1>7
<1>15. ChainDecides'
  BY <1>1 DEF ChainDecides
<1>16. QED  BY <1>1, <1>3, <1>7, <1>12, <1>13, <1>14, <1>15 DEF TrailHolds

(* How a call decides about the end of the chain it has come to.            *)
LEMMA TrailEnds ==
  ASSUME TrailHolds, step = "enter", ~HasBase(Node(next))
  PROVE  LastBase = Node(next)
<1>1. disk \in Disks /\ Len(frames) \in Nat
  BY DEF TrailHolds
<1>2. PICK s : IsChain(s, Len(frames)) /\ s[Len(frames)] = Node(next)
  BY DEF TrailHolds, Trail
<1>3. PICK k : k = Len(frames)
  OBVIOUS
<1>4. IsChain(s, k) /\ ~HasBase(s[k]) /\ k \in Nat
  BY <1>1, <1>2, <1>3
<1>5. LastBase = s[k]
  BY <1>1, <1>4, EndIsLast
<1>6. QED  BY <1>2, <1>3, <1>5

LEMMA TrailEnterLast == ASSUME TrailHolds, EnterLast  PROVE TrailHolds'
<1>1. /\ step = "enter" /\ step' = "unwind" /\ disk' = disk /\ asked' = asked /\ frames' = frames
      /\ Load(next).kind = "profile" /\ Load(next).extends = <<>>
  BY DEF EnterLast
<1>2. disk \in Disks /\ asked \in Asks /\ IsSeq(frames) /\ Len(frames) \in Nat /\ IsEntry(next)
  BY <1>1 DEF TrailHolds
<1>3. PICK n : n = Node(next)
  OBVIOUS
<1>4. Content(n) = Load(next)
  BY <1>1, <1>2, <1>3, NodeIsLoaded
<1>5. Content(n).kind = "profile" /\ ~HasBase(n)
  BY <1>1, <1>4 DEF HasBase
<1>6. LastBase = n
  BY <1>1, <1>3, <1>5, TrailEnds
<1>7. ChainEnds
  BY <1>5, <1>6 DEF ChainEnds
<1>8. ChainEnds'
  BY <1>1, <1>7, EndStays
<1>9. ChainDecides'
  BY <1>1 DEF ChainDecides
<1>10. QED  BY <1>1, <1>2, <1>8, <1>9 DEF TrailHolds

(* What tells of the next entry stays while the call of it fails.           *)
LEMMA NextStays ==
  ASSUME disk' = disk, asked' = asked, next' = next, frames' = frames
  PROVE  /\ FilePath(next)' = FilePath(next)
         /\ IdentityShared' = IdentityShared
<1>1. FilePath(next)' = FilePath(next)
  BY DEF FilePath
<1>2. Node(next)' = Node(next)
  BY DEF Node, FilePath, Reached, Leads, IsDirectory
<1>3. \A i : Node(frames[i].entry)' = Node(frames[i].entry)
  BY DEF Node, FilePath, Reached, Leads, IsDirectory
<1>4. IdentityShared' = IdentityShared
  BY <1>1, <1>2, <1>3 DEF IdentityShared
<1>5. QED  BY <1>1, <1>4

LEMMA TrailEnterFails == ASSUME TrailHolds, EntriesHold, EnterFails  PROVE TrailHolds'
<1>1. /\ step = "enter" /\ step' = "resolved" /\ disk' = disk /\ asked' = asked /\ frames' = frames
      /\ next' = next
  BY DEF EnterFails, Fail
<1>2. disk \in Disks /\ asked \in Asks /\ IsSeq(frames) /\ Len(frames) \in Nat /\ IsEntry(next)
  BY <1>1 DEF TrailHolds
<1>3. SUFFICES ChainDecides'
  BY <1>1, <1>2 DEF TrailHolds
<1>4. CASE FilePath(next) \in visited
  <2>1. outcome' = "cycle"
    BY <1>4 DEF EnterFails, Fail
  <2>2. SUFFICES IdentityShared \/ (HasBase(LastBase) /\ ~ChainEnds)
    <3>1. IdentityShared' \/ (HasBase(LastBase)' /\ ~ChainEnds')
      BY <1>1, <2>2, NextStays, EndStays
    <3>2. QED  BY <2>1, <3>1 DEF ChainDecides
  <2>3. PICK i \in 1 .. Len(frames) : frames[i].id = FilePath(next)
    BY <1>4 DEF EntriesHold
  <2>4. CASE Node(frames[i].entry) # Node(next)
    BY <2>3, <2>4 DEF IdentityShared
  <2>5. CASE Node(frames[i].entry) = Node(next)
    <3>1. PICK s : Trail(s)
      BY <1>1 DEF TrailHolds
    <3>2. PICK k, m : k = Len(frames) /\ m = i - 1
      OBVIOUS
    <3>3. k \in Nat /\ m \in 0 .. (k - 1)
      BY <1>2, <3>2
    <3>4. IsChain(s, k) /\ s[m] = s[k]
      BY <2>5, <3>1, <3>2 DEF Trail
    <3>5. HasBase(LastBase)
      BY <1>2, <3>3, <3>4, CycleGoesOn
    <3>6. QED  BY <3>5 DEF ChainEnds
  <2>6. QED  BY <2>4, <2>5
<1>5. CASE FilePath(next) \notin visited
  <2>1. /\ Load(next).kind # "profile"
        /\ outcome' = IF Load(next).kind \in {"not_found", "directory"}
                      THEN Load(next).kind ELSE "malformed"
    BY <1>5 DEF EnterFails, Fail
  <2>2. outcome' \in {"not_found", "directory", "malformed"}
    BY <2>1
  <2>3. CASE Load(next) = Content(Node(next))
    <3>1. PICK n : n = Node(next)
      OBVIOUS
    <3>2. Content(n).kind # "profile" /\ ~HasBase(n)
      BY <2>1, <2>3, <3>1 DEF HasBase
    <3>3. LastBase = n
      BY <1>1, <3>1, <3>2, TrailEnds
    <3>4. ~ChainEnds
      BY <3>2, <3>3 DEF ChainEnds
    <3>5. ~ChainEnds'
      BY <1>1, <3>4, EndStays
    <3>6. QED  BY <2>2, <3>5 DEF ChainDecides
  <2>4. CASE Load(next).kind = "not_found" /\ Len(FilePath(next)) > PathMax
    <3>1. outcome' = "not_found"
      BY <2>1, <2>4
    <3>2. PathTooLong'
      <4>1. FilePath(next)' = FilePath(next)
        BY <1>1, NextStays
      <4>2. QED  BY <2>4, <3>1, <4>1 DEF PathTooLong
    <3>3. QED  BY <2>2, <3>2, <3>1 DEF ChainDecides
  <2>5. QED  BY <1>2, <2>3, <2>4, NodeIsLoaded
<1>6. QED  BY <1>4, <1>5

LEMMA TrailUnwind == ASSUME TrailHolds, Unwind  PROVE TrailHolds'
<1>1. /\ step = "unwind" /\ step' = "unwind" /\ disk' = disk /\ asked' = asked
      /\ frames # <<>> /\ frames' = Front(frames)
  BY DEF Unwind
<1>2. disk \in Disks /\ asked \in Asks /\ IsSeq(frames) /\ ChainEnds
  BY <1>1 DEF TrailHolds
<1>3. IsSeq(frames') /\ Len(frames') \in Nat
  BY <1>1, <1>2, FrontAny DEF IsSeq
<1>4. ChainEnds'
  BY <1>1, <1>2, EndStays
<1>5. ChainDecides'
  BY <1>1 DEF ChainDecides
<1>6. QED  BY <1>1, <1>2, <1>3, <1>4, <1>5 DEF TrailHolds

LEMMA TrailFinish == ASSUME TrailHolds, Finish  PROVE TrailHolds'
<1>1. /\ step = "unwind" /\ step' = "resolved" /\ disk' = disk /\ asked' = asked /\ frames' = frames
      /\ outcome' \in {"ok", "invalid_network", "invalid_mode"}
  BY DEF Finish, Fail
<1>2. disk \in Disks /\ asked \in Asks /\ IsSeq(frames) /\ Len(frames) \in Nat /\ ChainEnds
  BY <1>1 DEF TrailHolds
<1>3. ChainEnds'
  BY <1>1, <1>2, EndStays
<1>4. ChainDecides'
  BY <1>1, <1>3 DEF ChainDecides
<1>5. QED  BY <1>1, <1>2, <1>4 DEF TrailHolds

LEMMA TrailStutters == ASSUME TrailHolds, UNCHANGED resolverVars  PROVE TrailHolds'
<1>1. /\ step' = step /\ disk' = disk /\ asked' = asked /\ frames' = frames /\ next' = next
      /\ outcome' = outcome
  BY DEF resolverVars
<1>2. /\ disk \in Disks /\ asked \in Asks /\ IsSeq(frames) /\ Len(frames) \in Nat
      /\ step \in {"ask", "enter", "unwind", "resolved"} /\ (step = "ask" => frames = <<>>)
  BY DEF TrailHolds
<1>3. step = "unwind" => ChainEnds'
  BY <1>1, EndStays DEF TrailHolds
<1>4. ASSUME step = "enter"  PROVE IsEntry(next)' /\ \E s : Trail(s)'
  <2>1. PICK s : Trail(s)
    BY <1>4 DEF TrailHolds
  <2>2. PICK k : k = Len(frames)
    OBVIOUS
  <2>3. IsChain(s, k)
    BY <2>1, <2>2 DEF Trail
  <2>4. IsChain(s, k)'
    BY <1>1, <2>3, ChainStays
  <2>5. IsChain(s, Len(frames))'
    BY <1>1, <2>2, <2>4 DEF IsChain
  <2>6. Node(next)' = Node(next) /\ \A i : Node(frames[i].entry)' = Node(frames[i].entry)
    BY <1>1 DEF Node, FilePath, Reached, Leads, IsDirectory
  <2>7. Trail(s)'
    BY <1>1, <2>1, <2>5, <2>6 DEF Trail
  <2>8. IsEntry(next)'
    BY <1>1, <1>4 DEF TrailHolds, IsEntry
  <2>9. QED  BY <2>7, <2>8
<1>5. ChainDecides'
  <2>1. IdentityShared' = IdentityShared /\ FilePath(next)' = FilePath(next)
    BY <1>1, NextStays
  <2>2. PathTooLong' = PathTooLong
    BY <1>1, <2>1 DEF PathTooLong
  <2>3. ChainDecides
    BY DEF TrailHolds
  <2>4. QED  BY <1>1, <2>1, <2>2, <2>3, EndStays DEF ChainDecides
<1>6. QED  BY <1>1, <1>2, <1>3, <1>4, <1>5 DEF TrailHolds

LEMMA TrailStep == ASSUME TrailHolds, EntriesHold, [Next]_vars  PROVE TrailHolds'
<1>1. CASE UNCHANGED resolverVars
  BY <1>1, TrailStutters
<1>2. CASE ResolverNext
  BY <1>2, TrailChoose, TrailEnter, TrailEnterLast, TrailEnterFails, TrailUnwind, TrailFinish
  DEF ResolverNext
<1>3. QED
  BY <1>1, <1>2 DEF Next, vars, resolverVars, Resolve, Plan, Launch, Others

(* Whatever lies on the disk, whatever is asked for and however the paths   *)
(* are spelled: a profile is resolved only if its chain of bases has an end *)
(* and that can be loaded; a chain with an end is resolved, and none with   *)
(* an end is called a cycle, but for a path that has grown too long to be   *)
(* opened and for a file that lies where the file of a built-in profile     *)
(* would.                                                                   *)
THEOREM ChainIsDecided == Spec => []ChainDecides
<1>1. TrailHolds => ChainDecides
  BY DEF TrailHolds
<1>2. QED  BY <1>1, TrailInit, TrailStep, EntriesInit, EntriesStep, PTL DEF Spec
=============================================================================
