-------------------------- MODULE ProfileResolver --------------------------
(***************************************************************************)
(* ProfileResolver of crates/clawcrate-profiles/src/lib.rs: from what the  *)
(* user asked for to a resolved profile, along the chain of `extends`.     *)
(*                                                                         *)
(* resolve_entry calls itself once per base: `frames` are the calls under  *)
(* way, the profile asked for first.  A reference is a path: one plain     *)
(* word, or something that looks like a path.                              *)
(***************************************************************************)
EXTENDS Naturals, FiniteSets, Sequences, SequencesExt, PathOps

CONSTANTS
  Disks,       (* what the disk may hold: location -> content, see IsContent *)
  Asks,        (* what the user may ask for; <<>> is no --profile            *)
  WorkDir,     (* the directory the user is in                               *)
  ProfilesDir, (* profiles_dir                                               *)
  Builtins,    (* the profiles compiled in: name -> profile                  *)
  Extension,   (* the file names that end so: name -> "yaml" or "yml"        *)
  Dotted,      (* the words that begin with a dot                            *)
  Normal,      (* normalize_string: a spelled word -> trimmed, lower case    *)
  PathMax      (* bound: a longer path cannot be opened                      *)

Fields == {"name", "mode", "network", "read", "write", "scrub", "passthrough", "files"}
Lists == {"read", "write", "scrub", "passthrough"}

IsProfile(c) ==
  c.kind = "profile" =>
    /\ c.extends \in Seq(STRING)
    /\ DOMAIN c.own \subseteq Fields
    /\ \A f \in Lists \cap DOMAIN c.own : c.own[f] \subseteq Seq(STRING)

IsCatalog(c) ==
  c.kind = "catalog" => \A i \in 1 .. Len(c.entries) : c.entries[i].path \in Seq(STRING)

IsContent(c) ==
  c.kind \in {"profile", "catalog", "malformed", "directory"} /\ IsProfile(c) /\ IsCatalog(c)

(* One plain word names a built-in profile, anything else is a path.        *)
LooksLikePath(ref) == Len(ref) > 1 \/ ref[1] \in DOMAIN Extension \cup Dotted \cup {"/"}

(* Nothing lies beneath a file, and the working directory is a directory.   *)
IsDisk(d) ==
  /\ IsFiniteSet(DOMAIN d)
  /\ \A l \in DOMAIN d : IsLocation(l) /\ IsContent(d[l])
  /\ \A l \in DOMAIN d, m \in DOMAIN d \cup {WorkDir} :
       IsStrictPrefix(l, m) \/ l = WorkDir => d[l].kind = "directory"

(* What the built-in profiles extend are built-in profiles.                 *)
IsBuiltin(c) ==
  c.kind = "profile" /\ IsProfile(c) /\ (c.extends # <<>> => ~LooksLikePath(c.extends))

ASSUME ResolverAssumption ==
  /\ \A d \in Disks : IsDisk(d)
  /\ Asks \subseteq Seq(STRING)
  /\ IsFiniteSet(DOMAIN Builtins) /\ \A b \in DOMAIN Builtins : IsBuiltin(Builtins[b])
  /\ PathMax \in Nat
  /\ IsLocation(WorkDir) /\ IsLocation(ProfilesDir)

VARIABLES
  disk,        (* the files                                                  *)
  asked,       (* the argument of resolve                                    *)
  step,        (* ask, enter, unwind, resolved                               *)
  next,        (* the entry resolve_entry is called with, and from where     *)
  frames,      (* the calls of resolve_entry under way                       *)
  visited,     (* the identities of the entries being resolved               *)
  merged,      (* what the last call returned                                *)
  outcome,     (* none, ok, or the error                                     *)
  resolved,    (* the resolved profile                                       *)
  chain        (* history: what each loaded file says, in the order loaded   *)

resolverVars == <<disk, asked, step, next, frames, visited, merged, outcome, resolved, chain>>

NoEntry == [builtin |-> FALSE, ref |-> <<>>, base |-> <<>>]

ResolverInit ==
  /\ disk \in Disks /\ asked \in Asks
  /\ step = "ask" /\ outcome = "none"
  /\ next = NoEntry
  /\ frames = <<>> /\ visited = {} /\ chain = <<>>
  /\ merged = <<>> /\ resolved = <<>>

-----------------------------------------------------------------------------
(* Entries                                                                  *)

IsDirectory(l) ==
  IF l \in DOMAIN disk THEN disk[l].kind = "directory"
  ELSE \E m \in DOMAIN disk \cup {WorkDir} : IsPrefix(l, m)

(* All that a path comes through are directories, also what a ".." leaves.  *)
Leads(cwd, p) ==
  \A n \in 1 .. Len(Join(cwd, p)) - 1 : IsDirectory(Location(cwd, SubSeq(Join(cwd, p), 1, n)))

Exists(p) == Len(p) <= PathMax /\ Leads(WorkDir, p) /\ Location(WorkDir, p) \in DOMAIN disk

PathEntry(p, base) == [builtin |-> FALSE, ref |-> p, base |-> base]
BuiltinEntry(name) == [builtin |-> TRUE, ref |-> <<name>>, base |-> <<>>]

FromReference(ref, base) ==
  IF LooksLikePath(ref) THEN PathEntry(ref, base) ELSE BuiltinEntry(ref[1])

(* A faulty variant: references are relative to the working directory.      *)
FilePathFromWorkDir(e) ==
  IF e.builtin THEN Append(ProfilesDir, e.ref[1] \o ".yaml") ELSE e.ref

FilePath(e) ==
  IF e.builtin THEN Append(ProfilesDir, e.ref[1] \o ".yaml") ELSE Join(e.base, e.ref)

(* load_builtin_profile, load_raw_profile: the content, or why there is none.*)
Load(e) ==
  IF e.builtin
  THEN IF e.ref[1] \in DOMAIN Builtins THEN Builtins[e.ref[1]] ELSE [kind |-> "not_found"]
  ELSE IF Exists(FilePath(e)) THEN disk[Location(WorkDir, FilePath(e))] ELSE [kind |-> "not_found"]

(* The words of `network` and `default_mode` are read after merging.        *)
ParseMode(own) ==
  IF "mode" \notin DOMAIN own THEN "direct"
  ELSE IF Normal[own.mode] \in {"direct", "replica"} THEN Normal[own.mode] ELSE "invalid"

Domains(network) == {Normal[d] : d \in network.domains} \ {""}

ParseNetwork(own) ==
  IF "network" \notin DOMAIN own THEN [mode |-> "none", domains |-> {}]
  ELSE LET mode == Normal[own.network.mode] IN
    IF mode \in {"none", "open"} THEN [mode |-> mode, domains |-> {}]
    ELSE IF mode = "filtered" /\ own.network.object /\ Domains(own.network) # {}
         THEN [mode |-> mode, domains |-> Domains(own.network)]
         ELSE [mode |-> "invalid", domains |-> {}]

(* A faulty variant: the base wins.                                         *)
MergeBaseWins(base, overlay) ==
  [f \in DOMAIN base \cup DOMAIN overlay |->
     IF f \in DOMAIN base THEN base[f] ELSE overlay[f]]

Merge(base, overlay) ==
  [f \in DOMAIN base \cup DOMAIN overlay |->
     IF f \in DOMAIN overlay THEN overlay[f] ELSE base[f]]

IsFile(name) ==
  LET l == Append(WorkDir, name) IN l \in DOMAIN disk /\ disk[l].kind # "directory"

DetectStack ==
  CASE IsFile("Cargo.toml") -> "rust"
    [] ~IsFile("Cargo.toml") /\ IsFile("package.json") -> "node"
    [] ~IsFile("Cargo.toml") /\ ~IsFile("package.json") /\ IsFile("pyproject.toml") -> "python"
    [] OTHER -> "unknown"

AutoProfile == IF DetectStack = "unknown" THEN "safe" ELSE "build"

(* apply_stack_overrides: what resolve_auto adds to the lists.              *)
Home(parts) == <<"~">> \o parts
Caches(stack) ==
  CASE stack = "node" -> {Home(<<".npm">>), Home(<<".pnpm-store">>)}
    [] stack = "python" -> {Home(<<".cache", "pip">>)}
    [] OTHER -> {}

Added(f) ==
  CASE asked # <<>> -> {}
    [] asked = <<>> /\ f = "read" -> Caches(DetectStack)
    [] asked = <<>> /\ f = "write" ->
         Caches(DetectStack) \cup (CASE DetectStack = "node" -> {<<".", "node_modules">>}
                                    [] DetectStack = "python" -> {<<".", ".venv">>}
                                    [] OTHER -> {})
    [] asked = <<>> /\ f = "passthrough" ->
         CASE DetectStack = "node" -> {<<"NPM_CONFIG_CACHE">>}
           [] DetectStack = "python" -> {<<"PIP_CACHE_DIR">>}
           [] OTHER -> {}
    [] OTHER -> {}

Resolved(own, fallback) ==
  [f \in Fields |->
     CASE f = "mode" -> ParseMode(own)
       [] f = "network" -> ParseNetwork(own)
       [] f \in Lists -> (IF f \in DOMAIN own THEN own[f] ELSE {}) \cup Added(f)
       [] f = "name" -> IF f \in DOMAIN own THEN own[f] ELSE fallback
       [] f = "files" -> IF f \in DOMAIN own THEN own[f] ELSE 1024]

-----------------------------------------------------------------------------
(* The catalog of community profiles                                        *)

Catalog == Append(Append(ProfilesDir, "community"), "catalog.yaml")

CatalogEntries(id) ==
  {i \in 1 .. Len(disk[Catalog].entries) : disk[Catalog].entries[i].id = id}

EntryIsSound(e) ==
  /\ e.kebab
  /\ ~Absolute(e.path)
  /\ ~Contains(e.path, "..")
  /\ Last(e.path) \in DOMAIN Extension /\ Extension[Last(e.path)] = "yaml"

CommunityPath(e) == Parent(Catalog) \o Cleaned(e.path)

(* Why a community profile cannot be resolved; "none" when it is known where *)
(* it lies.                                                                 *)
CommunityError(id) ==
  IF Catalog \notin DOMAIN disk THEN "not_found"
  ELSE IF disk[Catalog].kind # "catalog" \/ disk[Catalog].version # 1 THEN "catalog"
  ELSE IF CatalogEntries(id) = {} THEN "not_found"
  ELSE IF EntryIsSound(disk[Catalog].entries[Min(CatalogEntries(id))]) THEN "none"
  ELSE "catalog"

CommunityEntry(id) ==
  PathEntry(CommunityPath(disk[Catalog].entries[Min(CatalogEntries(id))]), <<>>)

-----------------------------------------------------------------------------
(* Resolution                                                               *)

Call(e) ==
  /\ step' = "enter" /\ next' = e
  /\ UNCHANGED outcome

Fail(why) ==
  /\ step' = "resolved" /\ outcome' = why
  /\ UNCHANGED next

IsCommunity ==
  asked # <<>> /\ ~LooksLikePath(asked) /\ ~Exists(asked) /\ asked[1] \notin DOMAIN Builtins

(* resolve, resolve_auto: a path when it looks like one or when something of *)
(* that name lies in the working directory, then a built-in name, then the  *)
(* catalog.                                                                 *)
Chosen ==
  IF asked = <<>> THEN BuiltinEntry(AutoProfile)
  ELSE IF IsCommunity THEN CommunityEntry(asked[1])
  ELSE IF LooksLikePath(asked) \/ Exists(asked) THEN PathEntry(asked, <<>>)
  ELSE BuiltinEntry(asked[1])

Choose ==
  /\ step = "ask"
  /\ IF IsCommunity /\ CommunityError(asked[1]) # "none"
     THEN Fail(CommunityError(asked[1]))
     ELSE Call(Chosen)
  /\ UNCHANGED <<disk, asked, frames, visited, merged, resolved, chain>>

(* A faulty variant: the identities are compared within one call only.      *)
EnterUnvisited ==
  /\ step = "enter" /\ FilePath(next) \notin visited
  /\ Load(next).kind = "profile" /\ Load(next).extends # <<>>
  /\ frames' = Append(frames, [entry |-> next, id |-> FilePath(next), own |-> Load(next).own])
  /\ chain' = Append(chain, Load(next).own)
  /\ visited' = {FilePath(next)}
  /\ Call(FromReference(Load(next).extends, Parent(FilePath(next))))
  /\ UNCHANGED <<disk, asked, merged, resolved>>

(* resolve_entry down to the call for the base.                             *)
Enter ==
  /\ step = "enter" /\ FilePath(next) \notin visited
  /\ Load(next).kind = "profile" /\ Load(next).extends # <<>>
  /\ frames' = Append(frames, [entry |-> next, id |-> FilePath(next), own |-> Load(next).own])
  /\ chain' = Append(chain, Load(next).own)
  /\ visited' = visited \cup {FilePath(next)}
  /\ Call(FromReference(Load(next).extends, Parent(FilePath(next))))
  /\ UNCHANGED <<disk, asked, merged, resolved>>

(* resolve_entry of a profile without a base; its identity is inserted and  *)
(* removed again.                                                           *)
EnterLast ==
  /\ step = "enter" /\ FilePath(next) \notin visited
  /\ Load(next).kind = "profile" /\ Load(next).extends = <<>>
  /\ chain' = Append(chain, Load(next).own)
  /\ merged' = Load(next).own
  /\ step' = "unwind"
  /\ UNCHANGED <<disk, asked, next, frames, visited, outcome, resolved>>

EnterFails ==
  /\ step = "enter"
  /\ IF FilePath(next) \in visited THEN Fail("cycle")
     ELSE /\ Load(next).kind # "profile"
          /\ Fail(IF Load(next).kind \in {"not_found", "directory"}
                  THEN Load(next).kind ELSE "malformed")
  /\ UNCHANGED <<disk, asked, frames, visited, merged, resolved, chain>>

(* A call returns: its profile is laid over what its base gave.             *)
Unwind ==
  /\ step = "unwind" /\ frames # <<>>
  /\ merged' = Merge(merged, Last(frames).own)
  /\ visited' = visited \ {Last(frames).id}
  /\ frames' = Front(frames)
  /\ UNCHANGED <<disk, asked, step, next, outcome, resolved, chain>>

(* to_resolved_profile: only the merged words are validated.                *)
Finish ==
  /\ step = "unwind" /\ frames = <<>>
  /\ LET r == Resolved(merged, Last(Chosen.ref)) IN
       IF r.network.mode = "invalid" THEN Fail("invalid_network") /\ UNCHANGED resolved
       ELSE IF r.mode = "invalid" THEN Fail("invalid_mode") /\ UNCHANGED resolved
       ELSE Fail("ok") /\ resolved' = r
  /\ UNCHANGED <<disk, asked, frames, visited, merged, chain>>

ResolverNext ==
  \/ Choose
  \/ Enter
  \/ EnterLast
  \/ EnterFails
  \/ Unwind
  \/ Finish

ResolverSpec == ResolverInit /\ [][ResolverNext]_resolverVars

-----------------------------------------------------------------------------
(* Properties                                                               *)

(* m has exactly the fields that c[k], c[k+1], ... define, each as the first *)
(* of them that defines it says.                                            *)
IsNearest(m, c, k) ==
  /\ \A f \in DOMAIN m : \E i \in k .. Len(c) : f \in DOMAIN c[i]
  /\ \A i \in k .. Len(c) : \A f \in DOMAIN c[i] :
       /\ f \in DOMAIN m
       /\ (\A j \in k .. (i - 1) : f \notin DOMAIN c[j]) => m[f] = c[i][f]

(* However long the chain of bases is, the definition nearest to the profile *)
(* asked for decides each field when the calls return.                      *)
NearestWins == step = "unwind" => IsNearest(merged, chain, Len(frames) + 1)

(* No entry is being resolved twice at a time under one identity.           *)
NoEntryTwice ==
  /\ visited = {frames[i].id : i \in 1 .. Len(frames)}
  /\ \A i, j \in 1 .. Len(frames) : frames[i].id = frames[j].id => i = j

(* The chain as the disk has it, whatever the spelling: a built-in profile  *)
(* is <<its name>>, a file its location; what no path leads to is Nowhere.  *)
Nowhere == <<>>

Reached(cwd, p) == IF Leads(cwd, p) THEN Location(cwd, p) ELSE Nowhere

Node(e) == IF e.builtin THEN e.ref ELSE Reached(WorkDir, FilePath(e))

Content(node) ==
  IF Absolute(node)
  THEN IF node \in DOMAIN disk THEN disk[node] ELSE [kind |-> "not_found"]
  ELSE IF \E b \in DOMAIN Builtins : node = <<b>> THEN Builtins[node[1]] ELSE [kind |-> "not_found"]

BaseOf(node) ==
  LET ref == Content(node).extends IN
    IF LooksLikePath(ref) THEN Reached(Front(node), ref) ELSE ref

HasBase(node) == Content(node).kind = "profile" /\ Content(node).extends # <<>>

Start == IF IsCommunity /\ CommunityError(asked[1]) # "none" THEN Nowhere ELSE Node(Chosen)

Nodes == Cardinality(DOMAIN disk) + Cardinality(DOMAIN Builtins)

Onward(node) == IF HasBase(node) THEN BaseOf(node) ELSE node

LastBase ==
  LET Walk[n \in 0 .. Nodes] == IF n = 0 THEN Start ELSE Onward(Walk[n - 1])
  IN Walk[Nodes]

ChainEnds == Content(LastBase).kind = "profile" /\ ~HasBase(LastBase)

(* Two reasons why a chain that ends is not resolved: the spelling of a path *)
(* has become longer than what can be opened, or a file lies where the file *)
(* of a built-in profile would, so that both have one identity.             *)
PathTooLong == outcome = "not_found" /\ Len(FilePath(next)) > PathMax

IdentityShared ==
  \E i \in 1 .. Len(frames) : frames[i].id = FilePath(next) /\ Node(frames[i].entry) # Node(next)

(* A profile is resolved only if its chain of bases has an end and the end  *)
(* can be loaded, and then it is, but for the two reasons; a chain that is  *)
(* reported as a cycle is one, however its paths are spelled, unless it     *)
(* comes to two profiles of one identity.                                   *)
ChainDecides ==
  step = "resolved" =>
    /\ outcome \in {"ok", "invalid_network", "invalid_mode"} => ChainEnds
    /\ ChainEnds => \/ outcome \in {"ok", "invalid_network", "invalid_mode"}
                    \/ PathTooLong
                    \/ IdentityShared
    /\ outcome = "cycle" => HasBase(LastBase) \/ IdentityShared

=============================================================================
