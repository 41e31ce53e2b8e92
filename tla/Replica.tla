------------------------------ MODULE Replica -------------------------------
(***************************************************************************)
(* Replica mode of crates/clawcrate-cli/src/replica.rs with the snapshots  *)
(* of crates/clawcrate-capture/src/lib.rs: the workspace is copied without *)
(* what is excluded, the command changes the copy, the difference of two   *)
(* snapshots is collected and, if the user agrees, brought back file by    *)
(* file.  Meanwhile the user goes on saving and removing files in the      *)
(* workspace, and a process the command left behind may go on changing the *)
(* copy.  RunPipeline has the place of these steps in a run.               *)
(*                                                                         *)
(* A tree maps paths, sequences of names, to nodes.  A file has a text and *)
(* a stamp, which is its size and time of modification.  A link has a      *)
(* place, a path in a tree: in that of the link itself when it is relative,*)
(* else in the workspace or in the host, which is everything outside.      *)
(***************************************************************************)
EXTENDS Naturals, FiniteSets, Sequences, SequencesExt

CONSTANTS
  Workspaces,   (* the trees the user's workspace may be                     *)
  Host,         (* what is outside the workspace and the copy                *)
  Targets,      (* the places the command's links lead to                    *)
  Paths,        (* the paths the command and the user change                 *)
  Rank,         (* the order of names: name -> number                        *)
  SecretNames,  (* the names is_secret_env_filename accepts                  *)
  Ignored,      (* patterns of .clawcrateignore: [path, dirOnly]             *)
  Roots,        (* the writable paths of the plan, relative to the copy      *)
  SnapshotModes,(* of "metadata_first", "full_hash"                          *)
  MaxFollowed,  (* bound: what following links adds to the steps of a walk   *)
  MaxCommand,   (* bound: the changes of the command and its processes       *)
  MaxUser       (* bound: the changes of the user                            *)

Dir == [type |-> "dir"]
File(text, stamp) == [type |-> "file", text |-> text, stamp |-> stamp]
Link(to) == [type |-> "link", to |-> to]
Outside == "outside"

Is(tree, p, type) == p \in DOMAIN tree /\ tree[p].type = type

Names == DOMAIN Rank
Places == [tree : {"own", "source", "host"}, path : Seq(Names)]
IsTree(w) ==
  /\ w = [p \in DOMAIN w |-> w[p]]
  /\ DOMAIN w \subseteq Seq(Names) /\ Is(w, <<>>, "dir")
  /\ \A p \in DOMAIN w : \A n \in 0 .. Len(p) - 1 : Is(w, SubSeq(p, 1, n), "dir")
  /\ \A p \in DOMAIN w : w[p].type \in {"dir", "file", "link"}
  /\ \A p \in DOMAIN w : w[p].type = "link" => w[p].to \in Places

(* What the command writes can be told from what there was.                 *)
IsForeign(node) == node.type = "file" => node.text # "command" /\ node.stamp # 1

ASSUME ReplicaAssumption ==
  /\ MaxCommand \in Nat /\ MaxUser \in Nat /\ MaxFollowed \in Nat
  /\ Paths \subseteq Seq(Names) /\ <<>> \notin Paths /\ Roots \subseteq Seq(Names)
  /\ Targets \subseteq Places
  /\ \A w \in Workspaces :
       /\ IsTree(w)
       /\ \A p \in DOMAIN w : IsForeign(w[p]) /\ (w[p].type = "file" => w[p].text # Outside)
  /\ IsTree(Host) /\ \A p \in DOMAIN Host : IsForeign(Host[p])

VARIABLES
  mode,       (* the SnapshotMode the environment chose                    *)
  phase,      (* copy, run, ask, apply, transfer, done, failed               *)
  source,     (* the workspace                                               *)
  copy,       (* the copy                                                    *)
  host,       (* what is outside both                                        *)
  todo,       (* the entries read and not yet copied                         *)
  before,     (* the snapshot before the command                             *)
  changes,    (* the changes to be brought back: path -> kind                *)
  moving,     (* the change being applied, its path and its type             *)
  event,      (* the ReplicaSyncBack event                                   *)
  commandLeft, userLeft,  (* bounds                                          *)
  mine,       (* history: the workspace as the user alone would have it      *)
  saved,      (* history: the paths the user has changed                     *)
  applied,    (* history: the paths whose change has been applied            *)
  hidden,     (* history: a text changed and its stamp did not               *)
  crossed,    (* history: the trees where a link lay on the way of a path    *)
  raced       (* history: the copy changed during the sync-back              *)

userVars == <<source, mine, saved, userLeft>>
commandVars == <<copy, commandLeft, hidden, raced>>
walkVars == <<host, crossed>>
vars == <<mode, phase, source, copy, host, todo, before, changes, moving, event, commandLeft,
          userLeft, mine, saved, applied, hidden, crossed, raced>>

Nothing == [path |-> <<>>, type |-> "none"]
NoEvent == [approved |-> FALSE, changes |-> 0]
Empty == [p \in {} |-> Dir]

Put(tree, p, node) == [q \in DOMAIN tree \cup {p} |-> IF q = p THEN node ELSE tree[q]]
Without(tree, p) == [q \in {q \in DOMAIN tree : ~IsPrefix(p, q)} |-> tree[q]]
Less(tree, gone) == [q \in DOMAIN tree \ gone |-> tree[q]]
Drop(tree, p) == Less(tree, {p})
Children(tree, d) == {p \in DOMAIN tree : p # <<>> /\ Front(p) = d}
Entries(d) == {[path |-> p, type |-> source[p].type] : p \in Children(source, d)}

Init ==
  /\ phase = "copy" /\ mode \in SnapshotModes
  /\ source \in Workspaces /\ mine = source
  /\ copy = [p \in {<<>>} |-> Dir] /\ host = Host
  /\ todo = Entries(<<>>)
  /\ before = Empty /\ changes = Empty /\ moving = Nothing /\ event = NoEvent
  /\ commandLeft = MaxCommand /\ userLeft = MaxUser
  /\ saved = {} /\ applied = {} /\ hidden = FALSE /\ raced = FALSE
  /\ crossed = {}

-----------------------------------------------------------------------------
(* Paths.  The operating system walks them: a name further, or on along the *)
(* link that is there.                                                      *)

Tree(t) == CASE t = "source" -> source [] t = "copy" -> copy [] t = "host" -> host

At(l) == Tree(l.tree)[l.path]
Exists(l) == l.path \in DOMAIN Tree(l.tree)

OnWalk(s) ==
  LET p == Append(s.path, s.rest[1]) IN
  IF s.rest = <<>> \/ ~Is(Tree(s.tree), s.path, "dir") THEN s
  ELSE IF Is(Tree(s.tree), p, "link")
  THEN LET to == Tree(s.tree)[p].to IN
       [tree |-> IF to.tree = "own" THEN s.tree ELSE to.tree, path |-> <<>>,
        rest |-> to.path \o Tail(s.rest)]
  ELSE [tree |-> s.tree, path |-> p, rest |-> Tail(s.rest)]

(* Where the walk is in the end: a set of one.                              *)
WalkEnds(t, p) ==
  LET On[n \in 0 .. (Len(p) + MaxFollowed)] ==
        IF n = 0 THEN {[tree |-> t, path |-> <<>>, rest |-> p]} ELSE {OnWalk(s) : s \in On[n - 1]}
  IN On[Len(p) + MaxFollowed]

(* The place p leads to; none when there is nothing or no way to it.        *)
Followed(t, p) ==
  {[tree |-> s.tree, path |-> s.path] : s \in {e \in WalkEnds(t, p) : e.rest = <<>> /\ Exists(e)}}

FollowedDir(t, p) == {l \in Followed(t, p) : At(l).type = "dir"}

(* The place itself that p names: the last name is not followed.            *)
Place(t, p) ==
  {[tree |-> d.tree, path |-> Append(d.path, Last(p))] : d \in FollowedDir(t, Front(p))}

OnWay(t, p) == \E n \in 1 .. (Len(p) - 1) : Is(Tree(t), SubSeq(p, 1, n), "link")

(* The change of path p is applied.                                         *)
Cross(p, trees) == crossed' = crossed \cup {t \in trees : OnWay(t, p)}

-----------------------------------------------------------------------------
(* Exclusion                                                                *)

ExcludedByDefault(p) ==
  \/ Last(p) \in SecretNames
  \/ Len(p) > 1 /\ Last(p) = "config" /\ p[Len(p) - 1] = ".git"

(* A parent that a pattern matches is a directory.                          *)
IgnoredByUser(p, isDir) ==
  \E r \in Ignored : IsPrefix(r.path, p) /\ (r.path # p \/ isDir \/ ~r.dirOnly)

ShouldExclude(p, isDir) == ExcludedByDefault(p) \/ IgnoredByUser(p, isDir)

-----------------------------------------------------------------------------
(* The copy.  A file is cloned or, where that fails, copied: the same to    *)
(* everybody else.  What a directory holds is read when its turn comes, and *)
(* the types are those read.                                                *)

CopyUnaffected == <<before, changes, moving, event, commandLeft, userLeft, source, mine,
                    saved, applied, hidden, raced, walkVars>>

(* A faulty variant: links are followed.                                    *)
CopyOfTarget(p, type) ==
  CASE type = "dir" -> Dir
    [] type = "file" -> File(source[p].text, 0)
    [] type = "link" -> File(Outside, 0)

CopyOf(p, type) ==
  CASE type = "dir" -> Dir
    [] type = "file" -> File(source[p].text, 0)
    [] type = "link" -> source[p]

CopyExcluded ==
  /\ phase = "copy"
  /\ \E e \in todo : ShouldExclude(e.path, e.type = "dir") /\ todo' = todo \ {e}
  /\ UNCHANGED <<phase, copy, CopyUnaffected>>

CopyEntry ==
  /\ phase = "copy"
  /\ \E e \in todo :
       /\ ~ShouldExclude(e.path, e.type = "dir")
       /\ IF e.path \notin DOMAIN source
          THEN phase' = "failed" /\ UNCHANGED <<copy, todo>>
          ELSE /\ copy' = Put(copy, e.path, CopyOf(e.path, e.type))
               /\ todo' = (todo \ {e}) \cup (IF e.type = "dir" THEN Entries(e.path) ELSE {})
               /\ UNCHANGED phase
  /\ UNCHANGED CopyUnaffected

-----------------------------------------------------------------------------
(* The snapshots                                                            *)

Fingerprint(node) ==
  IF mode = "full_hash" THEN <<node.stamp, node.text>> ELSE <<node.stamp>>

(* The regular files beneath a root.  A root that is a link is followed, to *)
(* a file or to a directory; the links beneath it are not.                  *)
Found(r) == UNION {
  {[path |-> r \o SubSeq(q, Len(l.path) + 1, Len(q)), node |-> Tree(l.tree)[q]] :
     q \in {q \in DOMAIN Tree(l.tree) : IsPrefix(l.path, q) /\ Tree(l.tree)[q].type = "file"}}
  : l \in Followed("copy", r)}

Recorded == UNION {Found(r) : r \in Roots}

Snapshot ==
  [p \in {f.path : f \in Recorded} |-> Fingerprint((CHOOSE f \in Recorded : f.path = p).node)]

CrossRoots ==
  LET crosses(r) == OnWay("copy", r) \/ (Is(copy, r, "link") /\ FollowedDir("copy", r) # {})
  IN crossed' = crossed \cup {t \in {"copy"} : \E r \in Roots : crosses(r)}

Diff(old, new) ==
  [p \in {q \in DOMAIN old \cup DOMAIN new :
            q \in DOMAIN old \cap DOMAIN new => old[q] # new[q]} |->
     IF p \notin DOMAIN new THEN "Deleted" ELSE IF p \in DOMAIN old THEN "Modified" ELSE "Created"]

SnapshotBefore ==
  /\ phase = "copy" /\ todo = {}
  /\ before' = Snapshot
  /\ CrossRoots
  /\ phase' = "run"
  /\ UNCHANGED <<host, todo, changes, moving, event, userVars, commandVars, applied>>

(* A faulty variant: what is excluded is brought back as well.              *)
CollectedAll(diff) == {p \in DOMAIN diff : p # <<>>}

(* The snapshot after, and collect_syncable_replica_changes.                *)
Collected(diff) == {p \in DOMAIN diff : p # <<>> /\ ~ShouldExclude(p, FALSE)}

SnapshotAfter ==
  /\ phase = "run"
  /\ LET diff == Diff(before, Snapshot) IN
       changes' = [p \in Collected(diff) |-> diff[p]]
  /\ CrossRoots
  /\ phase' = "ask"
  /\ UNCHANGED <<host, todo, before, moving, event, userVars, commandVars, applied>>

-----------------------------------------------------------------------------
(* The sync-back                                                            *)

Tell(approved) == event' = [approved |-> approved, changes |-> Cardinality(DOMAIN changes)]

(* Nothing to do, nobody to ask, or the user says no.                       *)
LeaveAlone ==
  /\ phase = "ask"
  /\ Tell(FALSE) /\ phase' = "done"
  /\ UNCHANGED <<walkVars, todo, before, changes, moving, userVars, commandVars, applied>>

Approve ==
  /\ phase = "ask" /\ DOMAIN changes # {}
  /\ phase' = "apply"
  /\ UNCHANGED <<walkVars, todo, before, changes, moving, event, userVars, commandVars, applied>>

(* The order of the paths, component by component.                          *)
Precedes(p, q) ==
  \/ IsPrefix(p, q)
  \/ \E i \in 1 .. Len(p) : /\ i <= Len(q) /\ Rank[p[i]] < Rank[q[i]]
                            /\ \A j \in 1 .. (i - 1) : p[j] = q[j]

Waiting == DOMAIN changes \ applied
IsNext(p) == \A q \in Waiting : Precedes(p, q)

(* create_dir_all of the parent: how much of p leads to a directory already,*)
(* and what is missing from there on.                                       *)
Reach(p) == CHOOSE n \in 0 .. (Len(p) - 1) :
  /\ FollowedDir("source", SubSeq(p, 1, n)) # {}
  /\ \A m \in (n + 1) .. (Len(p) - 1) : FollowedDir("source", SubSeq(p, 1, m)) = {}

Parents(p, t) == UNION {
  {l.path \o SubSeq(p, Reach(p) + 1, n) : n \in (Reach(p) + 1) .. (Len(p) - 1)}
  : l \in {d \in FollowedDir("source", SubSeq(p, 1, Reach(p))) : d.tree = t}}

(* What is there and no directory, be it a link to nothing, is in the way.  *)
ParentFails(p) == \E t \in {"source", "host"} : Parents(p, t) \cap DOMAIN Tree(t) # {}

With(tree, dirs) == [q \in DOMAIN tree \cup dirs |-> IF q \in dirs THEN Dir ELSE tree[q]]

(* The places that hold something else than a directory.                    *)
Old(p, t) == {l.path : l \in {l \in Place("source", p) :
                                l.tree = t /\ Exists(l) /\ At(l).type # "dir"}}

Cleared(p, t) == Less(With(Tree(t), Parents(p, t)), Old(p, t))

(* A faulty variant: links are followed when the type is looked at.         *)
TypesFollowed(p) == {At(l).type : l \in Followed("copy", p)}

(* symlink_metadata: the last link is not followed.  One type or none.      *)
TypesOf(p) == {At(l).type : l \in {l \in Place("copy", p) : Exists(l)}}

(* A change that is skipped: by now there is neither a file nor a link.     *)
Skip ==
  /\ phase = "apply"
  /\ \E p \in Waiting :
       /\ IsNext(p) /\ changes[p] # "Deleted" /\ TypesOf(p) \cap {"file", "link"} = {}
       /\ applied' = applied \cup {p} /\ Cross(p, {"copy"})
  /\ UNCHANGED <<phase, todo, before, changes, moving, event, userVars, commandVars, host>>

(* The destination is cleared, unless it is a directory.                    *)
Clear ==
  /\ phase = "apply"
  /\ \E p \in Waiting : \E type \in TypesOf(p) \cap {"file", "link"} :
       /\ IsNext(p) /\ changes[p] # "Deleted"
       /\ Cross(p, {"copy", "source"})
       /\ IF ParentFails(p)
          THEN phase' = "failed" /\ UNCHANGED <<source, host, moving>>
          ELSE /\ source' = Cleared(p, "source") /\ host' = Cleared(p, "host")
               /\ moving' = [path |-> p, type |-> type]
               /\ phase' = "transfer"
  /\ UNCHANGED <<todo, before, changes, event, commandVars, applied, mine, saved, userLeft>>

(* copy_symlink recreates the link; fs::copy follows what has become a link *)
(* and overwrites what has become a file.                                   *)
Transferred(p, type) ==
  IF type = "link"
  THEN {At(l) : l \in {l \in Place("copy", p) : Exists(l) /\ At(l).type = "link"}}
  ELSE {File(At(l).text, 0) : l \in {l \in Followed("copy", p) : At(l).type = "file"}}

(* Where it can go: copy_symlink needs nothing there.                       *)
Free(p, type) ==
  {l \in Place("source", p) : Exists(l) => type = "file" /\ At(l).type = "file"}

(* A faulty variant: the loop goes on after a failure.                      *)
TransferOn ==
  /\ phase = "transfer"
  /\ LET p == moving.path
         fails == Transferred(p, moving.type) = {} \/ Free(p, moving.type) = {} IN
       /\ Cross(p, {"copy", "source"})
       /\ IF fails THEN UNCHANGED <<source, host>>
          ELSE \E node \in Transferred(p, moving.type) : \E l \in Free(p, moving.type) :
                 /\ source' = IF l.tree = "source" THEN Put(source, l.path, node) ELSE source
                 /\ host' = IF l.tree = "host" THEN Put(host, l.path, node) ELSE host
  /\ phase' = "apply" /\ applied' = applied \cup {moving.path} /\ moving' = Nothing
  /\ UNCHANGED <<todo, before, changes, event, commandVars, mine, saved, userLeft>>

Transfer ==
  /\ phase = "transfer"
  /\ LET p == moving.path IN
       /\ Cross(p, {"copy", "source"})
       /\ \/ /\ Transferred(p, moving.type) = {} \/ Free(p, moving.type) = {}
             /\ phase' = "failed" /\ UNCHANGED <<source, host, moving, applied>>
          \/ \E node \in Transferred(p, moving.type) : \E l \in Free(p, moving.type) :
               /\ source' = IF l.tree = "source" THEN Put(source, l.path, node) ELSE source
               /\ host' = IF l.tree = "host" THEN Put(host, l.path, node) ELSE host
               /\ phase' = "apply" /\ applied' = applied \cup {p} /\ moving' = Nothing
  /\ UNCHANGED <<todo, before, changes, event, commandVars, mine, saved, userLeft>>

(* What p leads to must exist for what p names to be removed.               *)
RemoveDeleted ==
  /\ phase = "apply"
  /\ \E p \in Waiting :
       /\ IsNext(p) /\ changes[p] = "Deleted"
       /\ Cross(p, {"source"})
       /\ IF Followed("source", p) = {} THEN UNCHANGED <<source, host>>
          ELSE /\ source' = Less(source, Old(p, "source"))
               /\ host' = Less(host, Old(p, "host"))
       /\ applied' = applied \cup {p}
  /\ UNCHANGED <<phase, todo, before, changes, moving, event, commandVars, mine, saved, userLeft>>

EndSync ==
  /\ phase = "apply" /\ Waiting = {}
  /\ Tell(TRUE) /\ phase' = "done"
  /\ UNCHANGED <<walkVars, todo, before, changes, moving, userVars, commandVars, applied>>

-----------------------------------------------------------------------------
(* The command, while it runs, and a process it leaves behind until the end *)
(* of the sync-back.                                                        *)

CanMake(tree, p) == p \notin DOMAIN tree /\ Is(tree, Front(p), "dir")

Change(tree) ==
  /\ phase \in {"run", "ask", "apply", "transfer"} /\ commandLeft > 0
  /\ copy' = tree
  /\ commandLeft' = commandLeft - 1
  /\ raced' = (raced \/ phase # "run")
  /\ UNCHANGED <<phase, todo, before, changes, moving, event, userVars, applied, walkVars>>

Write(p, stamp) ==
  /\ Is(copy, p, "file") \/ CanMake(copy, p)
  /\ Change(Put(copy, p, File("command", stamp)))
  /\ hidden' = (hidden \/ stamp = 0)

Make(p, node) ==
  /\ CanMake(copy, p)
  /\ Change(Put(copy, p, node))
  /\ UNCHANGED hidden

Delete(p) ==
  /\ p \in DOMAIN copy
  /\ Change(Without(copy, p))
  /\ UNCHANGED hidden

(* The user                                                                 *)

Edit(p, tree) ==
  /\ phase \notin {"done", "failed"} /\ userLeft > 0
  /\ source' = tree
  /\ userLeft' = userLeft - 1
  /\ saved' = saved \cup {p}
  /\ UNCHANGED <<phase, copy, todo, before, changes, moving, event, commandLeft, applied,
                 hidden, raced, walkVars>>

Save(p) ==
  /\ Is(source, p, "file") \/ CanMake(source, p)
  /\ Edit(p, Put(source, p, File("user", 2)))
  /\ mine' = Put(mine, p, File("user", 2))

RemoveOwn(p) ==
  /\ Is(source, p, "file")
  /\ Edit(p, Drop(source, p))
  /\ mine' = Drop(mine, p)

-----------------------------------------------------------------------------

Materialize == CopyExcluded \/ CopyEntry \/ SnapshotBefore
SyncBack == LeaveAlone \/ Approve \/ Skip \/ Clear \/ Transfer \/ RemoveDeleted \/ EndSync
Command ==
  \E p \in Paths : \/ \E stamp \in {0, 1} : Write(p, stamp)
                   \/ Make(p, Dir) \/ \E to \in Targets : Make(p, Link(to))
                   \/ Delete(p)
User == \E p \in Paths : Save(p) \/ RemoveOwn(p)

Next ==
  /\ Materialize \/ SnapshotAfter \/ SyncBack \/ Command \/ User
  /\ UNCHANGED mode

Spec == Init /\ [][Next]_vars

-----------------------------------------------------------------------------
(* Properties                                                               *)

(* p and what it lies in may be in the copy.                                *)
Wanted(p, isDir) ==
  \A n \in 1 .. Len(p) : ~ShouldExclude(SubSeq(p, 1, n), isDir \/ n < Len(p))

(* Before the command starts, the copy is the workspace without what is     *)
(* excluded, whatever else the user changed while it was made; links are    *)
(* links there too.                                                         *)
CopyIsFiltered ==
  phase = "run" /\ commandLeft = MaxCommand =>
    \A p \in (DOMAIN mine \cup DOMAIN copy) \ saved :
      /\ p \in DOMAIN copy <=> p \in DOMAIN mine /\ Wanted(p, Is(mine, p, "dir"))
      /\ p \in DOMAIN copy => /\ copy[p].type = mine[p].type
                              /\ copy[p].type = "file" => copy[p].text = mine[p].text
                              /\ copy[p].type = "link" => copy[p].to = mine[p].to

Entry(tree, p) == IF p \in DOMAIN tree /\ tree[p].type # "dir" THEN tree[p] ELSE Nothing

Named(tree, ideal) ==
  \A p \in DOMAIN tree \cup DOMAIN ideal :
    Entry(tree, p) # Entry(ideal, p) =>
      /\ p # <<>> /\ Last(p) \notin SecretNames
      /\ phase \in {"apply", "transfer", "failed"} \/ event.approved

(* The user's workspace and what is outside of it differ from what the user *)
(* made of them in nothing that has a secret name, and in nothing before    *)
(* the user agrees.  As long as no link of the workspace has been on the way*)
(* of a change, they differ only in files of the workspace that are among   *)
(* the approved changes, and only in those already applied or being applied;*)
(* none of them is excluded.  A file is missing for nothing but a deletion, *)
(* save the one that is being replaced, wherever an error or a kill ends the*)
(* sync-back.                                                               *)
OnlyChangesApplied ==
  /\ Named(source, mine) /\ Named(host, Host)
  /\ "source" \notin crossed =>
       /\ host = Host
       /\ \A p \in DOMAIN source \cup DOMAIN mine :
            Entry(source, p) # Entry(mine, p) =>
              /\ p \in applied \/ p = moving.path
              /\ p \in DOMAIN changes /\ ~ShouldExclude(p, FALSE)
              /\ p \notin DOMAIN source => changes[p] = "Deleted" \/ p = moving.path

(* An approved sync-back that came to its end, in which no link was on the  *)
(* way of a path: the regular files of the workspace and of the copy are the*)
(* same, but for those the user changed meanwhile and those that are        *)
(* excluded.  A change that left size and time as they were is seen by      *)
(* hashes only, and a link in the place of a root not even by these when    *)
(* what it leads to is the same.                                            *)
SyncedIsCopied ==
  phase = "done" /\ event.approved /\ ~raced /\ (mode = "full_hash" \/ ~hidden) /\ crossed = {} =>
    \A p \in (DOMAIN source \cup DOMAIN copy) \ saved :
      Wanted(p, FALSE) /\ (\E r \in Roots : IsPrefix(r, p)) /\ ~(p \in Roots /\ Is(copy, p, "link")) =>
        /\ Is(source, p, "file") <=> Is(copy, p, "file")
        /\ Is(source, p, "file") => source[p].text = copy[p].text

(* What a link of the copy leads to never gets into a file of the workspace,*)
(* however the types of its paths change, unless the copy is changed during *)
(* the sync-back itself, or a link is on the way of a path or a directory's *)
(* link is a root.                                                          *)
LinksAreNotFollowed ==
  ~raced /\ "copy" \notin crossed =>
    \A p \in DOMAIN source : Is(source, p, "file") => source[p].text # Outside

=============================================================================
