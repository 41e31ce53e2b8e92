-------------------------- MODULE McpInstallProofs --------------------------
(* Theorems about McpInstall.                                               *)
EXTENDS McpInstall, SequenceTheorems, WellFoundedInduction, TLAPS

Steps == {"start", "backup", "copy", "temp", "write", "rename", "done", "refused", "failed",
          "killed"}

Shape ==
  /\ now \in 0 .. MaxSecond
  /\ DOMAIN backups = 0 .. MaxSecond
  /\ step \in [Runs -> Steps]
  /\ stamp \in [Runs -> 0 .. NoStamp]
  /\ DOMAIN copied = Runs /\ DOMAIN replaced = Runs /\ DOMAIN temp = Runs

(* The second of r's backup is its own.                                     *)
Alone(r) == \A q \in Runs \ {r} : stamp[q] # stamp[r]

(* What a run may count on before its rename, as long as nobody else wrote: *)
(* the config is what it copied, or is still missing.                       *)
Fresh(r) ==
  step[r] \in {"start", "backup"} => stamp[r] = NoStamp
Unreplaced(r) ==
  step[r] # "done" => replaced[r] = Missing
Unchanged(r) ==
  BackupTaken(r) /\ r \notin raced =>
    file = IF stamp[r] = NoStamp THEN Missing ELSE copied[r]
Copying(r) ==
  step[r] = "copy" => stamp[r] # NoStamp
Copied(r) ==
  step[r] \in {"temp", "write", "rename"} /\ stamp[r] # NoStamp /\ Alone(r) =>
    backups[stamp[r]] = copied[r]
Kept(r) ==
  \/ replaced[r] = Missing \/ r \in raced
  \/ /\ stamp[r] # NoStamp
     /\ backups[stamp[r]] = replaced[r] \/ ~Alone(r)

RunInv(r) ==
  Fresh(r) /\ Unreplaced(r) /\ Unchanged(r) /\ Copying(r) /\ Copied(r) /\ Kept(r)

IInv == Shape /\ \A r \in Runs : RunInv(r)

LEMMA InitInv == Init => IInv
  BY McpAssumption
  DEF Init, IInv, Shape, RunInv, Fresh, Unreplaced, Unchanged, Copying, Copied, Kept, Steps,
      BackupTaken, NoStamp

LEMMA ShapeStep == ASSUME Shape, [Next]_vars PROVE Shape'
<1>. USE McpAssumption DEF Shape, Steps, Go, history, NoStamp
<1>1. ASSUME NEW r \in Runs, Invoke(r) PROVE Shape'
  <2>1. CASE LoadConfig(r)
    BY <2>1 DEF LoadConfig
  <2>2. CASE OpenBackup(r)
    BY <2>2 DEF OpenBackup
  <2>3. CASE NothingToBackUp(r)
    BY <2>3 DEF NothingToBackUp
  <2>4. CASE CopyBackup(r)
    BY <2>4 DEF CopyBackup
  <2>5. CASE CreateTemp(r)
    BY <2>5 DEF CreateTemp
  <2>6. CASE WriteTemp(r)
    BY <2>6 DEF WriteTemp
  <2>7. CASE Rename(r)
    BY <2>7 DEF Rename
  <2>8. CASE CallFails(r)
    BY <2>8 DEF CallFails
  <2>9. CASE Killed(r)
    BY <2>9 DEF Killed
  <2>. QED
    BY <1>1, <2>1, <2>2, <2>3, <2>4, <2>5, <2>6, <2>7, <2>8, <2>9 DEF Invoke
<1>2. CASE ClientEdits
  BY <1>2 DEF ClientEdits
<1>3. CASE Tick
  BY <1>3 DEF Tick
<1>4. CASE UNCHANGED vars
  BY <1>4 DEF vars
<1>. QED
  BY <1>1, <1>2, <1>3, <1>4 DEF Next

(* Steps that touch neither the config nor the backups nor the stamps.      *)
LEMMA QuietStep ==
  ASSUME IInv, Shape',
         UNCHANGED <<file, backups, copied, stamp, replaced, raced>>,
         NEW r \in Runs,
         \A q \in Runs \ {r} : step'[q] = step[q],
         \/ step[r] = "start" /\ step'[r] \in {"refused", "done", "backup"}
         \/ step[r] = "backup" /\ step'[r] = "temp" /\ file = Missing
         \/ step[r] = "temp" /\ step'[r] = "write"
         \/ step[r] = "write" /\ step'[r] = "rename"
         \/ step[r] # "done" /\ step'[r] \in {"failed", "killed"}
  PROVE  \A q \in Runs : RunInv(q)'
<1>. SUFFICES ASSUME NEW q \in Runs PROVE RunInv(q)'
  OBVIOUS
<1>1. RunInv(q) /\ RunInv(r) /\ Shape
  BY DEF IInv
<1>2. Alone(q)' <=> Alone(q)
  BY DEF Alone
<1>3. CASE q = r
  BY <1>1, <1>2, <1>3
  DEF RunInv, Fresh, Unreplaced, Unchanged, Copying, Copied, Kept, BackupTaken, Shape, Steps, NoStamp
<1>4. CASE q # r
  BY <1>1, <1>2, <1>4
  DEF RunInv, Fresh, Unreplaced, Unchanged, Copying, Copied, Kept, BackupTaken, Shape, NoStamp
<1>. QED
  BY <1>3, <1>4

(* Opening a backup: r copies the config as it is, and whoever has the same *)
(* second is no longer alone in it.                                         *)
LEMMA OpenStep == ASSUME IInv, Shape', NEW r \in Runs, OpenBackup(r)
                  PROVE  \A q \in Runs : RunInv(q)'
<1>. SUFFICES ASSUME NEW q \in Runs PROVE RunInv(q)'
  OBVIOUS
<1>1. RunInv(q) /\ RunInv(r) /\ Shape
  BY DEF IInv
<1>2. /\ step[r] = "backup" /\ file # Missing /\ step'[r] = "copy" /\ stamp'[r] = now
      /\ copied'[r] = file /\ backups' = [backups EXCEPT ![now] = Torn]
      /\ UNCHANGED <<file, replaced, raced>>
      /\ \A p \in Runs \ {r} : step'[p] = step[p] /\ stamp'[p] = stamp[p] /\ copied'[p] = copied[p]
  BY <1>1 DEF OpenBackup, Go, Shape, history
<1>3. now # NoStamp
  BY <1>1, McpAssumption DEF Shape, NoStamp
<1>4. CASE q = r
  <2>1. replaced[r] = Missing
    BY <1>1, <1>2 DEF RunInv, Unreplaced
  <2>. QED
    BY <1>2, <1>3, <1>4, <2>1
    DEF RunInv, Fresh, Unreplaced, Unchanged, Copying, Copied, Kept, BackupTaken, NoStamp
<1>5. CASE q # r
  <2>1. Alone(q)' => Alone(q) \/ stamp[q] = NoStamp
    BY <1>1, <1>2, <1>5 DEF Alone, RunInv, Fresh
  <2>2. stamp[q] = now => ~Alone(q)'
    BY <1>2, <1>5 DEF Alone
  <2>3. stamp[q] # now /\ stamp[q] # NoStamp => backups'[stamp[q]] = backups[stamp[q]]
    BY <1>1, <1>2 DEF Shape, NoStamp
  <2>4. Copied(q)'
    BY <1>1, <1>2, <1>5, <2>1, <2>2, <2>3 DEF RunInv, Copied, NoStamp
  <2>5. Kept(q)'
    <3>1. ~Alone(q) /\ stamp[q] # NoStamp => ~Alone(q)'
      BY <2>1
    <3>. QED
      BY <1>1, <1>2, <1>5, <2>2, <2>3, <3>1 DEF RunInv, Kept, NoStamp
  <2>. QED
    BY <1>1, <1>2, <1>5, <2>4, <2>5
    DEF RunInv, Fresh, Unreplaced, Unchanged, Copying, BackupTaken, NoStamp
<1>. QED
  BY <1>4, <1>5

LEMMA CopyStep == ASSUME IInv, Shape', NEW r \in Runs, CopyBackup(r)
                  PROVE  \A q \in Runs : RunInv(q)'
<1>. SUFFICES ASSUME NEW q \in Runs PROVE RunInv(q)'
  OBVIOUS
<1>1. RunInv(q) /\ RunInv(r) /\ Shape
  BY DEF IInv
<1>2. /\ step[r] = "copy" /\ step'[r] = "temp"
      /\ backups' = [backups EXCEPT ![stamp[r]] = copied[r]]
      /\ UNCHANGED <<file, copied, stamp, replaced, raced>>
      /\ \A p \in Runs \ {r} : step'[p] = step[p]
  BY <1>1 DEF CopyBackup, Go, Shape, history
<1>3. Alone(q)' <=> Alone(q)
  BY <1>2 DEF Alone
<1>4. stamp[r] # NoStamp /\ stamp[r] \in DOMAIN backups
  BY <1>1, <1>2, McpAssumption DEF RunInv, Copying, Shape, NoStamp
<1>5. CASE q = r
  <2>1. backups'[stamp[r]] = copied[r]
    BY <1>2, <1>4
  <2>2. replaced[r] = Missing
    BY <1>1, <1>2 DEF RunInv, Unreplaced
  <2>. QED
    BY <1>1, <1>2, <1>5, <2>1, <2>2
    DEF RunInv, Fresh, Unreplaced, Unchanged, Copying, Copied, Kept, BackupTaken, NoStamp
<1>6. CASE q # r
  <2>1. stamp[q] = stamp[r] => ~Alone(q)
    BY <1>6 DEF Alone
  <2>2. stamp[q] # stamp[r] /\ stamp[q] # NoStamp => backups'[stamp[q]] = backups[stamp[q]]
    BY <1>1, <1>2 DEF Shape, NoStamp
  <2>3. Copied(q)' /\ Kept(q)'
    BY <1>1, <1>2, <1>3, <1>6, <2>1, <2>2 DEF RunInv, Copied, Kept, NoStamp
  <2>. QED
    BY <1>1, <1>2, <1>6, <2>3
    DEF RunInv, Fresh, Unreplaced, Unchanged, Copying, BackupTaken, NoStamp
<1>. QED
  BY <1>5, <1>6

LEMMA RenameStep == ASSUME IInv, Shape', NEW r \in Runs, Rename(r)
                    PROVE  \A q \in Runs : RunInv(q)'
<1>. SUFFICES ASSUME NEW q \in Runs PROVE RunInv(q)'
  OBVIOUS
<1>1. RunInv(q) /\ RunInv(r) /\ Shape
  BY DEF IInv
<1>2. /\ step[r] = "rename" /\ step'[r] = "done" /\ replaced'[r] = file
      /\ UNCHANGED <<backups, copied, stamp>>
      /\ raced' = raced \cup {p \in Runs \ {r} : BackupTaken(p)}
      /\ \A p \in Runs \ {r} : step'[p] = step[p] /\ replaced'[p] = replaced[p]
  BY <1>1 DEF Rename, Go, Shape
<1>3. Alone(q)' <=> Alone(q)
  BY <1>2 DEF Alone
<1>4. CASE q = r
  <2>1. r \notin raced => file = IF stamp[r] = NoStamp THEN Missing ELSE copied[r]
    BY <1>1, <1>2 DEF RunInv, Unchanged, BackupTaken
  <2>2. stamp[r] # NoStamp /\ Alone(r) => backups[stamp[r]] = copied[r]
    BY <1>1, <1>2 DEF RunInv, Copied
  <2>. QED
    BY <1>2, <1>3, <1>4, <2>1, <2>2
    DEF RunInv, Fresh, Unreplaced, Unchanged, Copying, Copied, Kept, BackupTaken, NoStamp
<1>5. CASE q # r
  BY <1>1, <1>2, <1>3, <1>5
  DEF RunInv, Fresh, Unreplaced, Unchanged, Copying, Copied, Kept, BackupTaken, NoStamp
<1>. QED
  BY <1>4, <1>5

LEMMA StepInv == ASSUME IInv, [Next]_vars PROVE IInv'
<1>1. Shape'
  BY ShapeStep DEF IInv
<1>2. ASSUME NEW r \in Runs, Invoke(r) PROVE \A q \in Runs : RunInv(q)'
  <2>0. Shape
    BY DEF IInv
  <2>1. CASE LoadConfig(r)
    <3>1. /\ step[r] = "start" /\ step'[r] \in {"refused", "done", "backup"}
          /\ \A q \in Runs \ {r} : step'[q] = step[q]
          /\ UNCHANGED <<file, backups, copied, stamp, replaced, raced>>
      BY <2>0, <2>1 DEF LoadConfig, Go, Shape, history
    <3>. QED
      BY <1>1, <3>1, QuietStep
  <2>2. CASE OpenBackup(r)
    BY <1>1, <2>2, OpenStep
  <2>3. CASE NothingToBackUp(r)
    <3>1. /\ step[r] = "backup" /\ step'[r] = "temp" /\ file = Missing
          /\ \A q \in Runs \ {r} : step'[q] = step[q]
          /\ UNCHANGED <<file, backups, copied, stamp, replaced, raced>>
      BY <2>0, <2>3 DEF NothingToBackUp, Go, Shape, history
    <3>. QED
      BY <1>1, <3>1, QuietStep
  <2>4. CASE CopyBackup(r)
    BY <1>1, <2>4, CopyStep
  <2>5. CASE CreateTemp(r) \/ WriteTemp(r)
    <3>1. /\ \/ step[r] = "temp" /\ step'[r] = "write"
             \/ step[r] = "write" /\ step'[r] = "rename"
          /\ \A q \in Runs \ {r} : step'[q] = step[q]
          /\ UNCHANGED <<file, backups, copied, stamp, replaced, raced>>
      BY <2>0, <2>5 DEF CreateTemp, WriteTemp, Go, Shape, history
    <3>. QED
      BY <1>1, <3>1, QuietStep
  <2>6. CASE Rename(r)
    BY <1>1, <2>6, RenameStep
  <2>7. CASE CallFails(r) \/ Killed(r)
    <3>1. /\ step[r] # "done" /\ step'[r] \in {"failed", "killed"}
          /\ \A q \in Runs \ {r} : step'[q] = step[q]
          /\ UNCHANGED <<file, backups, copied, stamp, replaced, raced>>
      BY <2>0, <2>7 DEF CallFails, Killed, Go, Shape, history
    <3>. QED
      BY <1>1, <3>1, QuietStep
  <2>. QED
    BY <1>2, <2>1, <2>2, <2>3, <2>4, <2>5, <2>6, <2>7 DEF Invoke
<1>3. CASE ClientEdits
  <2>1. SUFFICES ASSUME NEW q \in Runs PROVE RunInv(q)'
    BY <1>1 DEF IInv
  <2>2. RunInv(q)
    BY DEF IInv
  <2>3. /\ UNCHANGED <<step, backups, copied, stamp, replaced>>
        /\ raced' = raced \cup {r \in Runs : BackupTaken(r)}
    BY <1>3 DEF ClientEdits
  <2>4. Alone(q)' <=> Alone(q)
    BY <2>3 DEF Alone
  <2>. QED
    BY <2>2, <2>3, <2>4
    DEF RunInv, Fresh, Unreplaced, Unchanged, Copying, Copied, Kept, BackupTaken, NoStamp
<1>4. CASE Tick \/ UNCHANGED vars
  BY <1>1, <1>4
  DEF IInv, Tick, vars, history, RunInv, Fresh, Unreplaced, Unchanged, Copying, Copied, Kept,
      Alone, BackupTaken, NoStamp
<1>. QED
  BY <1>1, <1>2, <1>3, <1>4 DEF IInv, Next

(* ReplacedIsKept for any number of invocations at once: what an invocation *)
(* replaced is in its backup, unless another one took its backup in the     *)
(* same second or somebody wrote in between.                                *)
THEOREM BackupsKeepReplaced == Spec => []ReplacedIsKept
<1>1. IInv => ReplacedIsKept
  BY DEF IInv, RunInv, Kept, Alone, ReplacedIsKept
<1>. QED
  BY <1>1, InitInv, StepInv, PTL DEF Spec

-----------------------------------------------------------------------------
(* Siblings                                                                 *)

(* A document is a sequence of entries, whatever their fields hold.         *)
IsEntry(e) == e = [name |-> e.name, command |-> e.command, args |-> e.args, other |-> e.other]
IsDocument(d) == \E S : d \in Seq(S) /\ \A e \in S : IsEntry(e)

LEMMA EntryIs ==
  ASSUME NEW name, NEW command, NEW args, NEW other
  PROVE  IsEntry([name |-> name, command |-> command, args |-> args, other |-> other])
  BY DEF IsEntry

LEMMA EntryWith ==
  ASSUME NEW e, IsEntry(e), NEW command, NEW args
  PROVE  IsEntry([e EXCEPT !.command = command, !.args = args])
<1>1. PICK x : x = [name |-> e.name, command |-> command, args |-> e.args, other |-> e.other]
  OBVIOUS
<1>2. [e EXCEPT !.command = command] = x
  BY <1>1 DEF IsEntry
<1>3. [x EXCEPT !.args = args] =
        [name |-> e.name, command |-> command, args |-> args, other |-> e.other]
  BY <1>1
<1>4. [e EXCEPT !.command = command, !.args = args] =
        [[e EXCEPT !.command = command] EXCEPT !.args = args]
  OBVIOUS
<1>5. [e EXCEPT !.command = command, !.args = args] =
        [name |-> e.name, command |-> command, args |-> args, other |-> e.other]
  BY <1>2, <1>3, <1>4
<1>. QED BY <1>5, EntryIs

LEMMA EntryWithOther ==
  ASSUME NEW e, IsEntry(e), NEW other
  PROVE  IsEntry([e EXCEPT !.other = other])
<1>1. [e EXCEPT !.other = other] =
        [name |-> e.name, command |-> e.command, args |-> e.args, other |-> other]
  BY DEF IsEntry
<1>. QED BY <1>1, EntryIs

LEMMA HasLeast ==
  ASSUME NEW T, T \subseteq Nat, T # {}
  PROVE  \E m \in T : \A n \in T : m <= n
<1>1. PICK m \in T : \A n \in T : <<n, m>> \notin OpToRel(<, Nat)
  BY NatLessThanWellFounded, WFMin
<1>2. ASSUME NEW n \in T PROVE m <= n
  <2>1. m \in Nat /\ n \in Nat
    OBVIOUS
  <2>2. <<n, m>> \in Nat \X Nat
    BY <2>1
  <2>3. ~(n < m)
    BY <1>1, <2>2 DEF OpToRel
  <2>. QED BY <2>1, <2>3
<1>. QED BY <1>2

LEMMA FirstIsLeast ==
  ASSUME NEW d, IsDocument(d), NEW name, Found(d, name)
  PROVE  /\ First(d, name) \in DOMAIN d /\ d[First(d, name)].name = name
         /\ \A j \in DOMAIN d : j < First(d, name) => d[j].name # name
<1>1. PICK S : d \in Seq(S)
  BY DEF IsDocument
<1>2. Places(d, name) \subseteq Nat /\ DOMAIN d = 1 .. Len(d) /\ Len(d) \in Nat
  BY <1>1 DEF Places
<1>3. \E i \in Places(d, name) : \A j \in Places(d, name) : i <= j
  BY <1>2, HasLeast DEF Found
<1>4. First(d, name) \in Places(d, name) /\ \A j \in Places(d, name) : First(d, name) <= j
  BY <1>3 DEF First
<1>5. ASSUME NEW j \in DOMAIN d, j < First(d, name) PROVE d[j].name # name
  <2>1. j \in Nat /\ First(d, name) \in Nat
    BY <1>2, <1>4
  <2>. QED BY <1>4, <1>5, <2>1 DEF Places
<1>. QED BY <1>4, <1>5 DEF Places

(* What is written is a document, and differs from what was read at the     *)
(* first entry of that name at most, or by one entry at the end.            *)
LEMMA SetEntryWrites ==
  ASSUME NEW d, IsDocument(d), NEW name, NEW c
  PROVE  IsDocument(SetEntry(d, name, c)) /\ OnlyTarget(d, SetEntry(d, name, c), name)
<1>1. PICK S : d \in Seq(S) /\ \A e \in S : IsEntry(e)
  BY DEF IsDocument
<1>2. DOMAIN d = 1 .. Len(d) /\ Len(d) \in Nat /\ \A i \in 1 .. Len(d) : d[i] \in S
  BY <1>1
<1>3. CASE Found(d, name)
  <2> DEFINE f == First(d, name)
             new == [d[f] EXCEPT !.command = c.command, !.args = c.args]
             e == SetEntry(d, name, c)
  <2>1. f \in 1 .. Len(d) /\ d[f].name = name /\ \A j \in 1 .. Len(d) : j < f => d[j].name # name
    BY <1>2, <1>3, FirstIsLeast
  <2>2. IsEntry(d[f])
    BY <1>1, <1>2, <2>1
  <2>3. IsEntry(new) /\ new.command = c.command /\ new.args = c.args
    <3>1. IsEntry(new)
      BY <2>2, EntryWith, Zenon
    <3>2. new.command = c.command
      BY <2>2 DEF IsEntry
    <3>3. new.args = c.args
      BY <2>2 DEF IsEntry
    <3>. QED BY <3>1, <3>2, <3>3
  <2>4. e = [d EXCEPT ![f] = new]
    BY <1>3 DEF SetEntry
  <2>5. e \in Seq(S \cup {new}) /\ Len(e) = Len(d)
    BY <1>1, <1>2, <2>1, <2>4
  <2>6. IsDocument(e)
    BY <1>1, <2>3, <2>5 DEF IsDocument
  <2>7. ASSUME NEW i \in DOMAIN d, e[i] # d[i]
        PROVE  /\ e[i] = [d[i] EXCEPT !.command = e[i].command, !.args = e[i].args]
               /\ d[i].name = name /\ \A j \in 1 .. i - 1 : d[j].name # name
    <3>1. i = f /\ e[i] = new
      BY <1>2, <2>1, <2>4, <2>7
    <3>2. e[i].command = c.command /\ e[i].args = c.args
      BY <2>3, <3>1
    <3>3. \A j \in 1 .. i - 1 : d[j].name # name
      BY <1>2, <2>1, <3>1
    <3>. QED BY <2>1, <3>1, <3>2, <3>3
  <2>. QED BY <2>5, <2>6, <2>7 DEF OnlyTarget
<1>4. CASE ~Found(d, name)
  <2> DEFINE new == [name |-> name, command |-> c.command, args |-> c.args, other |-> 0]
             e == SetEntry(d, name, c)
  <2>1. e = Append(d, new) /\ IsEntry(new)
    BY <1>4 DEF SetEntry, IsEntry
  <2>2. /\ e \in Seq(S \cup {new}) /\ Len(e) = Len(d) + 1 /\ e[Len(d) + 1] = new
        /\ \A i \in DOMAIN d : e[i] = d[i]
    BY <1>1, <1>2, <2>1
  <2>3. Last(e).name = name
    BY <2>2 DEF Last
  <2>4. IsDocument(e)
    BY <1>1, <2>1, <2>2 DEF IsDocument
  <2>. QED BY <2>2, <2>3, <2>4 DEF OnlyTarget
<1>. QED BY <1>3, <1>4

(* The client changes one entry: its command to one of its owner's, or what *)
(* is neither name, command nor arguments.                                  *)
LEMMA EditsOneEntry ==
  ASSUME NEW d, IsDocument(d), NEW e \in Edited(d)
  PROVE  \E i \in DOMAIN d : \E new :
           /\ e = [d EXCEPT ![i] = new] /\ IsEntry(new) /\ new.name = d[i].name
           /\ \/ new.command = d[i].command /\ new.args = d[i].args
              \/ \E c \in Mine[d[i].name] : new.command = c.command /\ new.args = c.args
<1>1. \A i \in DOMAIN d : IsEntry(d[i])
  BY DEF IsDocument
<1>2. CASE \E i \in DOMAIN d : e = [d EXCEPT ![i].other = @ + 1]
  <2>1. PICK i \in DOMAIN d : e = [d EXCEPT ![i] = [d[i] EXCEPT !.other = @ + 1]]
    BY <1>2
  <2>2. PICK new : new = [d[i] EXCEPT !.other = @ + 1]
    OBVIOUS
  <2>3. /\ IsEntry(new) /\ new.name = d[i].name
        /\ new.command = d[i].command /\ new.args = d[i].args
    <3>1. IsEntry(d[i])
      BY <1>1
    <3>2. IsEntry(new)
      BY <2>2, <3>1, EntryWithOther, Zenon
    <3>3. new.name = d[i].name /\ new.command = d[i].command /\ new.args = d[i].args
      BY <2>2, <3>1 DEF IsEntry
    <3>. QED BY <3>2, <3>3
  <2>. QED BY <2>1, <2>2, <2>3
<1>3. CASE \E i \in DOMAIN d : \E c \in Mine[d[i].name] :
             e = [d EXCEPT ![i].command = c.command, ![i].args = c.args]
  <2>1. PICK i \in DOMAIN d : \E c \in Mine[d[i].name] :
          e = [d EXCEPT ![i] = [d[i] EXCEPT !.command = c.command, !.args = c.args]]
    BY <1>3
  <2>2. PICK c \in Mine[d[i].name] :
          e = [d EXCEPT ![i] = [d[i] EXCEPT !.command = c.command, !.args = c.args]]
    BY <2>1
  <2>3. PICK new : new = [d[i] EXCEPT !.command = c.command, !.args = c.args]
    OBVIOUS
  <2>4. /\ IsEntry(new) /\ new.name = d[i].name
        /\ new.command = c.command /\ new.args = c.args
    <3>1. IsEntry(d[i])
      BY <1>1
    <3>2. IsEntry(new)
      BY <2>3, <3>1, EntryWith, Zenon
    <3>3. new.name = d[i].name
      BY <2>3, <3>1 DEF IsEntry
    <3>4. new.command = c.command
      BY <2>3, <3>1 DEF IsEntry
    <3>5. new.args = c.args
      BY <2>3, <3>1 DEF IsEntry
    <3>. QED BY <3>2, <3>3, <3>4, <3>5
  <2>. QED BY <2>2, <2>3, <2>4
<1>4. \/ e \in {[d EXCEPT ![i].other = @ + 1] : i \in DOMAIN d}
      \/ \E i \in DOMAIN d :
           e \in {[d EXCEPT ![i].command = c.command, ![i].args = c.args] : c \in Mine[d[i].name]}
  BY ZenonT(30) DEF Edited
<1>5. \/ \E i \in DOMAIN d : e = [d EXCEPT ![i].other = @ + 1]
      \/ \E i \in DOMAIN d : \E c \in Mine[d[i].name] :
           e = [d EXCEPT ![i].command = c.command, ![i].args = c.args]
  BY <1>4, Zenon
<1>. QED BY <1>2, <1>3, <1>5

LEMMA EditedIsDocument ==
  ASSUME NEW d, IsDocument(d), NEW e \in Edited(d)
  PROVE  IsDocument(e)
<1>1. PICK S : d \in Seq(S) /\ \A x \in S : IsEntry(x)
  BY DEF IsDocument
<1>2. PICK i \in DOMAIN d : \E new : e = [d EXCEPT ![i] = new] /\ IsEntry(new)
  BY EditsOneEntry
<1>3. PICK new : e = [d EXCEPT ![i] = new] /\ IsEntry(new)
  BY <1>2
<1>4. e \in Seq(S \cup {new})
  BY <1>1, <1>2, <1>3
<1>. QED BY <1>1, <1>3, <1>4 DEF IsDocument

(* Everything read is a document, and what a run is about to rename is what *)
(* it made of the one it read.                                              *)
DocumentsHold ==
  /\ DOMAIN step = Runs /\ DOMAIN temp = Runs /\ DOMAIN loaded = Runs
  /\ IsDocument(file.entries)
  /\ \A r \in Runs : IsDocument(loaded[r])
  /\ \A r \in Runs : step[r] = "rename" => temp[r] = Whole(Written(request[r], loaded[r]))

LEMMA DocumentsInit == Init => DocumentsHold
<1>. SUFFICES ASSUME Init PROVE DocumentsHold
  OBVIOUS
<1>1. IsDocument(<<>>)
  <2>1. PICK S : S = {}
    OBVIOUS
  <2>2. <<>> \in Seq(S) /\ \A e \in S : IsEntry(e)
    BY <2>1
  <2>. QED BY <2>2 DEF IsDocument
<1>2. IsDocument(file.entries)
  <2> DEFINE S == [name : DOMAIN Mine, command : STRING, args : Seq(STRING), other : Nat]
  <2>1. file.entries \in Seq(S)
    BY McpAssumption DEF Init
  <2>2. \A e \in S : IsEntry(e)
    BY DEF IsEntry
  <2>. QED BY <2>1, <2>2 DEF IsDocument
<1>. QED BY <1>1, <1>2 DEF Init, DocumentsHold

LEMMA RenameWrites ==
  ASSUME DocumentsHold, NEW r \in Runs, Rename(r)
  PROVE  /\ file'.entries = Written(request[r], loaded[r])
         /\ IsDocument(file'.entries)
         /\ OnlyTarget(loaded[r], file'.entries, request[r].name)
<1>1. file' = Whole(Written(request[r], loaded[r])) /\ IsDocument(loaded[r])
  BY DEF DocumentsHold, Rename
<1>2. file'.entries = Written(request[r], loaded[r])
  BY <1>1 DEF Whole
<1>. QED BY <1>1, <1>2, SetEntryWrites DEF Written

LEMMA DocumentsStep == DocumentsHold /\ [Next]_vars => DocumentsHold'
<1>. SUFFICES ASSUME DocumentsHold, [Next]_vars PROVE DocumentsHold'
  OBVIOUS
<1>1. ASSUME NEW r \in Runs, Invoke(r) PROVE DocumentsHold'
  <2>. USE DEF DocumentsHold, Go
  <2>1. CASE LoadConfig(r)
    BY <2>1 DEF LoadConfig
  <2>2. CASE OpenBackup(r) \/ NothingToBackUp(r) \/ CopyBackup(r)
    BY <2>2 DEF OpenBackup, NothingToBackUp, CopyBackup
  <2>3. CASE CreateTemp(r)
    BY <2>3 DEF CreateTemp
  <2>4. CASE WriteTemp(r)
    BY <2>4 DEF WriteTemp
  <2>5. CASE Rename(r)
    <3>1. IsDocument(file'.entries)
      BY <2>5, RenameWrites
    <3>. QED BY <2>5, <3>1 DEF Rename
  <2>6. CASE CallFails(r)
    BY <2>6 DEF CallFails
  <2>7. CASE Killed(r)
    BY <2>7 DEF Killed
  <2>. QED BY <1>1, <2>1, <2>2, <2>3, <2>4, <2>5, <2>6, <2>7 DEF Invoke
<1>2. CASE ClientEdits
  <2>1. PICK d \in Edited(file.entries) : file' = Whole(d)
    BY <1>2 DEF ClientEdits
  <2>2. IsDocument(d)
    BY <2>1, EditedIsDocument DEF DocumentsHold
  <2>3. IsDocument(file'.entries)
    BY <2>1, <2>2 DEF Whole
  <2>. QED BY <1>2, <2>3 DEF ClientEdits, DocumentsHold
<1>3. CASE Tick \/ UNCHANGED vars
  BY <1>3 DEF Tick, vars, DocumentsHold
<1>. QED BY <1>1, <1>2, <1>3 DEF Next

(* SiblingsKept for any config and any number of invocations and edits: a   *)
(* rename into a config that did not change since it was read changes the   *)
(* command and arguments of the first entry of that name, or adds one entry.*)
THEOREM InstallEditsOneEntry == Spec => SiblingsKept
<1>1. ASSUME DocumentsHold, [Next]_vars
      PROVE  [\A r \in Runs :
                step[r] = "rename" /\ step'[r] = "done" /\ file.entries = loaded[r]
                  => OnlyTarget(file.entries, file'.entries, request[r].name)]_vars
  <2>1. ASSUME NEW r \in Runs, step[r] = "rename", step'[r] = "done"
        PROVE  Rename(r)
    <3>1. PICK q \in Runs : Invoke(q)
      BY <1>1, <2>1 DEF Next, ClientEdits, Tick, vars
    <3>2. q = r
      BY <1>1, <2>1, <3>1
      DEF Invoke, LoadConfig, OpenBackup, NothingToBackUp, CopyBackup, CreateTemp, WriteTemp,
          Rename, CallFails, Killed, Go, DocumentsHold
    <3>. QED
      BY <1>1, <2>1, <3>1, <3>2
      DEF Invoke, LoadConfig, OpenBackup, NothingToBackUp, CopyBackup, CreateTemp, WriteTemp,
          CallFails, Killed, Go, DocumentsHold
  <2>2. ASSUME NEW r \in Runs, step[r] = "rename", step'[r] = "done", file.entries = loaded[r]
        PROVE  OnlyTarget(file.entries, file'.entries, request[r].name)
    <3>1. Rename(r)
      BY <2>1, <2>2
    <3>. QED BY <1>1, <2>2, <3>1, RenameWrites
  <2>. QED BY <2>2
<1>. QED BY <1>1, DocumentsInit, DocumentsStep, PTL DEF Spec, SiblingsKept

-----------------------------------------------------------------------------
(* What an entry runs                                                       *)

(* Every entry, of the config and of what the runs have read, is its owner's*)
(* or wraps one of its owner's, and a run that goes on was not refused.     *)
EntriesKnown(d) == \A i \in DOMAIN d : d[i].name \in DOMAIN Mine /\ Known(d[i])
OwnersHold ==
  /\ request \in [Runs -> Requests]
  /\ file # Torn /\ EntriesKnown(file.entries)
  /\ \A r \in Runs : EntriesKnown(loaded[r])
  /\ \A r \in Runs : step[r] \in {"backup", "copy", "temp", "write", "rename"} =>
       ~Refused(request[r], Whole(loaded[r]))

(* Every string, those of mcp_install.rs named for the provers.             *)
Words == STRING \cup {"mcp", "wrap", "--", "--profile"}

LEMMA WordsHold ==
  /\ "mcp" \in Words /\ "wrap" \in Words /\ "--" \in Words /\ "--profile" \in Words
  /\ \A w \in STRING : w \in Words
  /\ \A s \in Seq(STRING) : s \in Seq(Words)
BY DEF Words

LEMMA TwoWords ==
  ASSUME NEW v \in Words, NEW w \in Words
  PROVE  <<v, w>> \in Seq(Words) /\ Len(<<v, w>>) = 2 /\ <<v, w>>[1] = v /\ <<v, w>>[2] = w
OBVIOUS

LEMMA Joined ==
  ASSUME NEW s \in Seq(Words), NEW t \in Seq(Words), NEW r, r = s \o t
  PROVE  /\ r \in Seq(Words) /\ Len(r) = Len(s) + Len(t)
         /\ \A i \in 1 .. Len(s) : r[i] = s[i]
         /\ \A j \in 1 .. Len(t) : r[Len(s) + j] = t[j]
OBVIOUS

LEMMA JoinedTwice ==
  ASSUME NEW g \in Seq(Words), NEW s \in Seq(Words), NEW t \in Seq(Words),
         NEW gs, gs = g \o s, NEW a, a = gs \o t
  PROVE  /\ a \in Seq(Words) /\ Len(a) = Len(g) + Len(s) + Len(t)
         /\ \A i \in 1 .. Len(g) : a[i] = g[i]
         /\ \A j \in 1 .. Len(s) : a[Len(g) + j] = s[j]
         /\ \A j \in 1 .. Len(t) : a[Len(g) + Len(s) + j] = t[j]
<1>1. /\ gs \in Seq(Words) /\ Len(gs) = Len(g) + Len(s)
      /\ \A i \in 1 .. Len(g) : gs[i] = g[i]
      /\ \A j \in 1 .. Len(s) : gs[Len(g) + j] = s[j]
  BY Joined
<1>2. /\ a \in Seq(Words) /\ Len(a) = Len(gs) + Len(t)
      /\ \A i \in 1 .. Len(gs) : a[i] = gs[i]
      /\ \A j \in 1 .. Len(t) : a[Len(gs) + j] = t[j]
  <2>1. gs \in Seq(Words)
    BY <1>1
  <2>2. QED  BY <2>1, Joined
<1>3. Len(g) \in Nat /\ Len(s) \in Nat /\ Len(t) \in Nat
  BY LenProperties
<1>4. \A j \in 1 .. Len(s) : a[Len(g) + j] = s[j]
  BY <1>1, <1>2, <1>3
<1>5. QED  BY <1>1, <1>2, <1>3, <1>4

(* The arguments of a wrapped command: up to the first separator, and after.*)
LEMMA BuiltArgs ==
  ASSUME NEW p \in Profiles \cup {NoProfile}, NEW c \in [command : STRING, args : Seq(STRING)]
  PROVE  LET a == BuildWrapped(p, c).args
             k == IF p = NoProfile THEN 2 ELSE 4
         IN /\ a \in Seq(Words) /\ Len(a) = k + 2 + Len(c.args)
            /\ a[1] = "mcp" /\ a[2] = "wrap" /\ \A i \in 1 .. k : a[i] # "--"
            /\ a[k + 1] = "--" /\ a[k + 2] = c.command
            /\ \A j \in 1 .. Len(c.args) : a[k + 2 + j] = c.args[j]
<1>1. PICK h : h = <<"mcp", "wrap">>
  OBVIOUS
<1>2. PICK s : s = <<"--", c.command>>
  OBVIOUS
<1>3. PICK t : t = c.args
  OBVIOUS
<1>4. h \in Seq(Words) /\ s \in Seq(Words) /\ t \in Seq(Words)
  BY <1>1, <1>2, <1>3, WordsHold, TwoWords
<1>5. /\ Len(h) = 2 /\ h[1] = "mcp" /\ h[2] = "wrap"
      /\ Len(s) = 2 /\ s[1] = "--" /\ s[2] = c.command
  BY <1>1, <1>2, WordsHold, TwoWords
<1>6. CASE p = NoProfile
  <2>1. BuildWrapped(p, c).args = (h \o <<>>) \o s \o t
    BY <1>1, <1>2, <1>3, <1>6 DEF BuildWrapped
  <2>2. h \o <<>> = h
    BY <1>4, ConcatEmptySeq
  <2>3. PICK hs : hs = h \o s
    OBVIOUS
  <2>4. PICK a : a = BuildWrapped(p, c).args
    OBVIOUS
  <2>5. a = hs \o t
    BY <2>1, <2>2, <2>3, <2>4
  <2>6. /\ a \in Seq(Words) /\ Len(a) = Len(h) + Len(s) + Len(t)
        /\ \A i \in 1 .. Len(h) : a[i] = h[i]
        /\ \A j \in 1 .. Len(s) : a[Len(h) + j] = s[j]
        /\ \A j \in 1 .. Len(t) : a[Len(h) + Len(s) + j] = t[j]
    BY <1>4, <2>3, <2>5, JoinedTwice
  <2>7. /\ a \in Seq(Words) /\ Len(a) = 2 + 2 + Len(t)
        /\ a[1] = "mcp" /\ a[2] = "wrap" /\ \A i \in 1 .. 2 : a[i] # "--"
        /\ a[2 + 1] = "--" /\ a[2 + 2] = c.command
        /\ \A j \in 1 .. Len(t) : a[2 + 2 + j] = t[j]
    BY <1>5, <2>6
  <2>8. QED  BY <1>3, <1>6, <2>4, <2>7
<1>7. CASE p # NoProfile
  <2>1. p # "--" /\ p \in Words
    BY <1>7, McpAssumption, WordsHold
  <2>2. PICK m : m = <<"--profile", p>>
    OBVIOUS
  <2>3. m \in Seq(Words) /\ Len(m) = 2 /\ m[1] = "--profile" /\ m[2] = p
    BY <2>1, <2>2, WordsHold, TwoWords
  <2>4. PICK hm : hm = h \o m
    OBVIOUS
  <2>5. /\ hm \in Seq(Words) /\ Len(hm) = Len(h) + Len(m)
        /\ \A i \in 1 .. Len(h) : hm[i] = h[i]
        /\ \A j \in 1 .. Len(m) : hm[Len(h) + j] = m[j]
    <3>1. m \in Seq(Words)
      BY <2>3
    <3>2. QED  BY <1>4, <2>4, <3>1, Joined
  <2>6. /\ Len(hm) = 4 /\ hm[1] = "mcp" /\ hm[2] = "wrap" /\ hm[3] = "--profile" /\ hm[4] = p
    <3>1. 1 \in 1 .. Len(m) /\ 2 \in 1 .. Len(m) /\ 1 \in 1 .. Len(h) /\ 2 \in 1 .. Len(h)
      BY <1>5, <2>3
    <3>2. hm[2 + 1] = "--profile" /\ hm[2 + 2] = p
      BY <1>5, <2>3, <2>5, <3>1
    <3>3. QED  BY <1>5, <2>3, <2>5, <3>1, <3>2
  <2>7. PICK hs : hs = hm \o s
    OBVIOUS
  <2>8. PICK a : a = BuildWrapped(p, c).args
    OBVIOUS
  <2>9. a = hs \o t
    BY <1>1, <1>2, <1>3, <1>7, <2>2, <2>4, <2>7, <2>8 DEF BuildWrapped
  <2>10. hm \in Seq(Words)
    BY <2>5
  <2>11. /\ a \in Seq(Words) /\ Len(a) = Len(hm) + Len(s) + Len(t)
         /\ \A i \in 1 .. Len(hm) : a[i] = hm[i]
         /\ \A j \in 1 .. Len(s) : a[Len(hm) + j] = s[j]
         /\ \A j \in 1 .. Len(t) : a[Len(hm) + Len(s) + j] = t[j]
    BY <1>4, <2>7, <2>9, <2>10, JoinedTwice
  <2>12. /\ a \in Seq(Words) /\ Len(a) = 4 + 2 + Len(t)
         /\ a[1] = "mcp" /\ a[2] = "wrap" /\ \A i \in 1 .. 4 : a[i] # "--"
         /\ a[4 + 1] = "--" /\ a[4 + 2] = c.command
         /\ \A j \in 1 .. Len(t) : a[4 + 2 + j] = t[j]
    BY <1>5, <2>1, <2>6, <2>11
  <2>13. QED  BY <1>3, <1>7, <2>8, <2>12
<1>8. QED  BY <1>6, <1>7

LEMMA BuiltUnwraps ==
  ASSUME NEW p \in Profiles \cup {NoProfile}, NEW c \in [command : STRING, args : Seq(STRING)]
  PROVE  /\ IsPrefix(<<"mcp", "wrap">>, BuildWrapped(p, c).args)
         /\ UnwrapInner(BuildWrapped(p, c).args) = c
<1> DEFINE a == BuildWrapped(p, c).args
           k == IF p = NoProfile THEN 2 ELSE 4
<1>1. /\ a \in Seq(Words) /\ Len(a) = k + 2 + Len(c.args)
      /\ a[1] = "mcp" /\ a[2] = "wrap" /\ \A i \in 1 .. k : a[i] # "--"
      /\ a[k + 1] = "--" /\ a[k + 2] = c.command
      /\ \A j \in 1 .. Len(c.args) : a[k + 2 + j] = c.args[j]
  BY BuiltArgs
<1>2. k \in {2, 4} /\ c.args \in Seq(Words) /\ Len(c.args) \in Nat /\ DOMAIN a = 1 .. Len(a)
  <2>1. k \in {2, 4}
    OBVIOUS
  <2>2. c.args \in Seq(Words)
    BY WordsHold
  <2> HIDE DEF a, k
  <2>3. QED  BY <1>1, <2>1, <2>2, LenProperties
<1> HIDE DEF a, k
<1>3. IsPrefix(<<"mcp", "wrap">>, a)
  <2> DEFINE h == <<"mcp", "wrap">>
  <2>1. h \in Seq(Words) /\ Len(h) = 2 /\ h[1] = "mcp" /\ h[2] = "wrap"
    BY WordsHold, TwoWords
  <2> HIDE DEF h
  <2>2. \A i \in 1 .. 2 : a[i] \in Words
    BY <1>1, <1>2
  <2>3. /\ SubSeq(a, 1, 2) \in Seq(Words) /\ Len(SubSeq(a, 1, 2)) = 2
        /\ \A i \in 1 .. 2 : SubSeq(a, 1, 2)[i] = a[i]
    <3>1. 1 \in Int /\ 2 \in Int /\ \A i \in 1 .. 2 : a[i] \in Words
      BY <2>2
    <3>2. /\ SubSeq(a, 1, 2) \in Seq(Words)
          /\ Len(SubSeq(a, 1, 2)) = IF 1 <= 2 THEN 2 - 1 + 1 ELSE 0
          /\ \A i \in 1 .. 2 - 1 + 1 : SubSeq(a, 1, 2)[i] = a[1 + i - 1]
      BY <3>1, SubSeqProperties
    <3>3. QED  BY <3>2
  <2>4. SubSeq(h, 1, 2) = h
    BY <2>1, SubSeqFull
  <2>5. SubSeq(a, 1, 2) = h
    <3>1. \A i \in 1 .. 2 : SubSeq(a, 1, 2)[i] = h[i]
      BY <1>1, <2>1, <2>3
    <3>2. QED  BY <2>1, <2>3, <3>1, SeqEqual
  <2>6. Len(h) <= Len(a)
    BY <1>1, <1>2, <2>1
  <2>7. IsPrefix(h, a)
    BY <2>1, <2>4, <2>5, <2>6 DEF IsPrefix
  <2>8. QED  BY <2>7 DEF h
<1>4. FirstSeparator(a) = k + 1
  <2>1. k + 1 \in Separators(a)
    BY <1>1, <1>2 DEF Separators
  <2>2. \A j \in Separators(a) : j \in Nat /\ k + 1 <= j
    BY <1>1, <1>2 DEF Separators
  <2>3. /\ FirstSeparator(a) \in Separators(a)
        /\ \A j \in Separators(a) : FirstSeparator(a) <= j
    BY <2>1, <2>2 DEF FirstSeparator
  <2>4. FirstSeparator(a) <= k + 1 /\ k + 1 <= FirstSeparator(a) /\ FirstSeparator(a) \in Nat
    BY <2>1, <2>2, <2>3
  <2>5. QED  BY <1>2, <2>4
<1>5. SubSeq(a, k + 3, Len(a)) = c.args
  <2> DEFINE t == SubSeq(a, k + 3, Len(a))
  <2>1. k + 3 \in Int /\ Len(a) \in Int /\ \A i \in k + 3 .. Len(a) : a[i] \in Words
    BY <1>1, <1>2
  <2>2. /\ t \in Seq(Words)
        /\ Len(t) = IF k + 3 <= Len(a) THEN Len(a) - (k + 3) + 1 ELSE 0
        /\ \A i \in 1 .. Len(a) - (k + 3) + 1 : t[i] = a[k + 3 + i - 1]
    BY <2>1, SubSeqProperties
  <2> HIDE DEF t
  <2>3. Len(t) = Len(c.args)
    BY <1>1, <1>2, <2>2
  <2>4. \A i \in 1 .. Len(c.args) : t[i] = c.args[i]
    <3> SUFFICES ASSUME NEW i \in 1 .. Len(c.args)  PROVE t[i] = c.args[i]
      OBVIOUS
    <3>1. i \in 1 .. Len(a) - (k + 3) + 1 /\ k + 3 + i - 1 = k + 2 + i
      BY <1>1, <1>2
    <3>2. t[i] = a[k + 2 + i]
      BY <2>2, <3>1
    <3>3. QED  BY <1>1, <3>2
  <2>5. t = c.args
    BY <1>2, <2>2, <2>3, <2>4, SeqEqual
  <2>6. QED  BY <2>5 DEF t
<1>6. UnwrapInner(a) = [command |-> c.command, args |-> c.args]
  <2>1. (k + 1) + 1 = k + 2 /\ (k + 1) + 2 = k + 3
    BY <1>2
  <2>2. QED  BY <1>1, <1>4, <1>5, <2>1 DEF UnwrapInner, After
<1>7. c = [command |-> c.command, args |-> c.args]
  OBVIOUS
<1>8. QED  BY <1>3, <1>6, <1>7 DEF a

(* An entry is known by its name, its command and its arguments.            *)
LEMMA KnownSame ==
  ASSUME NEW e, NEW f, f.name = e.name, f.command = e.command, f.args = e.args, Known(e)
  PROVE  Known(f)
BY DEF Known, Wraps, Command

(* What an entry that is known and wrapped runs is a command of its owner,  *)
(* and an entry that is not wrapped holds one.                              *)
LEMMA KnownUnwraps ==
  ASSUME NEW e, e.name \in DOMAIN Mine, Known(e), e.command # NoCommand
  PROVE  IF IsWrapped(Command(e))
         THEN CanUnwrap(e.args) => UnwrapInner(e.args) \in Mine[e.name]
         ELSE Command(e) \in Mine[e.name]
<1>1. Command(e).command = e.command /\ Command(e).args = e.args
  BY DEF Command
<1>2. Command(e) # Nobody
  BY <1>1 DEF Nobody
<1>3. CASE Command(e) \in Mine[e.name]
  <2>1. IsWrapped(Command(e)) /\ CanUnwrap(e.args) => UnwrapInner(e.args) \in Mine[e.name]
    BY <1>1, <1>3, ConfigAssumption
  <2>2. QED  BY <1>3, <2>1
<1>4. CASE \E c \in Mine[e.name] : Wraps(e, c)
  <2>1. PICK c \in Mine[e.name] : Wraps(e, c)
    BY <1>4
  <2>2. e.command \in ClawcratePaths
    BY <2>1 DEF Wraps
  <2>3. PICK p \in Profiles \cup {NoProfile} : e.args = BuildWrapped(p, c).args
    BY <2>1 DEF Wraps
  <2>4. c \in [command : STRING, args : Seq(STRING)]
    BY McpAssumption
  <2>5. IsPrefix(<<"mcp", "wrap">>, e.args) /\ UnwrapInner(e.args) = c
    BY <2>3, <2>4, BuiltUnwraps
  <2>6. IsWrapped(Command(e))
    BY <1>1, <2>2, <2>5 DEF IsWrapped, CommandIsClawcrate
  <2>7. QED  BY <2>5, <2>6
<1>5. QED  BY <1>2, <1>3, <1>4 DEF Known

LEMMA FoundIsKnown ==
  ASSUME NEW d, IsDocument(d), EntriesKnown(d), NEW name, Found(d, name)
  PROVE  /\ FindEntry(d, name).name = name /\ name \in DOMAIN Mine
         /\ Known(FindEntry(d, name))
<1>1. First(d, name) \in DOMAIN d /\ d[First(d, name)].name = name
  BY FirstIsLeast
<1>2. QED  BY <1>1 DEF EntriesKnown, FindEntry

LEMMA AfterIsKnown ==
  ASSUME NEW d, IsDocument(d), EntriesKnown(d), NEW q \in Requests, ~Refused(q, Whole(d)),
         NEW e, e.name = q.name, e.command = AfterOf(q, d).command, e.args = AfterOf(q, d).args
  PROVE  Known(e)
<1> DEFINE found == FindEntry(d, q.name)
<1>1. /\ q.name \in DOMAIN Mine /\ q.profile \in Profiles \cup {NoProfile}
      /\ q.command \in Mine[q.name] \cup {Nobody} /\ q.op \in {"install", "uninstall"}
  BY McpAssumption
<1>2. /\ Found(d, q.name) => found.command # NoCommand
      /\ q.op = "install" => ~InstallRefused(q, d)
      /\ q.op = "uninstall" => ~UninstallRefused(q, d)
  BY DEF Refused, Whole, Readable
<1>3. Found(d, q.name) => found.name = q.name /\ Known(found)
  BY FoundIsKnown
<1> HIDE DEF found
<1>4. CASE q.op = "install"
  <2>1. InnerOf(q, d) \in Mine[q.name]
    <3>1. CASE q.command # Nobody
      BY <1>1, <3>1 DEF InnerOf
    <3>2. CASE q.command = Nobody
      <4>1. Found(d, q.name) /\ ~IsWrapped(Command(found))
        BY <1>2, <1>4, <3>2 DEF InstallRefused, found
      <4>2. found.name = q.name /\ Known(found) /\ found.command # NoCommand
        BY <1>2, <1>3, <4>1
      <4>3. Command(found) \in Mine[q.name]
        BY <1>1, <4>1, <4>2, KnownUnwraps
      <4>4. QED  BY <3>2, <4>3 DEF InnerOf, found
    <3>3. QED  BY <3>1, <3>2
  <2>2. AfterOf(q, d) = BuildWrapped(q.profile, InnerOf(q, d))
    BY <1>4 DEF AfterOf
  <2>3. BuildWrapped(q.profile, InnerOf(q, d)).command = "clawcrate"
    BY DEF BuildWrapped
  <2>4. Wraps(e, InnerOf(q, d))
    BY <1>1, <2>2, <2>3, McpAssumption DEF Wraps
  <2>5. QED  BY <2>1, <2>4 DEF Known
<1>5. CASE q.op = "uninstall"
  <2>1. Found(d, q.name) /\ IsWrapped(Command(found)) /\ CanUnwrap(found.args)
    BY <1>2, <1>5 DEF UninstallRefused, found
  <2>2. found.name = q.name /\ Known(found) /\ found.command # NoCommand
    BY <1>2, <1>3, <2>1
  <2>3. UnwrapInner(found.args) \in Mine[q.name]
    BY <1>1, <2>1, <2>2, KnownUnwraps
  <2>4. AfterOf(q, d) = UnwrapInner(found.args)
    BY <1>5 DEF AfterOf, found
  <2>5. AfterOf(q, d) = [command |-> AfterOf(q, d).command, args |-> AfterOf(q, d).args]
    BY <2>4 DEF UnwrapInner, After
  <2>6. Command(e) = AfterOf(q, d)
    BY <2>5 DEF Command
  <2>7. QED  BY <2>3, <2>4, <2>6 DEF Known
<1>6. QED  BY <1>1, <1>4, <1>5

LEMMA WrittenIsKnown ==
  ASSUME NEW d, IsDocument(d), EntriesKnown(d), NEW q \in Requests, ~Refused(q, Whole(d))
  PROVE  EntriesKnown(Written(q, d))
<1>1. PICK S : d \in Seq(S) /\ \A e \in S : IsEntry(e)
  BY DEF IsDocument
<1>2. DOMAIN d = 1 .. Len(d) /\ Len(d) \in Nat /\ \A i \in 1 .. Len(d) : d[i] \in S
  BY <1>1
<1>3. PICK c : c = AfterOf(q, d)
  OBVIOUS
<1>4. PICK w : w = SetEntry(d, q.name, c)
  OBVIOUS
<1>5. q.name \in DOMAIN Mine
  BY McpAssumption
<1>6. CASE Found(d, q.name)
  <2>1. PICK f : f = First(d, q.name)
    OBVIOUS
  <2>2. f \in 1 .. Len(d) /\ d[f].name = q.name
    BY <1>2, <1>6, <2>1, FirstIsLeast
  <2>3. PICK new : new = [d[f] EXCEPT !.command = c.command, !.args = c.args]
    OBVIOUS
  <2>4. IsEntry(d[f])
    BY <1>1, <1>2, <2>2
  <2>5. new.name = q.name /\ new.command = c.command /\ new.args = c.args
    <3>1. new.name = q.name
      BY <2>2, <2>3, <2>4 DEF IsEntry
    <3>2. new.command = c.command
      BY <2>3, <2>4 DEF IsEntry
    <3>3. new.args = c.args
      BY <2>3, <2>4 DEF IsEntry
    <3>4. QED  BY <3>1, <3>2, <3>3
  <2>6. w = [d EXCEPT ![f] = new]
    BY <1>4, <1>6, <2>1, <2>3 DEF SetEntry
  <2>7. Known(new)
    BY <1>3, <2>5, AfterIsKnown
  <2>8. \A i \in DOMAIN w : i \in DOMAIN d /\ w[i] = IF i = f THEN new ELSE d[i]
    BY <1>1, <1>2, <2>2, <2>6
  <2>9. \A i \in DOMAIN w : w[i].name \in DOMAIN Mine /\ Known(w[i])
    BY <1>5, <2>5, <2>7, <2>8 DEF EntriesKnown
  <2>10. QED  BY <1>3, <1>4, <2>9 DEF EntriesKnown, Written
<1>7. CASE ~Found(d, q.name)
  <2>1. PICK new : new = [name |-> q.name, command |-> c.command, args |-> c.args, other |-> 0]
    OBVIOUS
  <2>2. new.name = q.name /\ new.command = c.command /\ new.args = c.args
    BY <2>1
  <2>3. w = Append(d, new)
    BY <1>4, <1>7, <2>1 DEF SetEntry
  <2>4. Known(new)
    BY <1>3, <2>2, AfterIsKnown
  <2>5. \A i \in DOMAIN w : IF i = Len(d) + 1 THEN w[i] = new ELSE i \in DOMAIN d /\ w[i] = d[i]
    BY <1>1, <1>2, <2>3
  <2>6. \A i \in DOMAIN w : w[i].name \in DOMAIN Mine /\ Known(w[i])
    BY <1>5, <2>2, <2>4, <2>5 DEF EntriesKnown
  <2>7. QED  BY <1>3, <1>4, <2>6 DEF EntriesKnown, Written
<1>8. QED  BY <1>6, <1>7

LEMMA EditedIsKnown ==
  ASSUME NEW d, IsDocument(d), EntriesKnown(d), NEW e \in Edited(d)
  PROVE  EntriesKnown(e)
<1>1. PICK i \in DOMAIN d : \E new :
        /\ e = [d EXCEPT ![i] = new] /\ IsEntry(new) /\ new.name = d[i].name
        /\ \/ new.command = d[i].command /\ new.args = d[i].args
           \/ \E c \in Mine[d[i].name] : new.command = c.command /\ new.args = c.args
  BY EditsOneEntry
<1>2. PICK new :
        /\ e = [d EXCEPT ![i] = new] /\ new.name = d[i].name
        /\ \/ new.command = d[i].command /\ new.args = d[i].args
           \/ \E c \in Mine[d[i].name] : new.command = c.command /\ new.args = c.args
  BY <1>1
<1>3. d[i].name \in DOMAIN Mine /\ Known(d[i])
  BY DEF EntriesKnown
<1>4. Known(new)
  <2>1. CASE new.command = d[i].command /\ new.args = d[i].args
    BY <1>2, <1>3, <2>1, KnownSame
  <2>2. CASE \E c \in Mine[d[i].name] : new.command = c.command /\ new.args = c.args
    <3>1. PICK c \in Mine[d[i].name] : new.command = c.command /\ new.args = c.args
      BY <2>2
    <3>2. c = [command |-> c.command, args |-> c.args]
      BY <1>3, McpAssumption
    <3>3. Command(new) = c
      BY <3>1, <3>2 DEF Command
    <3>4. QED  BY <1>2, <3>3 DEF Known
  <2>3. QED  BY <1>2, <2>1, <2>2
<1>5. \A j \in DOMAIN e : j \in DOMAIN d /\ e[j] = IF j = i THEN new ELSE d[j]
  BY <1>2
<1>6. QED  BY <1>2, <1>3, <1>4, <1>5 DEF EntriesKnown

LEMMA OwnersInit == Init => OwnersHold
<1> SUFFICES ASSUME Init  PROVE OwnersHold
  OBVIOUS
<1>1. request \in [Runs -> Requests]
  BY DEF Init
<1>2. file # Torn
  BY McpAssumption DEF Init
<1>3. EntriesKnown(file.entries)
  <2>1. file.entries \in Seq([name : DOMAIN Mine, command : STRING, args : Seq(STRING), other : Nat])
    BY McpAssumption DEF Init
  <2>2. \A i \in DOMAIN file.entries : file.entries[i].name \in DOMAIN Mine
    <3>1. PICK S : S = [name : DOMAIN Mine, command : STRING, args : Seq(STRING), other : Nat]
      OBVIOUS
    <3>2. \A e \in S : e.name \in DOMAIN Mine
      BY <3>1
    <3>3. PICK d : d = file.entries
      OBVIOUS
    <3>4. d \in Seq(S)
      BY <2>1, <3>1, <3>3
    <3>5. \A i \in DOMAIN d : d[i] \in S
      BY <3>4
    <3>6. QED  BY <3>2, <3>3, <3>5
  <2>3. \A i \in DOMAIN file.entries : Known(file.entries[i])
    BY ConfigAssumption DEF Init
  <2>4. QED  BY <2>2, <2>3 DEF EntriesKnown
<1>4. \A r \in Runs : EntriesKnown(loaded[r])
  <2>1. DOMAIN <<>> = {}
    OBVIOUS
  <2>2. EntriesKnown(<<>>)
    BY <2>1 DEF EntriesKnown
  <2>3. QED  BY <2>2 DEF Init
<1>5. \A r \in Runs : step[r] = "start"
  BY DEF Init
<1>6. QED  BY <1>1, <1>2, <1>3, <1>4, <1>5 DEF OwnersHold

(* The steps at which a run may still write.                                *)
Writing == {"backup", "copy", "temp", "write", "rename"}

LEMMA RefusedIsOfEntries ==
  ASSUME NEW q, NEW f, ~Refused(q, f)
  PROVE  ~Refused(q, Whole(f.entries))
BY DEF Refused, Whole

LEMMA OwnersStep == DocumentsHold /\ OwnersHold /\ [Next]_vars => OwnersHold'
<1> SUFFICES ASSUME DocumentsHold, OwnersHold, [Next]_vars  PROVE OwnersHold'
  OBVIOUS
<1>1. ASSUME NEW r \in Runs, Invoke(r)  PROVE OwnersHold'
  <2>1. DOMAIN step = Runs /\ DOMAIN loaded = Runs
    BY DEF DocumentsHold
  <2>2. CASE LoadConfig(r)
    <3>1. /\ UNCHANGED <<file, request>> /\ loaded' = [loaded EXCEPT ![r] = file.entries]
          /\ \A q \in Runs \ {r} : step'[q] = step[q]
          /\ step'[r] \in Writing => ~Refused(request[r], file)
      BY <2>1, <2>2 DEF LoadConfig, Go, Writing
    <3>2. \A q \in Runs : loaded'[q] = IF q = r THEN file.entries ELSE loaded[q]
      BY <2>1, <3>1
    <3>3. \A q \in Runs : EntriesKnown(loaded'[q])
      BY <3>2 DEF OwnersHold
    <3>4. ASSUME NEW q \in Runs, step'[q] \in Writing
          PROVE  ~Refused(request[q], Whole(loaded'[q]))
      <4>1. CASE q = r
        BY <3>1, <3>2, <3>4, <4>1, RefusedIsOfEntries
      <4>2. CASE q # r
        BY <3>1, <3>2, <3>4, <4>2 DEF OwnersHold, Writing
      <4>3. QED  BY <4>1, <4>2
    <3>5. QED  BY <3>1, <3>3, <3>4 DEF OwnersHold, Writing
  <2>3. CASE Rename(r)
    <3>1. /\ step[r] = "rename" /\ file' = Whole(Written(request[r], loaded[r]))
          /\ UNCHANGED <<request, loaded>>
          /\ step'[r] = "done" /\ \A q \in Runs \ {r} : step'[q] = step[q]
      BY <2>1, <2>3 DEF Rename, Go, DocumentsHold
    <3>2. /\ request[r] \in Requests /\ IsDocument(loaded[r]) /\ EntriesKnown(loaded[r])
          /\ ~Refused(request[r], Whole(loaded[r]))
      BY <3>1 DEF OwnersHold, DocumentsHold
    <3>3. EntriesKnown(Written(request[r], loaded[r]))
      BY <3>2, WrittenIsKnown
    <3>4. file' # Torn /\ file'.entries = Written(request[r], loaded[r])
      BY <3>1 DEF Whole, Torn
    <3>5. EntriesKnown(file'.entries)
      BY <3>3, <3>4
    <3>6. QED  BY <3>1, <3>4, <3>5 DEF OwnersHold
  <2>4. CASE OpenBackup(r) \/ NothingToBackUp(r) \/ CopyBackup(r) \/ CreateTemp(r) \/ WriteTemp(r)
               \/ CallFails(r) \/ Killed(r)
    <3>1. /\ UNCHANGED <<file, request, loaded>> /\ step[r] \in Writing
          /\ \A q \in Runs \ {r} : step'[q] = step[q]
      BY <2>1, <2>4
      DEF OpenBackup, NothingToBackUp, CopyBackup, CreateTemp, WriteTemp, CallFails, Killed, Go,
          Writing
    <3>2. \A q \in Runs : step'[q] \in Writing => step[q] \in Writing
      BY <3>1
    <3>3. QED  BY <3>1, <3>2 DEF OwnersHold, Writing
  <2>5. QED  BY <1>1, <2>2, <2>3, <2>4 DEF Invoke
<1>2. CASE ClientEdits
  <2>1. PICK d \in Edited(file.entries) : file' = Whole(d)
    BY <1>2 DEF ClientEdits
  <2>2. EntriesKnown(d)
    BY <2>1, EditedIsKnown DEF DocumentsHold, OwnersHold
  <2>3. file' # Torn /\ file'.entries = d
    BY <2>1 DEF Whole, Torn
  <2>4. EntriesKnown(file'.entries)
    BY <2>2, <2>3
  <2>5. UNCHANGED <<step, request, loaded>>
    BY <1>2 DEF ClientEdits
  <2>6. QED  BY <2>3, <2>4, <2>5 DEF OwnersHold
<1>3. CASE Tick \/ UNCHANGED vars
  <2>1. UNCHANGED <<file, step, request, loaded>>
    BY <1>3 DEF Tick, vars
  <2>2. QED  BY <2>1 DEF OwnersHold
<1>4. QED  BY <1>1, <1>2, <1>3 DEF Next

LEMMA Ends ==
  ASSUME NEW s \in Seq(Words), NEW t \in Seq(Words), NEW k \in Nat, Len(t) = k + Len(s),
         \A j \in 1 .. Len(s) : t[k + j] = s[j]
  PROVE  IsSuffix(s, t)
<1>1. PICK n \in Nat : n = Len(s)
  BY LenProperties
<1>2. DOMAIN s = 1 .. n /\ DOMAIN t = 1 .. k + n /\ Len(t) = k + n
  BY <1>1, LenProperties
<1>3. PICK u, v : u = Reverse(s) /\ v = Reverse(t)
  OBVIOUS
<1>4. /\ u = [i \in 1 .. n |-> s[(n - i) + 1]]
      /\ v = [i \in 1 .. k + n |-> t[(k + n - i) + 1]]
  BY <1>1, <1>2, <1>3 DEF Reverse
<1>5. u \in Seq(Words) /\ v \in Seq(Words) /\ Len(u) = n /\ Len(v) = k + n
  <2>1. \A i \in 1 .. n : s[(n - i) + 1] \in Words
    BY <1>1, <1>2
  <2>2. \A i \in 1 .. k + n : t[(k + n - i) + 1] \in Words
    BY <1>2
  <2>3. k + n \in Nat
    OBVIOUS
  <2>4. QED  BY <1>4, <2>1, <2>2, <2>3
<1>6. \A i \in 1 .. n : u[i] = v[i]
  <2> SUFFICES ASSUME NEW i \in 1 .. n  PROVE u[i] = v[i]
    OBVIOUS
  <2>1. (n - i) + 1 \in 1 .. n /\ (k + n - i) + 1 = k + ((n - i) + 1)
    OBVIOUS
  <2>2. u[i] = s[(n - i) + 1] /\ v[i] = t[k + ((n - i) + 1)]
    BY <1>4, <2>1
  <2>3. QED  BY <1>1, <2>1, <2>2
<1>7. SubSeq(v, 1, n) = u
  <2>1. 1 \in Int /\ n \in Int /\ \A i \in 1 .. n : v[i] \in Words
    BY <1>5
  <2>2. /\ SubSeq(v, 1, n) \in Seq(Words)
        /\ Len(SubSeq(v, 1, n)) = IF 1 <= n THEN n - 1 + 1 ELSE 0
        /\ \A i \in 1 .. n - 1 + 1 : SubSeq(v, 1, n)[i] = v[1 + i - 1]
    BY <2>1, SubSeqProperties
  <2>3. Len(SubSeq(v, 1, n)) = Len(u) /\ \A i \in 1 .. Len(u) : SubSeq(v, 1, n)[i] = u[i]
    BY <1>5, <1>6, <2>2
  <2>4. QED  BY <1>5, <2>2, <2>3, SeqEqual
<1>8. SubSeq(u, 1, n) = u
  BY <1>5, SubSeqFull
<1>9. IsPrefix(u, v)
  BY <1>5, <1>7, <1>8 DEF IsPrefix
<1>10. QED  BY <1>3, <1>9 DEF IsSuffix

LEMMA KnownIsPlainOrWrapped ==
  ASSUME NEW e, e.name \in DOMAIN Mine, Known(e)
  PROVE  PlainOrWrapped(e)
<1>1. CASE Command(e) \in Mine[e.name] \cup {Nobody}
  BY <1>1 DEF PlainOrWrapped
<1>2. CASE \E c \in Mine[e.name] : Wraps(e, c)
  <2>1. PICK c \in Mine[e.name] : Wraps(e, c)
    BY <1>2
  <2>2. c \in [command : STRING, args : Seq(STRING)]
    BY McpAssumption
  <2>3. PICK p \in Profiles \cup {NoProfile} : e.args = BuildWrapped(p, c).args
    BY <2>1 DEF Wraps
  <2>4. IsPrefix(<<"mcp", "wrap">>, e.args)
    BY <2>2, <2>3, BuiltUnwraps
  <2>5. PICK k : k = IF p = NoProfile THEN 2 ELSE 4
    OBVIOUS
  <2>6. k \in {2, 4}
    BY <2>5
  <2>7. PICK a : a = BuildWrapped(p, c).args
    OBVIOUS
  <2>8. /\ a \in Seq(Words) /\ Len(a) = k + 2 + Len(c.args)
        /\ a[k + 1] = "--" /\ a[k + 2] = c.command
        /\ \A j \in 1 .. Len(c.args) : a[k + 2 + j] = c.args[j]
    BY <2>2, <2>5, <2>7, BuiltArgs
  <2>9. /\ e.args \in Seq(Words) /\ Len(e.args) = k + 2 + Len(c.args)
        /\ e.args[k + 1] = "--" /\ e.args[k + 2] = c.command
        /\ \A j \in 1 .. Len(c.args) : e.args[k + 2 + j] = c.args[j]
    BY <2>3, <2>7, <2>8
  <2>10. PICK h, s : h = <<"--", c.command>> /\ s = h \o c.args
    OBVIOUS
  <2>11. h \in Seq(Words) /\ Len(h) = 2 /\ h[1] = "--" /\ h[2] = c.command /\ c.args \in Seq(Words)
    BY <2>2, <2>10, WordsHold, TwoWords
  <2>12. /\ s \in Seq(Words) /\ Len(s) = Len(h) + Len(c.args)
        /\ \A i \in 1 .. Len(h) : s[i] = h[i]
        /\ \A j \in 1 .. Len(c.args) : s[Len(h) + j] = c.args[j]
    <3>1. h \in Seq(Words) /\ c.args \in Seq(Words)
      BY <2>11
    <3>2. QED  BY <2>10, <3>1, Joined
  <2>13. Len(c.args) \in Nat
    BY <2>11, LenProperties
  <2>14. \A j \in 1 .. Len(s) : e.args[k + j] = s[j]
    <3> SUFFICES ASSUME NEW j \in 1 .. Len(s)  PROVE e.args[k + j] = s[j]
      OBVIOUS
    <3>1. CASE j \in {1, 2}
      BY <2>11, <2>12, <2>9, <3>1
    <3>2. CASE j \notin {1, 2}
      <4>1. j - 2 \in 1 .. Len(c.args) /\ j = 2 + (j - 2)
        <5>1. Len(s) = 2 + Len(c.args)
          BY <2>11, <2>12
        <5>2. j \in Int /\ 1 <= j /\ j <= 2 + Len(c.args) /\ j # 1 /\ j # 2
          BY <2>13, <3>2, <5>1
        <5>3. QED  BY <2>13, <5>2
      <4>2. PICK i \in 1 .. Len(c.args) : i = j - 2
        BY <4>1
      <4>3. s[2 + i] = c.args[i]
        BY <2>11, <2>12
      <4>4. e.args[k + 2 + i] = c.args[i]
        BY <2>9
      <4>5. 2 + i = j /\ k + 2 + i = k + j
        BY <2>6, <4>1, <4>2
      <4>6. QED  BY <4>3, <4>4, <4>5
    <3>3. QED  BY <3>1, <3>2
  <2>15. k \in Nat /\ Len(e.args) = k + Len(s)
    <3>1. Len(s) = 2 + Len(c.args) /\ Len(e.args) = k + 2 + Len(c.args)
      BY <2>11, <2>12, <2>9
    <3>2. k \in Nat
      BY <2>6
    <3>3. PICK n \in Nat : n = Len(c.args)
      BY <2>13
    <3>4. k + 2 + n = k + (2 + n)
      BY <3>2
    <3>5. QED  BY <3>1, <3>2, <3>3, <3>4
  <2>16. IsSuffix(s, e.args)
    BY <2>12, <2>14, <2>15, <2>9, Ends
  <2>17. Len(e.args) - Len(c.args) - 2 \in {2, 4}
    BY <2>13, <2>6, <2>9
  <2>18. QED  BY <2>1, <2>4, <2>10, <2>16, <2>17 DEF PlainOrWrapped, Wraps
<1>3. QED  BY <1>1, <1>2 DEF Known

(* InnerIsOwners for any servers, commands and profiles, any number of      *)
(* invocations and edits: the config is complete, and every entry runs a    *)
(* command of its owner, behind one `mcp wrap` at most.                     *)
THEOREM InnersAreOwners == Spec => []InnerIsOwners
<1>1. OwnersHold => InnerIsOwners
  BY KnownIsPlainOrWrapped DEF OwnersHold, EntriesKnown, InnerIsOwners
<1>2. QED
  BY <1>1, DocumentsInit, DocumentsStep, OwnersInit, OwnersStep, PTL DEF Spec
=============================================================================
