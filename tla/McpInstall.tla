----------------------------- MODULE McpInstall -----------------------------
(***************************************************************************)
(* `clawcrate mcp install` and `mcp uninstall` of                          *)
(* crates/clawcrate-cli/src/mcp_install.rs: an entry of a client's config  *)
(* is routed through `clawcrate mcp wrap` and back.  Several invocations   *)
(* may be under way at once, the client writes its config meanwhile, and   *)
(* every invocation may fail or be killed at any step.  Files outlive the  *)
(* processes: the config, a backup per second, a temporary file per pid.   *)
(*                                                                         *)
(* A document is the sequence of the entries under mcpServers (for JSON,   *)
(* of the members, whose order means nothing).  `other` stands for every   *)
(* field of an entry besides its name, command and args.                   *)
(***************************************************************************)
EXTENDS Naturals, Sequences, FiniteSets, SequencesExt

CONSTANTS
  Runs,            (* the invocations, each a process of its own             *)
  Profiles,        (* the profiles a server may be given                     *)
  Requests,        (* [op, name, profile, dryRun, command] they may be given *)
  Configs,         (* what the config may hold at first                      *)
  ClawcratePaths,  (* commands whose last component is clawcrate             *)
  Mine,            (* server name -> the commands its owner has for it       *)
  MaxSecond,       (* bound: seconds that pass                               *)
  MaxEdits         (* bound: writes of the client                            *)

Whole(d) == [is |-> "whole", entries |-> d]
Missing == [is |-> "missing", entries |-> <<>>]
Malformed == [is |-> "malformed", entries |-> <<>>]  (* no document, or its  *)
                                 (* mcpServers is no container of entries   *)
Torn == [is |-> "torn", entries |-> <<>>]   (* opened for writing, and not   *)
                                            (* complete                      *)

NoCommand == "noCommand"       (* an entry without a string command          *)
NoProfile == "noProfile"
Nobody == [command |-> NoCommand, args |-> <<>>]
Command(e) == [command |-> e.command, args |-> e.args]

ASSUME McpAssumption ==
  /\ MaxSecond \in Nat /\ MaxEdits \in Nat
  /\ "clawcrate" \in ClawcratePaths
  /\ Profiles \subseteq STRING \ {"--", NoProfile}
  /\ \A n \in DOMAIN Mine : Mine[n] \subseteq [command : STRING, args : Seq(STRING)]
  /\ \A f \in Configs :
       /\ f # Torn
       /\ f.entries \in Seq([name : DOMAIN Mine, command : STRING, args : Seq(STRING), other : Nat])
  /\ \A r \in Requests :
       /\ r.op \in {"install", "uninstall"} /\ r.name \in DOMAIN Mine
       /\ r.profile \in Profiles \cup {NoProfile}
       /\ r.command \in Mine[r.name] \cup {Nobody}

VARIABLES
  file,     (* the config                                                    *)
  backups,  (* second -> the backup of that second, or Missing               *)
  temp,     (* run -> its temporary file, or Missing                         *)
  now,      (* the second                                                    *)
  step,     (* run -> start, backup, copy, temp, write, rename, done,        *)
            (* refused, failed, killed                                       *)
  request,  (* run -> what it was asked                                      *)
  loaded,   (* run -> the document it read                                   *)
  copied,   (* run -> what its backup copies                                 *)
  stamp,    (* run -> the second of its backup, or none                      *)
  edits,    (* bound                                                         *)
  replaced, (* history: run -> the config its rename replaced                *)
  raced     (* history: runs since whose backup somebody else wrote          *)

vars == <<file, backups, temp, now, step, request, loaded, copied, stamp, edits, replaced, raced>>
history == <<replaced, raced>>

NoStamp == MaxSecond + 1

Init ==
  /\ file \in Configs
  /\ backups = [s \in 0 .. MaxSecond |-> Missing]
  /\ temp = [r \in Runs |-> Missing]
  /\ now = 0
  /\ step = [r \in Runs |-> "start"]
  /\ request \in [Runs -> Requests]
  /\ loaded = [r \in Runs |-> <<>>]
  /\ copied = [r \in Runs |-> Missing]
  /\ stamp = [r \in Runs |-> NoStamp]
  /\ edits = 0
  /\ replaced = [r \in Runs |-> Missing] /\ raced = {}

-----------------------------------------------------------------------------
(* Wrapping                                                                 *)

BuildWrapped(profile, inner) ==
  [command |-> "clawcrate",
   args |-> <<"mcp", "wrap">>
              \o (IF profile = NoProfile THEN <<>> ELSE <<"--profile", profile>>)
              \o <<"--", inner.command>> \o inner.args]

CommandIsClawcrate(c) == c \in ClawcratePaths

IsWrapped(c) == CommandIsClawcrate(c.command) /\ IsPrefix(<<"mcp", "wrap">>, c.args)

Separators(args) == {i \in DOMAIN args : args[i] = "--"}
FirstSeparator(args) == CHOOSE i \in Separators(args) : \A j \in Separators(args) : i <= j
LastSeparator(args) == CHOOSE i \in Separators(args) : \A j \in Separators(args) : i >= j

CanUnwrap(args) == Separators(args) # {} /\ FirstSeparator(args) < Len(args)
After(args, i) == [command |-> args[i + 1], args |-> SubSeq(args, i + 2, Len(args))]

(* A faulty variant: the last separator counts.                             *)
UnwrapFromLast(args) == After(args, LastSeparator(args))

UnwrapInner(args) == After(args, FirstSeparator(args))

(* The owner's command as it is, or as `mcp install` or its owner wrapped it*)
(* once; no command at all is for the client to complain of.                *)
Wraps(e, c) ==
  /\ e.command \in ClawcratePaths
  /\ \E p \in Profiles \cup {NoProfile} : e.args = BuildWrapped(p, c).args
Known(e) == \/ Command(e) \in Mine[e.name] \cup {Nobody}
            \/ \E c \in Mine[e.name] : Wraps(e, c)

(* Nobody's own command is a wrapped one of somebody else.                  *)
ASSUME ConfigAssumption ==
  /\ \A f \in Configs : \A i \in DOMAIN f.entries : Known(f.entries[i])
  /\ \A n \in DOMAIN Mine : \A c \in Mine[n] :
       IsWrapped(c) /\ CanUnwrap(c.args) => UnwrapInner(c.args) \in Mine[n]

-----------------------------------------------------------------------------
(* The document                                                             *)

Places(d, name) == {i \in DOMAIN d : d[i].name = name}
First(d, name) == CHOOSE i \in Places(d, name) : \A j \in Places(d, name) : i <= j
Found(d, name) == Places(d, name) # {}
FindEntry(d, name) == IF Found(d, name) THEN d[First(d, name)] ELSE Nobody
Readable(d, name) == Found(d, name) => FindEntry(d, name).command # NoCommand

(* A faulty variant: the entry is written anew.                             *)
SetEntryAnew(d, name, c) ==
  LET new == [name |-> name, command |-> c.command, args |-> c.args, other |-> 0]
  IN IF Found(d, name) THEN [d EXCEPT ![First(d, name)] = new] ELSE Append(d, new)

(* The first entry of that name, or a new one at the end.                   *)
SetEntry(d, name, c) ==
  IF Found(d, name)
  THEN [d EXCEPT ![First(d, name)].command = c.command, ![First(d, name)].args = c.args]
  ELSE Append(d, [name |-> name, command |-> c.command, args |-> c.args, other |-> 0])

(* What handle_install and handle_uninstall refuse, and what they write.    *)
InnerOf(q, d) == IF q.command # Nobody THEN q.command ELSE Command(FindEntry(d, q.name))

InstallRefused(q, d) ==
  \/ Found(d, q.name) /\ IsWrapped(Command(FindEntry(d, q.name)))
  \/ q.command = Nobody /\ ~Found(d, q.name)

UninstallRefused(q, d) ==
  \/ ~Found(d, q.name)
  \/ ~IsWrapped(Command(FindEntry(d, q.name)))
  \/ ~CanUnwrap(FindEntry(d, q.name).args)

Refused(q, f) ==
  \/ f.is \notin {"whole", "missing"}
  \/ ~Readable(f.entries, q.name)
  \/ q.op = "install" /\ InstallRefused(q, f.entries)
  \/ q.op = "uninstall" /\ UninstallRefused(q, f.entries)

AfterOf(q, d) ==
  IF q.op = "install" THEN BuildWrapped(q.profile, InnerOf(q, d))
  ELSE UnwrapInner(FindEntry(d, q.name).args)
Written(q, d) == SetEntry(d, q.name, AfterOf(q, d))

-----------------------------------------------------------------------------
(* One invocation                                                           *)

Go(r, to) == step' = [step EXCEPT ![r] = to]
BackupTaken(r) == step[r] \in {"copy", "temp", "write", "rename"}

LoadConfig(r) ==
  /\ step[r] = "start"
  /\ loaded' = [loaded EXCEPT ![r] = file.entries]
  /\ Go(r, IF Refused(request[r], file) THEN "refused"
           ELSE IF request[r].dryRun THEN "done" ELSE "backup")
  /\ UNCHANGED <<file, backups, temp, now, request, copied, stamp, edits, history>>

(* A faulty variant: the backup is made of the document as edited already.  *)
OpenBackupOfLoaded(r) ==
  /\ step[r] = "backup" /\ file # Missing
  /\ copied' = [copied EXCEPT ![r] = Whole(Written(request[r], loaded[r]))]
  /\ stamp' = [stamp EXCEPT ![r] = now]
  /\ backups' = [backups EXCEPT ![now] = Torn]
  /\ Go(r, "copy")
  /\ UNCHANGED <<file, temp, now, request, loaded, edits, history>>

(* backup_existing: fs::copy opens the config and creates or truncates the  *)
(* backup, and copies then.                                                 *)
OpenBackup(r) ==
  /\ step[r] = "backup" /\ file # Missing
  /\ copied' = [copied EXCEPT ![r] = file]
  /\ stamp' = [stamp EXCEPT ![r] = now]
  /\ backups' = [backups EXCEPT ![now] = Torn]
  /\ Go(r, "copy")
  /\ UNCHANGED <<file, temp, now, request, loaded, edits, history>>

NothingToBackUp(r) ==
  /\ step[r] = "backup" /\ file = Missing
  /\ Go(r, "temp")
  /\ UNCHANGED <<file, backups, temp, now, request, loaded, copied, stamp, edits, history>>

CopyBackup(r) ==
  /\ step[r] = "copy"
  /\ backups' = [backups EXCEPT ![stamp[r]] = copied[r]]
  /\ Go(r, "temp")
  /\ UNCHANGED <<file, temp, now, request, loaded, copied, stamp, edits, history>>

(* ConfigDoc::write                                                         *)
CreateTemp(r) ==
  /\ step[r] = "temp"
  /\ temp' = [temp EXCEPT ![r] = Torn]
  /\ Go(r, "write")
  /\ UNCHANGED <<file, backups, now, request, loaded, copied, stamp, edits, history>>

WriteTemp(r) ==
  /\ step[r] = "write"
  /\ temp' = [temp EXCEPT ![r] = Whole(Written(request[r], loaded[r]))]
  /\ Go(r, "rename")
  /\ UNCHANGED <<file, backups, now, request, loaded, copied, stamp, edits, history>>

Rename(r) ==
  /\ step[r] = "rename"
  /\ file' = temp[r]
  /\ temp' = [temp EXCEPT ![r] = Missing]
  /\ replaced' = [replaced EXCEPT ![r] = file]
  /\ raced' = raced \cup {q \in Runs \ {r} : BackupTaken(q)}
  /\ Go(r, "done")
  /\ UNCHANGED <<backups, now, request, loaded, copied, stamp, edits>>

(* A call of the file system fails: the error ends the command.  Only a     *)
(* failed rename removes the temporary file.                                *)
CallFails(r) ==
  /\ step[r] \in {"backup", "copy", "temp", "write", "rename"}
  /\ temp' = IF step[r] = "rename" THEN [temp EXCEPT ![r] = Missing] ELSE temp
  /\ Go(r, "failed")
  /\ UNCHANGED <<file, backups, now, request, loaded, copied, stamp, edits, history>>

Killed(r) ==
  /\ step[r] \in {"backup", "copy", "temp", "write", "rename"}
  /\ Go(r, "killed")
  /\ UNCHANGED <<file, backups, temp, now, request, loaded, copied, stamp, edits, history>>

(* The client saves its config: another field of an entry, or the command   *)
(* the owner wants for it.                                                  *)
Edited(d) ==
  {[d EXCEPT ![i].other = @ + 1] : i \in DOMAIN d}
    \cup UNION {{[d EXCEPT ![i].command = c.command, ![i].args = c.args] : c \in Mine[d[i].name]}
               : i \in DOMAIN d}

ClientEdits ==
  /\ file.is = "whole" /\ edits < MaxEdits
  /\ \E d \in Edited(file.entries) : file' = Whole(d)
  /\ edits' = edits + 1
  /\ raced' = raced \cup {r \in Runs : BackupTaken(r)}
  /\ UNCHANGED <<backups, temp, now, step, request, loaded, copied, stamp, replaced>>

Tick ==
  /\ now < MaxSecond
  /\ now' = now + 1
  /\ UNCHANGED <<file, backups, temp, step, request, loaded, copied, stamp, edits, history>>

Invoke(r) ==
  \/ LoadConfig(r)
  \/ OpenBackup(r) \/ NothingToBackUp(r) \/ CopyBackup(r)
  \/ CreateTemp(r) \/ WriteTemp(r) \/ Rename(r)
  \/ CallFails(r) \/ Killed(r)

Next == (\E r \in Runs : Invoke(r)) \/ ClientEdits \/ Tick

Spec == Init /\ [][Next]_vars

-----------------------------------------------------------------------------
(* Properties                                                               *)

(* What a client would start for a server: the owner's command, plain or    *)
(* behind exactly one `mcp wrap`.                                           *)
PlainOrWrapped(e) ==
  \/ Command(e) \in Mine[e.name] \cup {Nobody}
  \/ /\ e.command \in ClawcratePaths /\ IsPrefix(<<"mcp", "wrap">>, e.args)
     /\ \E c \in Mine[e.name] :
          /\ IsSuffix(<<"--", c.command>> \o c.args, e.args)
          /\ Len(e.args) - Len(c.args) - 2 \in {2, 4}

(* Whatever is installed and uninstalled, at once or one after the other,   *)
(* and wherever an invocation dies: the client finds a complete config, no  *)
(* entry is wrapped twice, and what an entry runs in the end is a command   *)
(* of its owner with all its arguments.                                     *)
InnerIsOwners ==
  /\ file # Torn
  /\ \A i \in DOMAIN file.entries : PlainOrWrapped(file.entries[i])

(* "A real write always creates a timestamped backup of the original        *)
(* config": what a write replaced is in the backup of its second, unless    *)
(* somebody else wrote after the backup was taken, or a second invocation   *)
(* took its backup in the same second.                                      *)
ReplacedIsKept ==
  \A r \in Runs :
    \/ replaced[r] = Missing \/ r \in raced
    \/ /\ stamp[r] # NoStamp
       /\ \/ backups[stamp[r]] = replaced[r]
          \/ \E q \in Runs \ {r} : stamp[q] = stamp[r]

(* "Only the target server entry is edited": a config that did not change   *)
(* since it was read keeps every other entry, the order of the entries, and *)
(* the other fields of the target.                                          *)
OnlyTarget(d, e, name) ==
  /\ Len(e) = Len(d) \/ (Len(e) = Len(d) + 1 /\ Last(e).name = name)
  /\ \A i \in DOMAIN d : e[i] # d[i] =>
       /\ e[i] = [d[i] EXCEPT !.command = e[i].command, !.args = e[i].args]
       /\ d[i].name = name /\ \A j \in 1 .. i - 1 : d[j].name # name

SiblingsKept ==
  [][\A r \in Runs :
       step[r] = "rename" /\ step'[r] = "done" /\ file.entries = loaded[r]
         => OnlyTarget(file.entries, file'.entries, request[r].name)]_vars

=============================================================================
