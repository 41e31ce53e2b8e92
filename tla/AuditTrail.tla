----------------------------- MODULE AuditTrail -----------------------------
(***************************************************************************)
(* The audit trail of one run: audit.ndjson, the writer that appends to it *)
(* (ArtifactWriter::append_audit_event) and the verifier that reads it     *)
(* back (verify_audit_chain_with_pubkey), of                               *)
(* crates/clawcrate-audit/src/lib.rs.                                      *)
(*                                                                         *)
(* SHA-256 is idealised as an injective function: the hash of an event on  *)
(* top of a previous hash is that hash, a sequence of events, with the     *)
(* event appended.  A block hash is the sequence of the hashes it covers.  *)
(***************************************************************************)
EXTENDS Naturals, Sequences

CONSTANTS
  Events,     (* the audit events a run may append                          *)
  Terminal,   (* those of them that close a signature block at once         *)
  Final,      (* ProcessExited: the caller appends nothing after it         *)
  Modes,      (* the settings of the two environment switches explored      *)
  BlockSize,  (* CLAWCRATE_AUDIT_SIGN_BLOCK_SIZE                            *)
  MaxEvents,  (* bound: how many events one trail may hold                  *)
  NoHash,     (* the absent current_hash and previous_hash of a plain line  *)
  NoSig       (* no signature line follows the event line                   *)

ASSUME AuditAssumption ==
  /\ Terminal \subseteq Events
  /\ Final \subseteq Terminal
  /\ Modes \subseteq {"plain", "chain", "sign"}
  /\ BlockSize \in Nat \ {0}
  /\ MaxEvents \in Nat
  /\ NoHash \notin Seq(Events)
  /\ NoSig \notin [start : Nat, end : Nat, hash : Seq(Seq(Events))]

VARIABLES
  mode,     (* plain: no switch; chain: HASHCHAIN=1; sign: SIGN=<key>       *)
  trail,    (* the file: event lines, each with the signature line after it *)
  torn,     (* the file ends in a line that was written only in part        *)
  writer,   (* idle, signing (event line written, block undecided), stopped *)
  altered,  (* a line was changed after the writer had stopped              *)
  left      (* the signature line whose event line was lost, if any, and    *)
            (* after how many event lines it stands                         *)

vars == <<mode, trail, torn, writer, altered, left>>

Genesis == <<>>
Hashes == Seq(Events)
Signatures == [start : Nat, end : Nat, hash : Seq(Hashes)]
Lines == [event : Events, prev : Hashes \cup {NoHash},
          cur : Hashes \cup {NoHash}, sig : Signatures \cup {NoSig}]

TypeOK ==
  /\ mode \in Modes
  /\ trail \in Seq(Lines)
  /\ torn \in BOOLEAN
  /\ writer \in {"idle", "signing", "stopped"}
  /\ altered \in BOOLEAN
  /\ left \subseteq [after : Nat, sig : Signatures]

-----------------------------------------------------------------------------
(* Hashing and the signature state                                          *)

EventHash(e, prev) == Append(prev, e)

(* The block hash of the events numbered from start to end, counted from 0. *)
BlockHash(tr, start, end) == [k \in 1 .. (end + 1 - start) |-> tr[start + k].cur]

(* A faulty variant: the first line of the file is read, not the last.      *)
FirstHash(tr) == IF tr = <<>> THEN Genesis ELSE tr[1].cur

(* read_previous_hash: the current_hash field of the last line of the file. *)
(* A signature line is a line too, and has no such field.                   *)
PreviousHash(tr) ==
  IF tr = <<>> \/ tr[Len(tr)].sig # NoSig THEN Genesis ELSE tr[Len(tr)].cur

(* A faulty variant: the next block starts at the end of the last one.      *)
BoundsInclusive(tr) == {0} \cup {tr[i].sig.end : i \in {j \in DOMAIN tr : tr[j].sig # NoSig}}

(* max(block_end + 1) over the signature lines, and 0 when there are none.  *)
Bounds(tr) == {0} \cup {tr[i].sig.end + 1 : i \in {j \in DOMAIN tr : tr[j].sig # NoSig}}
NextStart(tr) == CHOOSE n \in Bounds(tr) : \A m \in Bounds(tr) : m <= n

(* maybe_build_signature, up to the decision: the event just written fills  *)
(* its block or is terminal.                                                *)
ShouldCloseBlock(tr) ==
  /\ mode = "sign"
  /\ NextStart(tr) < Len(tr)
  /\ \/ Len(tr) - NextStart(tr) >= BlockSize
     \/ tr[Len(tr)].event \in Terminal

BlockSignature(tr) ==
  [start |-> NextStart(tr), end |-> Len(tr) - 1,
   hash |-> BlockHash(tr, NextStart(tr), Len(tr) - 1)]

-----------------------------------------------------------------------------
(* The writer                                                               *)

Init ==
  /\ mode \in Modes
  /\ trail = <<>>
  /\ torn = FALSE
  /\ writer = "idle"
  /\ altered = FALSE
  /\ left = {}

EventLine(e) ==
  IF mode = "plain"
  THEN [event |-> e, prev |-> NoHash, cur |-> NoHash, sig |-> NoSig]
  ELSE [event |-> e, prev |-> PreviousHash(trail),
        cur |-> EventHash(e, PreviousHash(trail)), sig |-> NoSig]

(* A run appends its events one by one and ProcessExited last.              *)
MayAppend ==
  /\ writer = "idle"
  /\ Len(trail) < MaxEvents
  /\ trail # <<>> => trail[Len(trail)].event \notin Final

(* The event line and its newline reach the file.                           *)
AppendEvent(e) ==
  /\ MayAppend
  /\ trail' = Append(trail, EventLine(e))
  /\ writer' = IF mode = "plain" THEN "idle" ELSE "signing"
  /\ UNCHANGED <<mode, torn, altered, left>>

(* A write of the line fails, or the process dies, part way: the caller     *)
(* gets an error and appends nothing more to this trail.                    *)
TearEvent ==
  /\ MayAppend
  /\ torn' = TRUE
  /\ writer' = "stopped"
  /\ UNCHANGED <<mode, trail, altered, left>>

KeepBlockOpen ==
  /\ writer = "signing"
  /\ ~ShouldCloseBlock(trail)
  /\ writer' = "idle"
  /\ UNCHANGED <<mode, trail, torn, altered, left>>

CloseBlock ==
  /\ writer = "signing"
  /\ ShouldCloseBlock(trail)
  /\ trail' = [trail EXCEPT ![Len(trail)].sig = BlockSignature(trail)]
  /\ writer' = "idle"
  /\ UNCHANGED <<mode, torn, altered, left>>

(* The signature line is written only in part.  The event line before it    *)
(* stays in the file although append_audit_event returns an error.          *)
TearSignature ==
  /\ writer = "signing"
  /\ ShouldCloseBlock(trail)
  /\ torn' = TRUE
  /\ writer' = "stopped"
  /\ UNCHANGED <<mode, trail, altered, left>>

(* The run ends, is killed between two writes, or append_audit_event        *)
(* returns an error with nothing written (open fails, no signing key).      *)
Stop ==
  /\ writer # "stopped"
  /\ writer' = "stopped"
  /\ UNCHANGED <<mode, trail, torn, altered, left>>

-----------------------------------------------------------------------------
(* What verify is there to detect: the stored file changes afterwards.      *)

(* One event line now tells another event; its hash fields are as before.   *)
AlterEvent(i, e) ==
  /\ writer = "stopped" /\ ~altered
  /\ e # trail[i].event
  /\ trail' = [trail EXCEPT ![i].event = e]
  /\ altered' = TRUE
  /\ UNCHANGED <<mode, torn, writer, left>>

(* One event line is gone from before others; the signature line after it,  *)
(* if there is one, stays.                                                  *)
LoseEvent(i) ==
  /\ writer = "stopped" /\ ~altered
  /\ i < Len(trail) \/ trail[i].sig # NoSig
  /\ trail' = SubSeq(trail, 1, i - 1) \o SubSeq(trail, i + 1, Len(trail))
  /\ left' = IF trail[i].sig = NoSig THEN {} ELSE {[after |-> i - 1, sig |-> trail[i].sig]}
  /\ altered' = TRUE
  /\ UNCHANGED <<mode, torn, writer>>

Next ==
  \/ \E e \in Events : AppendEvent(e)
  \/ TearEvent
  \/ KeepBlockOpen
  \/ CloseBlock
  \/ TearSignature
  \/ Stop
  \/ \E i \in DOMAIN trail, e \in Events : AlterEvent(i, e)
  \/ \E i \in DOMAIN trail : LoseEvent(i)

Spec == Init /\ [][Next]_vars

-----------------------------------------------------------------------------
(* The verifier.  It stops at the first fault; a line written in part can   *)
(* only be the last one, so every other fault is met before it.             *)

(* The hash the verifier expects line i to name: unchained lines are passed *)
(* over, and all lines of one trail are of one kind.                        *)
ExpectedPrevious(tr, i) == IF i = 1 THEN Genesis ELSE tr[i - 1].cur

(* A faulty variant: the event is not hashed again.                         *)
LinkHoldsUnhashed(tr, i) == tr[i].cur # NoHash => tr[i].prev = ExpectedPrevious(tr, i)

LinkHolds(tr, i) ==
  tr[i].cur # NoHash =>
    /\ tr[i].prev = ExpectedPrevious(tr, i)
    /\ tr[i].cur = EventHash(tr[i].event, tr[i].prev)

(* A signature line after n event lines, when a public key is given.        *)
SignatureHolds(tr, n, sig) ==
  /\ sig.start <= sig.end
  /\ sig.end < n
  /\ sig.hash = BlockHash(tr, sig.start, sig.end)

SignaturesHold(tr, loose) ==
  /\ \A i \in DOMAIN tr : tr[i].sig # NoSig => SignatureHolds(tr, i, tr[i].sig)
  /\ \A l \in loose : SignatureHolds(tr, l.after, l.sig)

Verify(tr, loose, cut, withKey) ==
  IF (\E i \in DOMAIN tr : ~LinkHolds(tr, i)) \/ (withKey /\ ~SignaturesHold(tr, loose))
  THEN "invalid"
  ELSE IF cut THEN "unreadable"
  ELSE IF \A i \in DOMAIN tr : tr[i].cur = NoHash THEN "no chain"
  ELSE "valid"

-----------------------------------------------------------------------------
(* Properties                                                               *)

(* A hash-chained trail nobody touched verifies, with or without a key,     *)
(* whenever it is read: between two appends, after the run was killed, and  *)
(* before the decision about a block.  A line cut short is reported as such *)
(* and never as an alteration.                                              *)
ChainedTrailVerifies ==
  mode = "chain" /\ ~altered /\ trail # <<>> =>
    \A withKey \in BOOLEAN :
      Verify(trail, left, torn, withKey) = IF torn THEN "unreadable" ELSE "valid"

(* The same promise for every setting that writes a chain, block signatures *)
(* included: read_previous_hash is to return "the current_hash from the     *)
(* last chained line" (lib.rs:109).                                         *)
UntouchedTrailVerifies ==
  mode # "plain" /\ ~altered /\ ~torn /\ trail # <<>> =>
    Verify(trail, left, torn, TRUE) = "valid"

(* An event changed in place, or lost from before another line, never       *)
(* passes for a valid trail when the public key is given; and without it    *)
(* neither, unless the line that followed the lost event is the signature   *)
(* of its block.                                                            *)
AlterationDetected ==
  altered => \A withKey \in BOOLEAN :
    withKey \/ left = {} => Verify(trail, left, torn, withKey) # "valid"

(* Signature blocks tile the events from the first one: each block starts   *)
(* where the one before it ended and ends at the event it follows, so no    *)
(* event is signed twice and none is skipped.                               *)
Signed(tr, i) == tr[i].sig # NoSig
Tiled(tr) ==
  \A i \in DOMAIN tr : Signed(tr, i) =>
    /\ tr[i].sig.end = i - 1
    /\ tr[i].sig.start <= i - 1
    /\ \A j \in 1 .. (i - 1) : Signed(tr, j) => j <= tr[i].sig.start
    /\ tr[i].sig.start # 0 => Signed(tr, tr[i].sig.start)
BlocksTile == ~altered => Tiled(trail)

(* Every signature line the writer leaves passes the verifier's own checks  *)
(* of its range and of its block hash, however the run went on after it.    *)
SignaturesVerify ==
  ~altered => \A i \in DOMAIN trail : Signed(trail, i) => SignatureHolds(trail, i, trail[i].sig)

(* Whatever was cut short on the way, the signatures cover every event of   *)
(* the blocks they close once, and verify.                                  *)
SignedBlocks == BlocksTile /\ SignaturesVerify

=============================================================================
