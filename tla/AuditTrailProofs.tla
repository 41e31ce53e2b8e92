-------------------------- MODULE AuditTrailProofs --------------------------
(***************************************************************************)
(* Proofs about AuditTrail, for every set of events, block size and bound. *)
(***************************************************************************)
EXTENDS AuditTrail, SequenceTheorems, TLAPS

(* The lines of one trail are all of one kind, that of the run's setting.   *)
KindInv ==
  \A i \in DOMAIN trail :
    IF mode = "plain" THEN trail[i].cur = NoHash
                      ELSE trail[i].cur \in Hashes /\ trail[i].prev \in Hashes

(* The writer decides about the block of the last line only, and only the   *)
(* file of a stopped writer changes behind its back.                        *)
WriterInv ==
  /\ altered => writer = "stopped"
  /\ ~altered => left = {}
  /\ writer = "signing" => /\ mode # "plain"
                           /\ trail # <<>>
                           /\ trail[Len(trail)].sig = NoSig

(* n is the position of the last event line with a signature, 0 for none.   *)
LastSigned(tr, n) ==
  /\ n # 0 => tr[n].sig # NoSig
  /\ \A j \in (n + 1) .. Len(tr) : tr[j].sig = NoSig

(* A signature ends its block at the event line it follows.                 *)
EndsHere(tr) == \A i \in DOMAIN tr : tr[i].sig # NoSig => tr[i].sig.end = i - 1

SignInv ==
  ~altered =>
    /\ mode # "sign" => \A i \in DOMAIN trail : trail[i].sig = NoSig
    /\ EndsHere(trail)
    /\ \E n \in 0 .. Len(trail) : LastSigned(trail, n)

(* The links of a hash-chained trail hold one by one.                       *)
LinkInv == mode = "chain" /\ ~altered => \A i \in DOMAIN trail : LinkHolds(trail, i)

TypeInv == TypeOK /\ KindInv /\ WriterInv /\ SignInv
ChainInv == TypeInv /\ LinkInv

-----------------------------------------------------------------------------

(* NextStart, the maximum of block_end + 1, is the number of signed events. *)
LEMMA NextStartIs ==
  ASSUME NEW tr \in Seq(Lines), NEW n \in 0 .. Len(tr), LastSigned(tr, n), EndsHere(tr)
  PROVE  NextStart(tr) = n
<1>1. DOMAIN tr = 1 .. Len(tr) /\ Len(tr) \in Nat
  BY LenProperties
<1>2. n \in Bounds(tr)
  <2>1. CASE n = 0
    BY <2>1 DEF Bounds
  <2>2. CASE n # 0
    <3>1. n \in DOMAIN tr
      BY <1>1, <2>2
    <3>2. tr[n].sig # NoSig
      BY <2>2 DEF LastSigned
    <3>3. tr[n].sig.end = n - 1
      BY <3>1, <3>2 DEF EndsHere
    <3>4. tr[n].sig.end + 1 = n
      BY <3>3
    <3>. QED
      BY <3>1, <3>2, <3>4 DEF Bounds
  <2>. QED BY <2>1, <2>2
<1>3. ASSUME NEW m \in Bounds(tr) PROVE m \in Nat /\ m <= n
  <2>1. CASE m = 0
    BY <2>1
  <2>2. CASE m # 0
    <3>1. PICK i \in DOMAIN tr : tr[i].sig # NoSig /\ m = tr[i].sig.end + 1
      BY <1>3, <2>2 DEF Bounds
    <3>2. m = i
      BY <1>1, <3>1 DEF EndsHere
    <3>3. i <= n
      BY <1>1, <3>1 DEF LastSigned
    <3>. QED BY <1>1, <3>1, <3>2, <3>3
  <2>. QED BY <2>1, <2>2
<1>. DEFINE P(x) == x \in Bounds(tr) /\ \A m \in Bounds(tr) : m <= x
<1>4. P(n)
  BY <1>2, <1>3
<1>5. ASSUME NEW x, P(x) PROVE x = n
  <2>1. x \in Nat /\ x <= n
    BY <1>3, <1>5
  <2>2. n <= x
    BY <1>2, <1>5
  <2>. QED BY <2>1, <2>2
<1>. QED
  BY <1>4, <1>5 DEF NextStart

(* What read_previous_hash returns in a run that chains is a hash.          *)
LEMMA PreviousHashType ==
  ASSUME TypeOK, KindInv, mode # "plain"
  PROVE  PreviousHash(trail) \in Hashes
<1>1. trail = <<>> \/ Len(trail) \in DOMAIN trail
  BY LenProperties, EmptySeq DEF TypeOK
<1>2. CASE trail = <<>> \/ trail[Len(trail)].sig # NoSig
  BY <1>2, EmptySeq DEF PreviousHash, Genesis, Hashes
<1>3. CASE trail # <<>> /\ trail[Len(trail)].sig = NoSig
  BY <1>1, <1>3 DEF PreviousHash, KindInv
<1>. QED BY <1>2, <1>3

LEMMA EventLineType ==
  ASSUME TypeOK, KindInv, NEW e \in Events
  PROVE  /\ EventLine(e) \in Lines
         /\ EventLine(e).event = e
         /\ EventLine(e).sig = NoSig
         /\ IF mode = "plain" THEN EventLine(e).cur = NoHash
            ELSE EventLine(e).cur \in Hashes /\ EventLine(e).prev \in Hashes
<1>1. CASE mode = "plain"
  BY <1>1 DEF EventLine, Lines
<1>2. CASE mode # "plain"
  <2>1. PreviousHash(trail) \in Hashes
    BY <1>2, PreviousHashType
  <2>2. EventHash(e, PreviousHash(trail)) \in Hashes
    BY <2>1, AppendProperties DEF EventHash, Hashes
  <2>. QED
    BY <1>2, <2>1, <2>2 DEF EventLine, Lines
<1>. QED BY <1>1, <1>2

LEMMA BlockSignatureType ==
  ASSUME TypeInv, writer = "signing", ~altered
  PROVE  /\ NextStart(trail) \in 0 .. (Len(trail) - 1)
         /\ BlockSignature(trail) \in Signatures
<1>1. DOMAIN trail = 1 .. Len(trail) /\ Len(trail) \in Nat /\ trail # <<>>
  BY LenProperties DEF TypeInv, TypeOK, WriterInv
<1>2. Len(trail) # 0
  BY <1>1, EmptySeq DEF TypeInv, TypeOK
<1>3. PICK n \in 0 .. Len(trail) : LastSigned(trail, n)
  BY DEF TypeInv, SignInv
<1>4. n # Len(trail)
  BY <1>2, <1>3 DEF LastSigned, TypeInv, WriterInv
<1>5. NextStart(trail) = n
  BY <1>3, NextStartIs DEF TypeInv, TypeOK, SignInv
<1>6. \A k \in 1 .. (Len(trail) - n) : trail[n + k].cur \in Hashes
  BY <1>1, <1>3 DEF TypeInv, KindInv, WriterInv
<1>7. BlockHash(trail, n, Len(trail) - 1) \in Seq(Hashes)
  <2>1. Len(trail) - 1 + 1 - n = Len(trail) - n /\ Len(trail) - n \in Nat
    BY <1>1, <1>3
  <2>2. BlockHash(trail, n, Len(trail) - 1) = [k \in 1 .. (Len(trail) - n) |-> trail[n + k].cur]
    BY <2>1 DEF BlockHash
  <2>3. BlockHash(trail, n, Len(trail) - 1) \in [1 .. (Len(trail) - n) -> Hashes]
    BY <1>6, <2>2
  <2>. QED BY <2>1, <2>3, SeqDef
<1>8. n \in 0 .. (Len(trail) - 1) /\ Len(trail) - 1 \in Nat
  <2>1. Len(trail) \in Nat
    BY <1>1
  <2>. QED BY <2>1, <1>2, <1>3, <1>4
<1>9. BlockSignature(trail) = [start |-> n, end |-> Len(trail) - 1,
                               hash |-> BlockHash(trail, n, Len(trail) - 1)]
  BY <1>5 DEF BlockSignature
<1>. QED
  BY <1>5, <1>7, <1>8, <1>9 DEF Signatures

-----------------------------------------------------------------------------

(* The effect of AppendEvent on the file, element by element.               *)
LEMMA AppendEffect ==
  ASSUME TypeInv, NEW e \in Events, AppendEvent(e)
  PROVE  /\ trail' \in Seq(Lines)
         /\ Len(trail) \in Nat
         /\ DOMAIN trail = 1 .. Len(trail)
         /\ Len(trail') = Len(trail) + 1
         /\ DOMAIN trail' = 1 .. (Len(trail) + 1)
         /\ \A i \in 1 .. Len(trail) : trail'[i] = trail[i]
         /\ trail'[Len(trail) + 1] = EventLine(e)
<1>1. trail \in Seq(Lines) /\ EventLine(e) \in Lines
  BY EventLineType DEF TypeInv, TypeOK
<1>2. trail' = Append(trail, EventLine(e))
  BY DEF AppendEvent
<1>3. trail' \in Seq(Lines) /\ Len(trail') = Len(trail) + 1
  BY <1>1, <1>2, AppendProperties
<1>. QED
  BY <1>1, <1>2, <1>3, AppendProperties, LenProperties

(* The effect of CloseBlock: the last line gains its signature.             *)
LEMMA CloseEffect ==
  ASSUME TypeInv, CloseBlock
  PROVE  /\ ~altered
         /\ trail' \in Seq(Lines)
         /\ Len(trail) \in Nat
         /\ Len(trail) # 0
         /\ DOMAIN trail = 1 .. Len(trail)
         /\ Len(trail') = Len(trail)
         /\ DOMAIN trail' = DOMAIN trail
         /\ \A i \in DOMAIN trail : /\ trail'[i].event = trail[i].event
                                    /\ trail'[i].prev = trail[i].prev
                                    /\ trail'[i].cur = trail[i].cur
         /\ \A i \in 1 .. (Len(trail) - 1) : trail'[i] = trail[i]
         /\ trail'[Len(trail)].sig = BlockSignature(trail)
         /\ BlockSignature(trail) \in Signatures
         /\ BlockSignature(trail) # NoSig
<1>1. ~altered /\ writer = "signing" /\ trail \in Seq(Lines)
  BY DEF TypeInv, TypeOK, WriterInv, CloseBlock
<1>2. BlockSignature(trail) \in Signatures
  BY <1>1, BlockSignatureType
<1>3. BlockSignature(trail) # NoSig
  BY <1>2, AuditAssumption DEF Signatures, Hashes
<1>4. Len(trail) \in Nat /\ DOMAIN trail = 1 .. Len(trail) /\ trail # <<>>
  BY <1>1, LenProperties DEF TypeInv, WriterInv
<1>5. Len(trail) # 0
  BY <1>1, <1>4, EmptySeq
<1>. DEFINE n == Len(trail)
            new == [trail[n] EXCEPT !.sig = BlockSignature(trail)]
<1>6. n \in 1 .. n
  BY <1>4, <1>5
<1>7. trail[n] \in Lines
  BY <1>1, <1>6, ElementOfSeq
<1>8. /\ new \in Lines
      /\ new.sig = BlockSignature(trail)
      /\ new.event = trail[n].event
      /\ new.prev = trail[n].prev
      /\ new.cur = trail[n].cur
  BY <1>2, <1>7 DEF Lines
<1>9. trail' = [trail EXCEPT ![n] = new]
  BY DEF CloseBlock
<1>. HIDE DEF new
<1>10. /\ trail' \in Seq(Lines)
       /\ Len(trail') = n
       /\ \A j \in 1 .. n : trail'[j] = IF j = n THEN new ELSE trail[j]
  BY <1>1, <1>6, <1>8, <1>9, ExceptSeq
<1>11. DOMAIN trail' = DOMAIN trail
  BY <1>4, <1>10, LenProperties
<1>12. trail'[n] = new
  BY <1>6, <1>10
<1>13. \A i \in 1 .. (n - 1) : trail'[i] = trail[i]
  <2>1. \A i \in 1 .. (n - 1) : i \in 1 .. n /\ i # n
    BY <1>6
  <2>. QED BY <1>10, <2>1
<1>14. \A i \in DOMAIN trail : /\ trail'[i].event = trail[i].event
                                /\ trail'[i].prev = trail[i].prev
                                /\ trail'[i].cur = trail[i].cur
  BY <1>4, <1>8, <1>10
<1>. QED
  BY <1>1, <1>2, <1>3, <1>4, <1>5, <1>8, <1>10, <1>11, <1>12, <1>13, <1>14

(* A file that lost line i holds the lines around it, in their order.       *)
LEMMA LoseEffect ==
  ASSUME TypeInv, NEW i \in DOMAIN trail, LoseEvent(i)
  PROVE  /\ trail' \in Seq(Lines)
         /\ Len(trail) \in Nat /\ DOMAIN trail = 1 .. Len(trail)
         /\ DOMAIN trail' = 1 .. (Len(trail) - 1)
         /\ \A j \in 1 .. (Len(trail) - 1) :
              trail'[j] = IF j < i THEN trail[j] ELSE trail[j + 1]
         /\ \A j \in DOMAIN trail' : \E k \in DOMAIN trail : trail'[j] = trail[k]
<1>1. trail \in Seq(Lines) /\ Len(trail) \in Nat /\ DOMAIN trail = 1 .. Len(trail)
  BY LenProperties DEF TypeInv, TypeOK
<1>. DEFINE n == Len(trail)
            front == SubSeq(trail, 1, i - 1)
            back == SubSeq(trail, i + 1, n)
<1>2. n \in Nat /\ i \in 1 .. n
  BY <1>1
<1>3. \A k \in 1 .. n : trail[k] \in Lines
  BY <1>1, ElementOfSeq
<1>4. /\ front \in Seq(Lines)
      /\ Len(front) = i - 1
      /\ \A j \in 1 .. (i - 1) : front[j] = trail[j]
  <2>1. \A j \in 1 .. (i - 1) : trail[j] \in Lines
    BY <1>2, <1>3
  <2>2. /\ front \in Seq(Lines)
        /\ Len(front) = IF 1 <= i - 1 THEN i - 1 - 1 + 1 ELSE 0
        /\ \A j \in 1 .. (i - 1 - 1 + 1) : front[j] = trail[1 + j - 1]
    BY <1>2, <2>1, SubSeqProperties
  <2>. QED
    BY <1>2, <2>2
<1>5. /\ back \in Seq(Lines)
      /\ Len(back) = n - i
      /\ \A j \in 1 .. (n - i) : back[j] = trail[i + j]
  <2>1. \A j \in (i + 1) .. n : trail[j] \in Lines
    BY <1>2, <1>3
  <2>2. /\ back \in Seq(Lines)
        /\ Len(back) = IF i + 1 <= n THEN n - (i + 1) + 1 ELSE 0
        /\ \A j \in 1 .. (n - (i + 1) + 1) : back[j] = trail[i + 1 + j - 1]
    BY <1>2, <2>1, SubSeqProperties
  <2>. QED
    BY <1>2, <2>2
<1>6. trail' = front \o back
  BY DEF LoseEvent
<1>. HIDE DEF front, back, n
<1>7. /\ trail' \in Seq(Lines)
      /\ Len(trail') = n - 1
      /\ \A j \in 1 .. (n - 1) : trail'[j] = IF j <= i - 1 THEN front[j] ELSE back[j - (i - 1)]
  <2>1. /\ front \o back \in Seq(Lines)
        /\ Len(front \o back) = Len(front) + Len(back)
        /\ \A j \in 1 .. (Len(front) + Len(back)) : (front \o back)[j] =
               IF j <= Len(front) THEN front[j] ELSE back[j - Len(front)]
    BY <1>4, <1>5, ConcatProperties
  <2>2. Len(front) + Len(back) = n - 1
    BY <1>2, <1>4, <1>5
  <2>. QED
    BY <1>4, <1>6, <2>1, <2>2
<1>8. DOMAIN trail' = 1 .. (n - 1)
  BY <1>7, LenProperties
<1>9. ASSUME NEW j \in 1 .. (n - 1)
      PROVE  trail'[j] = IF j < i THEN trail[j] ELSE trail[j + 1]
  <2>1. CASE j <= i - 1
    <3>1. j \in 1 .. (i - 1) /\ j < i
      BY <1>2, <2>1
    <3>. QED BY <1>4, <1>7, <2>1, <3>1
  <2>2. CASE ~(j <= i - 1)
    <3>1. /\ j - (i - 1) \in 1 .. (n - i) /\ i + (j - (i - 1)) = j + 1
          /\ ~(j < i)
      BY <1>2, <2>2
    <3>2. trail'[j] = trail[j + 1]
      BY <1>5, <1>7, <2>2, <3>1
    <3>. QED BY <3>1, <3>2
  <2>. QED BY <2>1, <2>2
<1>10. ASSUME NEW j \in 1 .. (n - 1) PROVE \E k \in 1 .. n : trail'[j] = trail[k]
  <2>1. j \in 1 .. n /\ j + 1 \in 1 .. n
    BY <1>2
  <2>. QED BY <1>9, <2>1
<1>. QED
  BY <1>1, <1>7, <1>8, <1>9, <1>10 DEF n

-----------------------------------------------------------------------------

LEMMA TypeInit == Init => TypeInv
<1>1. <<>> \in Seq(Lines) /\ Len(<<>>) = 0 /\ DOMAIN <<>> = {}
  BY EmptySeq
<1>2. Init => \E n \in 0 .. Len(trail) : LastSigned(trail, n)
  <2>1. Init => LastSigned(trail, 0)
    BY <1>1 DEF Init, LastSigned
  <2>. QED BY <1>1, <2>1 DEF Init
<1>. QED
  BY <1>1, <1>2 DEF Init, TypeInv, TypeOK, KindInv, WriterInv, SignInv, EndsHere

LEMMA TypeAppend ==
  ASSUME TypeInv, NEW e \in Events, AppendEvent(e)
  PROVE  TypeInv'
<1>1. /\ trail' \in Seq(Lines)
      /\ DOMAIN trail = 1 .. Len(trail)
      /\ Len(trail') = Len(trail) + 1
      /\ DOMAIN trail' = 1 .. (Len(trail) + 1)
      /\ \A i \in 1 .. Len(trail) : trail'[i] = trail[i]
      /\ trail'[Len(trail) + 1] = EventLine(e)
  BY AppendEffect
<1>2. Len(trail) \in Nat
  BY AppendEffect
<1>3. /\ writer = "idle" /\ mode' = mode /\ torn' = torn /\ altered' = altered /\ left' = left
      /\ writer' = IF mode = "plain" THEN "idle" ELSE "signing"
      /\ ~altered
  BY DEF AppendEvent, MayAppend, TypeInv, WriterInv
<1>4. /\ EventLine(e).sig = NoSig
      /\ IF mode = "plain" THEN EventLine(e).cur = NoHash
         ELSE EventLine(e).cur \in Hashes /\ EventLine(e).prev \in Hashes
  BY EventLineType DEF TypeInv
<1>5. \A i \in DOMAIN trail' : i \in 1 .. Len(trail) \/ i = Len(trail) + 1
  BY <1>1, <1>2
<1>6. TypeOK'
  BY <1>1, <1>3 DEF TypeInv, TypeOK
<1>7. KindInv'
  BY <1>1, <1>3, <1>4, <1>5 DEF TypeInv, KindInv
<1>8. WriterInv'
  <2>1. trail' # <<>>
    BY <1>1, <1>2, EmptySeq
  <2>. QED BY <1>1, <1>3, <1>4, <2>1 DEF TypeInv, WriterInv
<1>9. SignInv'
  <2>1. mode' # "sign" => \A i \in DOMAIN trail' : trail'[i].sig = NoSig
    BY <1>1, <1>3, <1>4, <1>5 DEF TypeInv, SignInv
  <2>2. EndsHere(trail')
    BY <1>1, <1>3, <1>4, <1>5 DEF TypeInv, SignInv, EndsHere
  <2>3. PICK n \in 0 .. Len(trail) : LastSigned(trail, n)
    BY <1>3 DEF TypeInv, SignInv
  <2>4. n \in 0 .. Len(trail')
    BY <1>1, <1>2
  <2>5. LastSigned(trail', n)
    <3>1. n # 0 => trail'[n].sig # NoSig
      BY <1>1, <1>2, <2>3 DEF LastSigned
    <3>2. ASSUME NEW j \in (n + 1) .. Len(trail') PROVE trail'[j].sig = NoSig
      <4>1. CASE j = Len(trail) + 1
        BY <1>1, <1>4, <4>1
      <4>2. CASE j # Len(trail) + 1
        <5>1. j \in (n + 1) .. Len(trail) /\ j \in 1 .. Len(trail)
          BY <1>1, <1>2, <4>2
        <5>. QED BY <1>1, <2>3, <5>1 DEF LastSigned
      <4>. QED BY <4>1, <4>2
    <3>. QED BY <3>1, <3>2 DEF LastSigned
  <2>. QED BY <2>1, <2>2, <2>4, <2>5 DEF SignInv
<1>. QED BY <1>6, <1>7, <1>8, <1>9 DEF TypeInv

LEMMA TypeClose ==
  ASSUME TypeInv, CloseBlock
  PROVE  TypeInv'
<1>1. /\ ~altered
      /\ trail' \in Seq(Lines)
      /\ Len(trail) # 0
      /\ DOMAIN trail = 1 .. Len(trail)
      /\ Len(trail') = Len(trail)
      /\ DOMAIN trail' = DOMAIN trail
      /\ \A i \in DOMAIN trail : trail'[i].prev = trail[i].prev /\ trail'[i].cur = trail[i].cur
      /\ \A i \in 1 .. (Len(trail) - 1) : trail'[i] = trail[i]
      /\ trail'[Len(trail)].sig = BlockSignature(trail)
      /\ BlockSignature(trail) # NoSig
  BY CloseEffect
<1>2. Len(trail) \in Nat
  BY CloseEffect
<1>3. /\ mode' = mode /\ torn' = torn /\ altered' = altered /\ left' = left /\ writer' = "idle"
      /\ mode = "sign"
  BY DEF CloseBlock, ShouldCloseBlock
<1>4. \A i \in DOMAIN trail : i \in 1 .. (Len(trail) - 1) \/ i = Len(trail)
  BY <1>1, <1>2
<1>5. TypeOK'
  BY <1>1, <1>3 DEF TypeInv, TypeOK
<1>6. KindInv'
  BY <1>1, <1>3 DEF TypeInv, KindInv
<1>7. WriterInv'
  BY <1>1, <1>3 DEF TypeInv, WriterInv
<1>8. SignInv'
  <2>1. EndsHere(trail')
    <3>1. BlockSignature(trail).end = Len(trail) - 1
      BY DEF BlockSignature
    <3>. QED BY <1>1, <1>4, <3>1 DEF TypeInv, SignInv, EndsHere
  <2>2. LastSigned(trail', Len(trail))
    <3>1. (Len(trail) + 1) .. Len(trail') = {}
      BY <1>1, <1>2
    <3>. QED BY <1>1, <3>1 DEF LastSigned
  <2>3. Len(trail) \in 0 .. Len(trail')
    BY <1>1, <1>2
  <2>. QED BY <1>3, <2>1, <2>2, <2>3 DEF SignInv
<1>. QED BY <1>5, <1>6, <1>7, <1>8 DEF TypeInv

LEMMA TypeAlter ==
  ASSUME TypeInv, NEW i \in DOMAIN trail, NEW e \in Events, AlterEvent(i, e)
  PROVE  TypeInv'
<1>1. trail \in Seq(Lines) /\ DOMAIN trail = 1 .. Len(trail) /\ trail[i] \in Lines
  BY LenProperties, ElementOfSeq DEF TypeInv, TypeOK
<1>2. [trail[i] EXCEPT !.event = e] \in Lines
  BY <1>1 DEF Lines
<1>3. trail' = [trail EXCEPT ![i] = [trail[i] EXCEPT !.event = e]]
  BY DEF AlterEvent
<1>4. trail' \in Seq(Lines) /\ DOMAIN trail' = DOMAIN trail
  BY <1>1, <1>2, <1>3, ExceptSeq
<1>5. \A j \in DOMAIN trail : trail'[j].cur = trail[j].cur /\ trail'[j].prev = trail[j].prev
  BY <1>1, <1>3 DEF Lines
<1>6. mode' = mode /\ torn' = torn /\ altered' = TRUE /\ writer' = "stopped" /\ left' = left
  BY DEF AlterEvent
<1>. QED
  BY <1>4, <1>5, <1>6 DEF TypeInv, TypeOK, KindInv, WriterInv, SignInv

LEMMA TypeLose ==
  ASSUME TypeInv, NEW i \in DOMAIN trail, LoseEvent(i)
  PROVE  TypeInv'
<1>1. /\ trail' \in Seq(Lines)
      /\ \A j \in DOMAIN trail' : \E k \in DOMAIN trail : trail'[j] = trail[k]
  BY LoseEffect
<1>2. mode' = mode /\ torn' = torn /\ altered' = TRUE /\ writer' = "stopped"
  BY DEF LoseEvent
<1>3. left' \subseteq [after : Nat, sig : Signatures]
  <2>1. CASE trail[i].sig = NoSig
    BY <2>1 DEF LoseEvent
  <2>2. CASE trail[i].sig # NoSig
    <3>1. trail \in Seq(Lines) /\ i \in 1 .. Len(trail) /\ Len(trail) \in Nat
      BY LenProperties DEF TypeInv, TypeOK
    <3>2. trail[i] \in Lines /\ i - 1 \in Nat
      BY <3>1, ElementOfSeq
    <3>3. trail[i].sig \in Signatures
      BY <2>2, <3>2 DEF Lines
    <3>4. left' = {[after |-> i - 1, sig |-> trail[i].sig]}
      BY <2>2 DEF LoseEvent
    <3>. QED BY <3>2, <3>3, <3>4
  <2>. QED BY <2>1, <2>2
<1>4. KindInv'
  BY <1>1, <1>2 DEF TypeInv, KindInv
<1>. QED
  BY <1>1, <1>2, <1>3, <1>4 DEF TypeInv, TypeOK, WriterInv, SignInv

(* Steps that leave the lines of the file alone.                            *)
LEMMA TypeQuiet ==
  ASSUME TypeInv, TearEvent \/ KeepBlockOpen \/ TearSignature \/ Stop \/ UNCHANGED vars
  PROVE  TypeInv'
<1>1. trail' = trail /\ mode' = mode /\ altered' = altered /\ left' = left
  BY DEF TearEvent, KeepBlockOpen, TearSignature, Stop, vars
<1>2. torn' \in BOOLEAN /\ writer' \in {"idle", "signing", "stopped"}
  BY DEF TypeInv, TypeOK, TearEvent, KeepBlockOpen, TearSignature, Stop, vars
<1>3. writer' = writer \/ writer' = "stopped" \/ (writer = "signing" /\ writer' = "idle")
  BY DEF TearEvent, KeepBlockOpen, TearSignature, Stop, vars
<1>4. TypeOK' /\ KindInv' /\ SignInv'
  BY <1>1, <1>2 DEF TypeInv, TypeOK, KindInv, SignInv
<1>5. WriterInv'
  BY <1>1, <1>3 DEF TypeInv, WriterInv
<1>. QED BY <1>4, <1>5 DEF TypeInv

LEMMA TypeStep == TypeInv /\ [Next]_vars => TypeInv'
<1>. SUFFICES ASSUME TypeInv, [Next]_vars PROVE TypeInv'
  OBVIOUS
<1>1. ASSUME NEW e \in Events, AppendEvent(e) PROVE TypeInv'
  BY <1>1, TypeAppend
<1>2. CASE CloseBlock
  BY <1>2, TypeClose
<1>3. ASSUME NEW i \in DOMAIN trail, NEW e \in Events, AlterEvent(i, e) PROVE TypeInv'
  BY <1>3, TypeAlter
<1>4. ASSUME NEW i \in DOMAIN trail, LoseEvent(i) PROVE TypeInv'
  BY <1>4, TypeLose
<1>5. CASE TearEvent \/ KeepBlockOpen \/ TearSignature \/ Stop \/ UNCHANGED vars
  BY <1>5, TypeQuiet
<1>. QED
  BY <1>1, <1>2, <1>3, <1>4, <1>5 DEF Next

(* The file holds lines of the shapes the writer can produce, in every      *)
(* state of every run.                                                      *)
THEOREM TypeCorrect == Spec => []TypeOK
<1>1. Spec => []TypeInv
  BY TypeInit, TypeStep, PTL DEF Spec
<1>2. TypeInv => TypeOK
  BY DEF TypeInv
<1>. QED BY <1>1, <1>2, PTL

-----------------------------------------------------------------------------
(* The hash chain.  ChainedTrailVerifies is not inductive: that the new     *)
(* line links to the last one needs that a chained trail holds no signature *)
(* line, and that every line of it carries a hash.                          *)

LEMMA LinkAppend ==
  ASSUME ChainInv, NEW e \in Events, AppendEvent(e)
  PROVE  LinkInv'
<1>1. /\ Len(trail) \in Nat
      /\ DOMAIN trail = 1 .. Len(trail)
      /\ DOMAIN trail' = 1 .. (Len(trail) + 1)
      /\ \A i \in 1 .. Len(trail) : trail'[i] = trail[i]
      /\ trail'[Len(trail) + 1] = EventLine(e)
  BY AppendEffect DEF ChainInv
<1>. SUFFICES ASSUME mode' = "chain", ~altered', NEW i \in DOMAIN trail'
              PROVE  LinkHolds(trail', i)
  BY DEF LinkInv
<1>2. mode = "chain" /\ ~altered
  BY DEF AppendEvent
<1>3. CASE i \in 1 .. Len(trail)
  <2>1. LinkHolds(trail, i)
    BY <1>1, <1>2, <1>3 DEF ChainInv, LinkInv
  <2>2. trail'[i] = trail[i]
    BY <1>1, <1>3
  <2>3. ExpectedPrevious(trail', i) = ExpectedPrevious(trail, i)
    <3>1. i # 1 => i - 1 \in 1 .. Len(trail)
      BY <1>1, <1>3
    <3>. QED BY <1>1, <3>1 DEF ExpectedPrevious
  <2>. QED BY <2>1, <2>2, <2>3 DEF LinkHolds
<1>4. CASE i = Len(trail) + 1
  <2>1. PreviousHash(trail) = ExpectedPrevious(trail', i)
    <3>1. CASE trail = <<>>
      <4>1. i = 1
        BY <1>4, <3>1, EmptySeq
      <4>. QED BY <3>1, <4>1 DEF PreviousHash, ExpectedPrevious
    <3>2. CASE trail # <<>>
      <4>1. Len(trail) # 0
        BY <3>2, EmptySeq DEF ChainInv, TypeInv, TypeOK
      <4>2. Len(trail) \in DOMAIN trail /\ i # 1 /\ i - 1 = Len(trail)
        BY <1>1, <1>4, <4>1
      <4>3. trail[Len(trail)].sig = NoSig
        BY <1>2, <4>2 DEF ChainInv, TypeInv, SignInv
      <4>4. trail'[i - 1] = trail[Len(trail)]
        BY <1>1, <4>2
      <4>. QED BY <3>2, <4>2, <4>3, <4>4 DEF PreviousHash, ExpectedPrevious
    <3>. QED BY <3>1, <3>2
  <2>2. /\ trail'[i].event = e
        /\ trail'[i].prev = PreviousHash(trail)
        /\ trail'[i].cur = EventHash(e, PreviousHash(trail))
    BY <1>1, <1>2, <1>4 DEF EventLine
  <2>. QED BY <2>1, <2>2 DEF LinkHolds
<1>. QED BY <1>1, <1>3, <1>4

LEMMA ChainStep == ChainInv /\ [Next]_vars => ChainInv'
<1>. SUFFICES ASSUME ChainInv, [Next]_vars PROVE ChainInv'
  OBVIOUS
<1>1. TypeInv'
  BY TypeStep DEF ChainInv
<1>2. LinkInv'
  <2>1. ASSUME NEW e \in Events, AppendEvent(e) PROVE LinkInv'
    BY <2>1, LinkAppend
  <2>2. CASE CloseBlock
    BY <2>2 DEF CloseBlock, ShouldCloseBlock, LinkInv
  <2>3. ASSUME NEW i \in DOMAIN trail, NEW e \in Events, AlterEvent(i, e) PROVE LinkInv'
    BY <2>3 DEF AlterEvent, LinkInv
  <2>4. ASSUME NEW i \in DOMAIN trail, LoseEvent(i) PROVE LinkInv'
    BY <2>4 DEF LoseEvent, LinkInv
  <2>5. CASE TearEvent \/ KeepBlockOpen \/ TearSignature \/ Stop \/ UNCHANGED vars
    <3>1. trail' = trail /\ mode' = mode /\ altered' = altered
      BY <2>5 DEF TearEvent, KeepBlockOpen, TearSignature, Stop, vars
    <3>2. \A i : LinkHolds(trail', i) <=> LinkHolds(trail, i)
      BY <3>1 DEF LinkHolds, ExpectedPrevious
    <3>. QED BY <3>1, <3>2 DEF ChainInv, LinkInv
  <2>. QED BY <2>1, <2>2, <2>3, <2>4, <2>5 DEF Next
<1>. QED BY <1>1, <1>2 DEF ChainInv

LEMMA ChainInvariant == Spec => []ChainInv
<1>1. Init => ChainInv
  <2>1. Init => LinkInv
    BY EmptySeq DEF Init, LinkInv
  <2>. QED BY <2>1, TypeInit DEF ChainInv
<1>. QED BY <1>1, ChainStep, PTL DEF Spec

LEMMA ChainImpliesVerifies == ChainInv => ChainedTrailVerifies
<1>. SUFFICES ASSUME ChainInv, mode = "chain", ~altered, trail # <<>>, NEW withKey \in BOOLEAN
              PROVE  Verify(trail, left, torn, withKey) = IF torn THEN "unreadable" ELSE "valid"
  BY DEF ChainedTrailVerifies
<1>1. (\A i \in DOMAIN trail : LinkHolds(trail, i)) /\ SignaturesHold(trail, left)
  BY DEF ChainInv, LinkInv, TypeInv, SignInv, WriterInv, SignaturesHold
<1>2. 1 \in DOMAIN trail
  BY LenProperties, EmptySeq DEF ChainInv, TypeInv, TypeOK
<1>3. trail[1].cur # NoHash
  BY <1>2, AuditAssumption DEF ChainInv, TypeInv, KindInv, Hashes
<1>. QED
  BY <1>1, <1>2, <1>3 DEF Verify

(* An untouched hash-chained trail verifies whenever it is read, for every  *)
(* set of events, in every state of every run.                              *)
THEOREM ChainVerifies == Spec => []ChainedTrailVerifies
  BY ChainInvariant, ChainImpliesVerifies, PTL

-----------------------------------------------------------------------------
(* Block signatures.  The strengthening is TypeInv: the last signature is   *)
(* what NextStart computes, and every signature ends at its own line.       *)

BlockInv == TypeInv /\ BlocksTile /\ SignaturesVerify

(* A block hash depends on the current_hash fields of its own range only.   *)
LEMMA BlockHashLocal ==
  ASSUME NEW s, NEW t, NEW a \in Nat, NEW b \in Nat,
         \A k \in (a + 1) .. (b + 1) : s[k].cur = t[k].cur
  PROVE  BlockHash(s, a, b) = BlockHash(t, a, b)
<1>1. \A k \in 1 .. (b + 1 - a) : a + k \in (a + 1) .. (b + 1)
  OBVIOUS
<1>2. \A k \in 1 .. (b + 1 - a) : s[a + k].cur = t[a + k].cur
  BY <1>1
<1>. QED BY <1>2 DEF BlockHash

LEMMA BlockAppend ==
  ASSUME BlockInv, NEW e \in Events, AppendEvent(e)
  PROVE  BlocksTile' /\ SignaturesVerify'
<1>1. /\ Len(trail) \in Nat
      /\ DOMAIN trail = 1 .. Len(trail)
      /\ DOMAIN trail' = 1 .. (Len(trail) + 1)
      /\ \A i \in 1 .. Len(trail) : trail'[i] = trail[i]
      /\ trail'[Len(trail) + 1] = EventLine(e)
  BY AppendEffect DEF BlockInv
<1>2. ~altered
  BY DEF AppendEvent, MayAppend, BlockInv, TypeInv, WriterInv
<1>3. EventLine(e).sig = NoSig
  BY EventLineType DEF BlockInv, TypeInv
<1>4. ASSUME NEW i \in DOMAIN trail', Signed(trail', i)
      PROVE  /\ i \in DOMAIN trail
             /\ Signed(trail, i)
             /\ trail'[i] = trail[i]
  <2>1. i # Len(trail) + 1
    BY <1>1, <1>3, <1>4 DEF Signed
  <2>2. i \in 1 .. Len(trail)
    BY <1>1, <2>1
  <2>. QED BY <1>1, <1>4, <2>2 DEF Signed
<1>5. \A i \in DOMAIN trail : trail'[i] = trail[i] /\ (Signed(trail', i) <=> Signed(trail, i))
  BY <1>1 DEF Signed
<1>6. ASSUME NEW i \in DOMAIN trail, Signed(trail, i)
      PROVE  /\ trail[i].sig.end = i - 1
             /\ trail[i].sig.start \in Nat
             /\ trail[i].sig.start <= i - 1
             /\ \A j \in 1 .. (i - 1) : Signed(trail, j) => j <= trail[i].sig.start
             /\ trail[i].sig.start # 0 => Signed(trail, trail[i].sig.start)
             /\ trail[i].sig.hash = BlockHash(trail, trail[i].sig.start, i - 1)
  <2>1. trail[i].sig \in Signatures
    <3>1. trail[i] \in Lines
      BY <1>1, <1>6, ElementOfSeq DEF BlockInv, TypeInv, TypeOK
    <3>. QED BY <1>6, <3>1 DEF Signed, Lines
  <2>. QED BY <1>2, <1>6, <2>1 DEF BlockInv, BlocksTile, Tiled, SignaturesVerify, SignatureHolds,
              Signed, Signatures
<1>7. BlocksTile'
  <2>. SUFFICES ASSUME NEW i \in DOMAIN trail', Signed(trail', i)
                PROVE  /\ trail'[i].sig.end = i - 1
                       /\ trail'[i].sig.start <= i - 1
                       /\ \A j \in 1 .. (i - 1) : Signed(trail', j) => j <= trail'[i].sig.start
                       /\ trail'[i].sig.start # 0 => Signed(trail', trail'[i].sig.start)
    BY DEF BlocksTile, Tiled
  <2>1. i \in DOMAIN trail /\ Signed(trail, i) /\ trail'[i] = trail[i]
    BY <1>4
  <2>2. \A j \in 1 .. (i - 1) : j \in DOMAIN trail
    BY <1>1, <2>1
  <2>3. trail[i].sig.start # 0 => trail[i].sig.start \in DOMAIN trail
    BY <1>1, <1>6, <2>1
  <2>. QED BY <1>5, <1>6, <2>1, <2>2, <2>3
<1>8. SignaturesVerify'
  <2>. SUFFICES ASSUME NEW i \in DOMAIN trail', Signed(trail', i)
                PROVE  SignatureHolds(trail', i, trail'[i].sig)
    BY DEF SignaturesVerify, SignatureHolds, Signed
  <2>1. i \in DOMAIN trail /\ Signed(trail, i) /\ trail'[i] = trail[i] /\ i - 1 \in Nat
    BY <1>1, <1>4
  <2>. DEFINE a == trail[i].sig.start
  <2>2. a \in Nat /\ a <= i - 1 /\ trail[i].sig.end = i - 1
    BY <1>6, <2>1
  <2>3. \A k \in (a + 1) .. (i - 1 + 1) : trail'[k].cur = trail[k].cur
    BY <1>1, <2>1, <2>2
  <2>4. BlockHash(trail', a, i - 1) = BlockHash(trail, a, i - 1)
    BY <2>1, <2>2, <2>3, BlockHashLocal
  <2>5. trail[i].sig.hash = BlockHash(trail, a, i - 1)
    BY <1>6, <2>1
  <2>6. i - 1 < i
    BY <1>1, <2>1
  <2>. QED BY <2>1, <2>2, <2>4, <2>5, <2>6 DEF SignatureHolds
<1>. QED BY <1>7, <1>8

LEMMA BlockClose ==
  ASSUME BlockInv, CloseBlock
  PROVE  BlocksTile' /\ SignaturesVerify'
<1>. DEFINE n == Len(trail)
            a == NextStart(trail)
<1>1. /\ ~altered
      /\ trail \in Seq(Lines)
      /\ n # 0
      /\ DOMAIN trail = 1 .. n
      /\ DOMAIN trail' = DOMAIN trail
      /\ \A i \in DOMAIN trail : trail'[i].cur = trail[i].cur
      /\ \A i \in 1 .. (n - 1) : trail'[i] = trail[i]
      /\ trail'[n].sig = BlockSignature(trail)
      /\ BlockSignature(trail) # NoSig
  BY CloseEffect DEF BlockInv, TypeInv, TypeOK
<1>2. n \in Nat
  BY CloseEffect DEF BlockInv
<1>3. PICK m \in 0 .. n : LastSigned(trail, m)
  BY <1>1 DEF BlockInv, TypeInv, SignInv
<1>4. a = m
  BY <1>1, <1>3, NextStartIs DEF BlockInv, TypeInv, SignInv
<1>5. a \in 0 .. (n - 1)
  BY <1>1, BlockSignatureType DEF BlockInv, CloseBlock
<1>6. /\ BlockSignature(trail).start = a
      /\ BlockSignature(trail).end = n - 1
      /\ BlockSignature(trail).hash = BlockHash(trail, a, n - 1)
  BY DEF BlockSignature
<1>. HIDE DEF n, a
<1>7. \A i \in DOMAIN trail : i \in 1 .. (n - 1) \/ i = n
  BY <1>1, <1>2
<1>8. \A i \in 1 .. (n - 1) : i \in DOMAIN trail /\ (Signed(trail', i) <=> Signed(trail, i))
  BY <1>1, <1>2 DEF Signed
<1>9. ASSUME NEW i \in DOMAIN trail, Signed(trail, i)
      PROVE  /\ trail[i].sig.end = i - 1
             /\ trail[i].sig.start \in Nat
             /\ trail[i].sig.start <= i - 1
             /\ \A j \in 1 .. (i - 1) : Signed(trail, j) => j <= trail[i].sig.start
             /\ trail[i].sig.start # 0 => Signed(trail, trail[i].sig.start)
             /\ trail[i].sig.hash = BlockHash(trail, trail[i].sig.start, i - 1)
  <2>1. trail[i].sig \in Signatures
    <3>1. trail[i] \in Lines
      BY <1>1, <1>9, ElementOfSeq DEF n
    <3>. QED BY <1>9, <3>1 DEF Signed, Lines
  <2>. QED BY <1>1, <1>9, <2>1 DEF BlockInv, BlocksTile, Tiled, SignaturesVerify, SignatureHolds,
              Signed, Signatures
<1>10. BlocksTile'
  <2>. SUFFICES ASSUME NEW i \in DOMAIN trail', Signed(trail', i)
                PROVE  /\ trail'[i].sig.end = i - 1
                       /\ trail'[i].sig.start <= i - 1
                       /\ \A j \in 1 .. (i - 1) : Signed(trail', j) => j <= trail'[i].sig.start
                       /\ trail'[i].sig.start # 0 => Signed(trail', trail'[i].sig.start)
    BY DEF BlocksTile, Tiled
  <2>1. CASE i = n
    <3>1. \A j \in 1 .. (n - 1) : Signed(trail, j) => j <= m
      <4>1. \A j \in 1 .. (n - 1) : j > m => j \in (m + 1) .. n
        BY <1>2, <1>3
      <4>2. \A j \in (m + 1) .. n : ~Signed(trail, j)
        BY <1>3 DEF LastSigned, Signed, n
      <4>. QED BY <1>2, <1>3, <4>1, <4>2
    <3>2. m # 0 => Signed(trail, m) /\ m \in 1 .. (n - 1)
      BY <1>2, <1>3, <1>4, <1>5 DEF LastSigned, Signed
    <3>3. trail'[i].sig.end = i - 1 /\ trail'[i].sig.start = m
      BY <1>1, <1>4, <1>6, <2>1
    <3>4. m <= n - 1
      BY <1>2, <1>4, <1>5
    <3>5. m # 0 => Signed(trail', m)
      BY <1>8, <3>2
    <3>. QED BY <1>8, <2>1, <3>1, <3>3, <3>4, <3>5
  <2>2. CASE i \in 1 .. (n - 1)
    <3>1. i \in DOMAIN trail /\ Signed(trail, i) /\ trail'[i] = trail[i]
      BY <1>1, <1>8, <2>2
    <3>2. \A j \in 1 .. (i - 1) : j \in 1 .. (n - 1)
      BY <1>2, <2>2
    <3>3. trail[i].sig.start # 0 => trail[i].sig.start \in 1 .. (n - 1)
      BY <1>2, <1>9, <2>2, <3>1
    <3>. QED BY <1>8, <1>9, <3>1, <3>2, <3>3
  <2>. QED BY <1>1, <1>7, <2>1, <2>2
<1>11. SignaturesVerify'
  <2>. SUFFICES ASSUME NEW i \in DOMAIN trail', Signed(trail', i)
                PROVE  SignatureHolds(trail', i, trail'[i].sig)
    BY DEF SignaturesVerify, SignatureHolds, Signed
  <2>1. \A x \in Nat : x <= i - 1 =>
          BlockHash(trail', x, i - 1) = BlockHash(trail, x, i - 1)
    <3>1. i - 1 \in Nat /\ \A x \in Nat : \A k \in (x + 1) .. (i - 1 + 1) : k \in DOMAIN trail
      BY <1>1, <1>2
    <3>. QED BY <1>1, <3>1, BlockHashLocal
  <2>2. i - 1 < i
    BY <1>1, <1>2
  <2>3. CASE i = n
    BY <1>1, <1>2, <1>5, <1>6, <2>1, <2>2, <2>3 DEF SignatureHolds
  <2>4. CASE i \in 1 .. (n - 1)
    BY <1>1, <1>8, <1>9, <2>1, <2>2, <2>4 DEF SignatureHolds
  <2>. QED BY <1>1, <1>7, <2>3, <2>4
<1>. QED BY <1>10, <1>11

LEMMA BlockStep == BlockInv /\ [Next]_vars => BlockInv'
<1>. SUFFICES ASSUME BlockInv, [Next]_vars PROVE BlockInv'
  OBVIOUS
<1>1. TypeInv'
  BY TypeStep DEF BlockInv
<1>2. BlocksTile' /\ SignaturesVerify'
  <2>1. ASSUME NEW e \in Events, AppendEvent(e) PROVE BlocksTile' /\ SignaturesVerify'
    BY <2>1, BlockAppend
  <2>2. CASE CloseBlock
    BY <2>2, BlockClose
  <2>3. ASSUME NEW i \in DOMAIN trail, NEW e \in Events, AlterEvent(i, e)
        PROVE  BlocksTile' /\ SignaturesVerify'
    BY <2>3 DEF AlterEvent, BlocksTile, SignaturesVerify
  <2>4. ASSUME NEW i \in DOMAIN trail, LoseEvent(i) PROVE BlocksTile' /\ SignaturesVerify'
    BY <2>4 DEF LoseEvent, BlocksTile, SignaturesVerify
  <2>5. CASE TearEvent \/ KeepBlockOpen \/ TearSignature \/ Stop \/ UNCHANGED vars
    <3>1. trail' = trail /\ altered' = altered
      BY <2>5 DEF TearEvent, KeepBlockOpen, TearSignature, Stop, vars
    <3>. QED BY <3>1 DEF BlockInv, BlocksTile, Tiled, SignaturesVerify, Signed, SignatureHolds, BlockHash
  <2>. QED BY <2>1, <2>2, <2>3, <2>4, <2>5 DEF Next
<1>. QED BY <1>1, <1>2 DEF BlockInv

LEMMA BlockInvariant == Spec => []BlockInv
<1>1. Init => BlocksTile /\ SignaturesVerify
  BY EmptySeq DEF Init, BlocksTile, Tiled, SignaturesVerify
<1>. QED BY <1>1, TypeInit, BlockStep, PTL DEF Spec, BlockInv

(* Signature blocks cover the events without a gap and without an overlap,  *)
(* and every signature line keeps passing the verifier's range and hash     *)
(* checks, for every block size and every choice of terminal events.        *)
THEOREM BlocksHold == Spec => []SignedBlocks
<1>1. BlockInv => SignedBlocks
  BY DEF BlockInv, SignedBlocks
<1>. QED BY <1>1, BlockInvariant, PTL

-----------------------------------------------------------------------------
(* Alterations.  What the verifier compares with is written from the last   *)
(* line only, so a removed line could pass unnoticed where the hash starts  *)
(* anew after a signature; that it does not rests on when blocks close, and *)
(* where the signature line itself follows, on the end of its block.        *)

(* The hash read back for line i: none after a signature line.              *)
ReadBack(tr, i) == IF i = 1 \/ tr[i - 1].sig # NoSig THEN Genesis ELSE tr[i - 1].cur

HashedInv ==
  mode # "plain" /\ ~altered =>
    \A i \in DOMAIN trail :
      /\ trail[i].prev = ReadBack(trail, i)
      /\ trail[i].cur = EventHash(trail[i].event, trail[i].prev)

(* A line whose block was left open neither filled it nor was terminal.     *)
OpenInv ==
  mode = "sign" /\ ~altered =>
    \A i \in DOMAIN trail :
      trail[i].sig = NoSig /\ (i < Len(trail) \/ writer = "idle") =>
        BlockSize > 1 /\ trail[i].event \notin Terminal

(* A block of one line was closed by that line.                             *)
ShortInv ==
  mode = "sign" /\ ~altered =>
    \A i \in DOMAIN trail :
      trail[i].sig # NoSig /\ trail[i].prev = Genesis =>
        BlockSize = 1 \/ trail[i].event \in Terminal

(* A link is broken, or a signature line stands before the end of its block.*)
BrokenInv ==
  altered /\ mode # "plain" =>
    (\E i \in DOMAIN trail : ~LinkHolds(trail, i)) \/ (\E l \in left : ~(l.sig.end < l.after))

AlterInv == TypeInv /\ HashedInv /\ OpenInv /\ ShortInv /\ BrokenInv

(* Hashing lengthens, and different events or hashes hash differently.      *)
LEMMA HashingIsInjective ==
  ASSUME NEW e \in Events, NEW f \in Events, NEW h \in Hashes, NEW k \in Hashes
  PROVE  /\ EventHash(e, h) \in Hashes /\ EventHash(e, h) # Genesis /\ EventHash(e, h) # h
         /\ EventHash(e, h) = EventHash(f, k) => e = f /\ h = k
<1>1. /\ Append(h, e) \in Seq(Events) /\ Append(h, e) # <<>>
      /\ Len(Append(h, e)) = Len(h) + 1 /\ Len(h) \in Nat
  BY AppendProperties, LenProperties DEF Hashes
<1>2. Append(h, e) # h
  BY <1>1
<1>3. Append(h, e) = Append(k, f) => h = k /\ e = f
  BY AppendInjective DEF Hashes
<1>. QED BY <1>1, <1>2, <1>3 DEF EventHash, Genesis, Hashes

LEMMA EventIsEvent == ASSUME TypeOK, NEW i \in DOMAIN trail PROVE trail[i].event \in Events
<1>1. trail \in Seq(Lines) /\ DOMAIN trail = 1 .. Len(trail)
  BY LenProperties DEF TypeOK
<1>2. trail[i] \in Lines
  BY <1>1, ElementOfSeq
<1>. QED BY <1>2 DEF Lines

LEMMA AlterAppend ==
  ASSUME AlterInv, NEW e \in Events, AppendEvent(e)
  PROVE  HashedInv' /\ OpenInv' /\ ShortInv' /\ BrokenInv'
<1>1. /\ Len(trail) \in Nat
      /\ DOMAIN trail = 1 .. Len(trail)
      /\ Len(trail') = Len(trail) + 1
      /\ DOMAIN trail' = 1 .. (Len(trail) + 1)
      /\ \A i \in 1 .. Len(trail) : trail'[i] = trail[i]
      /\ trail'[Len(trail) + 1] = EventLine(e)
  BY AppendEffect DEF AlterInv
<1>. DEFINE n == Len(trail)
<1>2. /\ ~altered /\ ~altered' /\ mode' = mode /\ writer = "idle"
      /\ mode = "sign" => writer' # "idle"
  BY DEF AppendEvent, MayAppend, AlterInv, TypeInv, WriterInv
<1>3. EventLine(e).sig = NoSig /\ EventLine(e).event = e
  BY EventLineType DEF AlterInv, TypeInv
<1>4. \A i \in DOMAIN trail' : i \in 1 .. n \/ i = n + 1
  BY <1>1
<1>5. \A i \in 1 .. (n + 1) : ReadBack(trail', i) = ReadBack(trail, i)
  <2>1. \A i \in 1 .. (n + 1) : i = 1 \/ i - 1 \in 1 .. n
    BY <1>1
  <2>. QED BY <1>1, <2>1 DEF ReadBack
<1>6. HashedInv'
  <2>. SUFFICES ASSUME mode # "plain", NEW i \in DOMAIN trail'
                PROVE  /\ trail'[i].prev = ReadBack(trail', i)
                       /\ trail'[i].cur = EventHash(trail'[i].event, trail'[i].prev)
    BY <1>2 DEF HashedInv
  <2>1. CASE i \in 1 .. n
    BY <1>1, <1>2, <1>5, <2>1 DEF AlterInv, HashedInv
  <2>2. CASE i = n + 1
    <3>1. PreviousHash(trail) = ReadBack(trail, n + 1)
      BY <1>1, EmptySeq DEF PreviousHash, ReadBack, AlterInv, TypeInv, TypeOK
    <3>2. /\ EventLine(e).prev = PreviousHash(trail)
          /\ EventLine(e).cur = EventHash(e, PreviousHash(trail))
      BY DEF EventLine
    <3>. QED BY <1>1, <1>3, <1>5, <2>2, <3>1, <3>2
  <2>. QED BY <1>4, <2>1, <2>2
<1>7. OpenInv'
  <2>. SUFFICES ASSUME mode = "sign", NEW i \in DOMAIN trail', trail'[i].sig = NoSig, i < Len(trail')
                PROVE  BlockSize > 1 /\ trail'[i].event \notin Terminal
    BY <1>2 DEF OpenInv
  <2>1. i \in 1 .. n
    BY <1>1
  <2>. QED BY <1>1, <1>2, <2>1 DEF AlterInv, OpenInv
<1>8. ShortInv'
  BY <1>1, <1>2, <1>3, <1>4 DEF AlterInv, ShortInv
<1>. QED BY <1>2, <1>6, <1>7, <1>8 DEF BrokenInv

LEMMA AlterClose ==
  ASSUME AlterInv, CloseBlock
  PROVE  HashedInv' /\ OpenInv' /\ ShortInv' /\ BrokenInv'
<1>. DEFINE n == Len(trail)
<1>1. /\ ~altered
      /\ trail \in Seq(Lines)
      /\ n \in Nat /\ n # 0
      /\ DOMAIN trail = 1 .. n
      /\ Len(trail') = n
      /\ DOMAIN trail' = DOMAIN trail
      /\ \A i \in DOMAIN trail : /\ trail'[i].event = trail[i].event
                                 /\ trail'[i].prev = trail[i].prev
                                 /\ trail'[i].cur = trail[i].cur
      /\ \A i \in 1 .. (n - 1) : trail'[i] = trail[i]
      /\ trail'[n].sig = BlockSignature(trail) /\ BlockSignature(trail) # NoSig
  BY CloseEffect DEF AlterInv, TypeInv, TypeOK
<1>2. /\ mode' = mode /\ altered' = altered /\ mode = "sign" /\ ShouldCloseBlock(trail)
      /\ trail[n].sig = NoSig
  BY DEF CloseBlock, ShouldCloseBlock, AlterInv, TypeInv, WriterInv
<1>3. \A i \in DOMAIN trail : i \in 1 .. (n - 1) \/ i = n
  BY <1>1
<1>4. HashedInv'
  <2>1. \A i \in DOMAIN trail : i = 1 \/ i - 1 \in 1 .. (n - 1)
    BY <1>1
  <2>2. \A i \in DOMAIN trail : ReadBack(trail', i) = ReadBack(trail, i)
    BY <1>1, <2>1 DEF ReadBack
  <2>. QED BY <1>1, <1>2, <2>2 DEF AlterInv, HashedInv
<1>5. OpenInv'
  <2>. SUFFICES ASSUME NEW i \in DOMAIN trail', trail'[i].sig = NoSig
                PROVE  BlockSize > 1 /\ trail'[i].event \notin Terminal
    BY <1>2 DEF OpenInv
  <2>1. i \in 1 .. (n - 1) /\ i < n
    BY <1>1, <1>3
  <2>. QED BY <1>1, <1>2, <2>1 DEF AlterInv, OpenInv
<1>6. ASSUME trail[n].prev = Genesis
      PROVE  BlockSize = 1 \/ trail[n].event \in Terminal
  <2>1. n = 1 \/ trail[n - 1].sig # NoSig
    <3>1. SUFFICES ASSUME n # 1, trail[n - 1].sig = NoSig PROVE FALSE
      OBVIOUS
    <3>2. n - 1 \in DOMAIN trail /\ n \in DOMAIN trail
      BY <1>1, <3>1
    <3>3. trail[n - 1].cur = Genesis
      BY <1>1, <1>2, <1>6, <3>1, <3>2 DEF AlterInv, HashedInv, ReadBack
    <3>4. trail[n - 1].cur = EventHash(trail[n - 1].event, trail[n - 1].prev)
      BY <1>1, <1>2, <3>2 DEF AlterInv, HashedInv
    <3>5. trail[n - 1].prev \in Hashes /\ trail[n - 1].event \in Events
      BY <1>2, <3>2, EventIsEvent DEF AlterInv, TypeInv, KindInv
    <3>. QED BY <3>3, <3>4, <3>5, HashingIsInjective
  <2>2. LastSigned(trail, n - 1)
    <3>1. n \in Nat
      BY <1>1
    <3>2. \A j \in (n - 1 + 1) .. n : j = n
      BY <3>1
    <3>3. n - 1 # 0 => trail[n - 1].sig # NoSig
      BY <2>1, <3>1
    <3>. QED BY <1>2, <3>2, <3>3 DEF LastSigned
  <2>3. NextStart(trail) = n - 1
    <3>1. n - 1 \in 0 .. Len(trail)
      BY <1>1
    <3>. QED BY <1>1, <2>2, <3>1, NextStartIs DEF AlterInv, TypeInv, SignInv
  <2>4. n - NextStart(trail) = 1
    BY <1>1, <2>3
  <2>. QED BY <1>2, <2>4, AuditAssumption DEF ShouldCloseBlock
<1>7. ShortInv'
  <2>. SUFFICES ASSUME NEW i \in DOMAIN trail', trail'[i].sig # NoSig, trail'[i].prev = Genesis
                PROVE  BlockSize = 1 \/ trail'[i].event \in Terminal
    BY <1>2 DEF ShortInv
  <2>1. CASE i = n
    BY <1>1, <1>6, <2>1
  <2>2. CASE i \in 1 .. (n - 1)
    BY <1>1, <1>2, <2>2 DEF AlterInv, ShortInv
  <2>. QED BY <1>1, <1>3, <2>1, <2>2
<1>. QED BY <1>1, <1>2, <1>4, <1>5, <1>7 DEF BrokenInv

(* The event of line i no longer hashes to what the line says.              *)
LEMMA AlterChange ==
  ASSUME AlterInv, NEW i \in DOMAIN trail, NEW e \in Events, AlterEvent(i, e)
  PROVE  BrokenInv' /\ altered'
<1>1. altered' /\ ~altered /\ mode' = mode /\ e # trail[i].event
  BY DEF AlterEvent
<1>. SUFFICES ASSUME mode # "plain" PROVE \E j \in DOMAIN trail' : ~LinkHolds(trail', j)
  BY <1>1 DEF BrokenInv
<1>2. trail \in Seq(Lines) /\ DOMAIN trail = 1 .. Len(trail) /\ trail[i] \in Lines
  BY LenProperties, ElementOfSeq DEF AlterInv, TypeInv, TypeOK
<1>3. /\ DOMAIN trail' = DOMAIN trail
      /\ trail'[i].event = e /\ trail'[i].prev = trail[i].prev /\ trail'[i].cur = trail[i].cur
  <2>1. trail' = [trail EXCEPT ![i] = [trail[i] EXCEPT !.event = e]]
    BY DEF AlterEvent
  <2>2. trail'[i] = [trail[i] EXCEPT !.event = e]
    BY <1>2, <2>1
  <2>. QED BY <1>2, <2>1, <2>2 DEF Lines
<1>4. /\ trail[i].cur \in Hashes /\ trail[i].prev \in Hashes /\ trail[i].event \in Events
      /\ trail[i].cur = EventHash(trail[i].event, trail[i].prev)
  BY <1>1, EventIsEvent DEF AlterInv, TypeInv, KindInv, HashedInv
<1>5. trail'[i].cur # EventHash(trail'[i].event, trail'[i].prev)
  BY <1>1, <1>3, <1>4, HashingIsInjective
<1>6. trail'[i].cur # NoHash
  BY <1>3, <1>4, AuditAssumption DEF Hashes
<1>. QED BY <1>3, <1>5, <1>6 DEF LinkHolds

(* The event line after the lost one names the hash of the lost one, and    *)
(* that is not the hash of the line before it; a signature line that stays  *)
(* ends at the lost event.                                                  *)
LEMMA AlterLose ==
  ASSUME AlterInv, NEW i \in DOMAIN trail, LoseEvent(i)
  PROVE  BrokenInv' /\ altered'
<1>1. altered' /\ ~altered /\ mode' = mode
  BY DEF LoseEvent
<1>2. CASE trail[i].sig # NoSig
  <2>1. left' = {[after |-> i - 1, sig |-> trail[i].sig]}
    BY <1>2 DEF LoseEvent
  <2>2. trail[i].sig.end = i - 1
    BY <1>1, <1>2 DEF AlterInv, TypeInv, SignInv, EndsHere
  <2>3. i \in Nat
    BY LenProperties DEF AlterInv, TypeInv, TypeOK
  <2>4. \E l \in left' : ~(l.sig.end < l.after)
    BY <2>1, <2>2, <2>3
  <2>. QED BY <1>1, <2>4 DEF BrokenInv
<1>. SUFFICES ASSUME trail[i].sig = NoSig, mode # "plain" PROVE \E j \in DOMAIN trail' : ~LinkHolds(trail', j)
  BY <1>1, <1>2 DEF BrokenInv
<1>3. i < Len(trail)
  BY DEF LoseEvent
<1>4. /\ Len(trail) \in Nat /\ DOMAIN trail = 1 .. Len(trail)
      /\ DOMAIN trail' = 1 .. (Len(trail) - 1)
      /\ \A j \in 1 .. (Len(trail) - 1) :
           trail'[j] = IF j < i THEN trail[j] ELSE trail[j + 1]
  BY LoseEffect DEF AlterInv
<1>5. i \in DOMAIN trail' /\ trail'[i] = trail[i + 1] /\ i + 1 \in DOMAIN trail
  BY <1>4, <1>3
<1>6. \A j \in DOMAIN trail :
        /\ trail[j].cur \in Hashes /\ trail[j].prev \in Hashes /\ trail[j].event \in Events
        /\ trail[j].prev = ReadBack(trail, j)
        /\ trail[j].cur = EventHash(trail[j].event, trail[j].prev)
  BY <1>1, EventIsEvent DEF AlterInv, TypeInv, KindInv, HashedInv
<1>7. trail'[i].prev = trail[i].cur
  BY <1>1, <1>4, <1>5, <1>6 DEF ReadBack
<1>8. trail'[i].cur # NoHash
  BY <1>5, <1>6, AuditAssumption DEF Hashes
<1>9. CASE i = 1
  <2>1. trail[i].cur # Genesis
    BY <1>6, HashingIsInjective
  <2>. QED BY <1>5, <1>7, <1>8, <1>9, <2>1 DEF LinkHolds, ExpectedPrevious
<1>10. CASE i # 1
  <2>1. i - 1 \in DOMAIN trail /\ i - 1 \in 1 .. (Len(trail) - 1) /\ i - 1 < i
    BY <1>4, <1>10
  <2>2. ExpectedPrevious(trail', i) = trail[i - 1].cur
    BY <1>4, <1>10, <2>1 DEF ExpectedPrevious
  <2>3. trail[i].cur # trail[i - 1].cur
    <3>1. CASE trail[i - 1].sig = NoSig
      <4>1. trail[i].prev = trail[i - 1].cur
        BY <1>6, <1>10, <3>1 DEF ReadBack
      <4>. QED BY <1>6, <4>1, HashingIsInjective
    <3>2. CASE trail[i - 1].sig # NoSig
      <4>1. SUFFICES ASSUME trail[i].cur = trail[i - 1].cur PROVE FALSE
        OBVIOUS
      <4>2. mode = "sign"
        BY <1>1, <2>1, <3>2 DEF AlterInv, TypeInv, SignInv
      <4>3. trail[i].prev = Genesis
        BY <1>6, <3>2 DEF ReadBack
      <4>4. trail[i - 1].prev = Genesis /\ trail[i - 1].event = trail[i].event
        BY <1>6, <2>1, <4>1, <4>3, HashingIsInjective
      <4>5. BlockSize = 1 \/ trail[i].event \in Terminal
        BY <1>1, <2>1, <3>2, <4>2, <4>4 DEF AlterInv, ShortInv
      <4>6. BlockSize > 1 /\ trail[i].event \notin Terminal
        BY <1>1, <1>3, <4>2 DEF AlterInv, OpenInv
      <4>. QED BY <4>5, <4>6
    <3>. QED BY <3>1, <3>2
  <2>. QED BY <1>5, <1>7, <1>8, <2>2, <2>3 DEF LinkHolds
<1>. QED BY <1>9, <1>10

LEMMA AlterStep == AlterInv /\ [Next]_vars => AlterInv'
<1>. SUFFICES ASSUME AlterInv, [Next]_vars PROVE AlterInv'
  OBVIOUS
<1>1. TypeInv'
  BY TypeStep DEF AlterInv
<1>2. HashedInv' /\ OpenInv' /\ ShortInv' /\ BrokenInv'
  <2>1. ASSUME NEW e \in Events, AppendEvent(e)
        PROVE  HashedInv' /\ OpenInv' /\ ShortInv' /\ BrokenInv'
    BY <2>1, AlterAppend
  <2>2. CASE CloseBlock
    BY <2>2, AlterClose
  <2>3. ASSUME NEW i \in DOMAIN trail, NEW e \in Events, AlterEvent(i, e)
        PROVE  HashedInv' /\ OpenInv' /\ ShortInv' /\ BrokenInv'
    BY <2>3, AlterChange DEF HashedInv, OpenInv, ShortInv
  <2>4. ASSUME NEW i \in DOMAIN trail, LoseEvent(i)
        PROVE  HashedInv' /\ OpenInv' /\ ShortInv' /\ BrokenInv'
    BY <2>4, AlterLose DEF HashedInv, OpenInv, ShortInv
  <2>5. ASSUME trail' = trail, altered' = altered, mode' = mode, left' = left,
               writer' # "idle" \/ writer' = writer
        PROVE  HashedInv' /\ OpenInv' /\ ShortInv' /\ BrokenInv'
    BY <2>5 DEF AlterInv, HashedInv, OpenInv, ShortInv, BrokenInv, ReadBack, LinkHolds,
                ExpectedPrevious
  <2>6. CASE TearEvent \/ TearSignature \/ Stop \/ UNCHANGED vars
    BY <2>5, <2>6 DEF TearEvent, TearSignature, Stop, vars
  <2>7. CASE KeepBlockOpen
    <3>1. /\ UNCHANGED <<mode, trail, altered, left>> /\ ~ShouldCloseBlock(trail)
          /\ writer = "signing" /\ ~altered /\ trail # <<>> /\ trail[Len(trail)].sig = NoSig
      BY <2>7 DEF KeepBlockOpen, AlterInv, TypeInv, WriterInv
    <3>2. HashedInv' /\ ShortInv' /\ BrokenInv'
      BY <3>1 DEF AlterInv, HashedInv, ShortInv, BrokenInv, ReadBack, LinkHolds, ExpectedPrevious
    <3>3. Len(trail) \in Nat /\ DOMAIN trail = 1 .. Len(trail)
      BY LenProperties DEF AlterInv, TypeInv, TypeOK
    <3>4. mode = "sign" => BlockSize > 1 /\ trail[Len(trail)].event \notin Terminal
      <4>1. NextStart(trail) \in 0 .. (Len(trail) - 1)
        BY <3>1, BlockSignatureType DEF AlterInv
      <4>2. NextStart(trail) < Len(trail) /\ Len(trail) - NextStart(trail) >= 1
        BY <3>3, <4>1
      <4>. QED BY <3>1, <3>3, <4>1, <4>2, AuditAssumption DEF ShouldCloseBlock
    <3>5. \A i \in DOMAIN trail : i < Len(trail) \/ i = Len(trail)
      BY <3>3
    <3>6. OpenInv'
      BY <3>1, <3>4, <3>5 DEF AlterInv, OpenInv
    <3>. QED BY <3>2, <3>6
  <2>. QED BY <2>1, <2>2, <2>3, <2>4, <2>6, <2>7 DEF Next
<1>. QED BY <1>1, <1>2 DEF AlterInv

(* A trail with a changed or a lost event never passes for a valid one, for *)
(* every set of events, every block size and every choice of the terminal   *)
(* ones: verify_audit_chain_with_pubkey finds a broken link, or no chain;   *)
(* an event lost from before the signature line of its block is found out   *)
(* by that line when the key is given.                                      *)
THEOREM AlterationsDetected == Spec => []AlterationDetected
<1>1. Init => AlterInv
  <2>1. Init => HashedInv /\ OpenInv /\ ShortInv /\ BrokenInv
    BY EmptySeq DEF Init, HashedInv, OpenInv, ShortInv, BrokenInv
  <2>. QED BY <2>1, TypeInit DEF AlterInv
<1>2. AlterInv => AlterationDetected
  <2>1. CASE mode = "plain"
    BY <2>1 DEF AlterInv, TypeInv, KindInv, AlterationDetected, Verify
  <2>2. CASE mode # "plain"
    <3>1. ASSUME AlterInv, altered, NEW withKey \in BOOLEAN, withKey \/ left = {}
          PROVE  Verify(trail, left, torn, withKey) # "valid"
      <4>1. CASE \E i \in DOMAIN trail : ~LinkHolds(trail, i)
        BY <4>1 DEF Verify
      <4>2. CASE \E l \in left : ~(l.sig.end < l.after)
        <5>1. withKey /\ ~SignaturesHold(trail, left)
          BY <3>1, <4>2 DEF SignaturesHold, SignatureHolds
        <5>. QED BY <5>1 DEF Verify
      <4>. QED BY <2>2, <3>1, <4>1, <4>2 DEF AlterInv, BrokenInv
    <3>. QED BY <3>1 DEF AlterationDetected
  <2>. QED BY <2>1, <2>2
<1>. QED BY <1>1, <1>2, AlterStep, PTL DEF Spec

=============================================================================
