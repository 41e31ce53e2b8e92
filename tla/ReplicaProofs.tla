---------------------------- MODULE ReplicaProofs ----------------------------
(***************************************************************************)
(* What the copy holds and what the sync-back leaves of the user's         *)
(* workspace, for every tree with any links, every set of exclusions and   *)
(* any number of changes by the command, by what it leaves behind and by   *)
(* the user.                                                               *)
(***************************************************************************)
EXTENDS Replica, SequenceTheorems, WellFoundedInduction, TLAPS

Phases == {"copy", "run", "ask", "apply", "transfer", "done", "failed"}
Early == {"copy", "run", "ask"}
Types == {"dir", "file", "link"}
Upto(p, n) == SubSeq(p, 1, n)
Onward(p, n) == SubSeq(p, n + 1, Len(p))

-----------------------------------------------------------------------------
(* Numbers                                                                  *)

LEMMA HasLeast ==
  ASSUME NEW T, T \subseteq Nat, T # {}
  PROVE  \E m \in T : \A n \in T : m <= n
<1>1. PICK m \in T : \A n \in T : <<n, m>> \notin OpToRel(<, Nat)
  BY NatLessThanWellFounded, WFMin
<1>2. ASSUME NEW n \in T  PROVE m <= n
  <2>1. m \in Nat /\ n \in Nat /\ <<n, m>> \in Nat \X Nat
    OBVIOUS
  <2>2. ~(n < m)
    BY <1>1, <2>1 DEF OpToRel
  <2>3. QED  BY <2>1, <2>2
<1>3. QED  BY <1>2

LEMMA Climbs ==
  ASSUME NEW a \in Nat, NEW b \in Nat, NEW T, a \in T,
         \A n \in a .. (b - 1) : n \in T => n + 1 \in T
  PROVE  \A n \in a .. b : n \in T
<1> DEFINE missing == {n \in a .. b : n \notin T}
<1>1. SUFFICES ASSUME missing # {}  PROVE FALSE
  OBVIOUS
<1>2. missing \subseteq Nat
  OBVIOUS
<1>3. PICK m \in missing : \A n \in missing : m <= n
  <2> HIDE DEF missing
  <2>1. QED  BY <1>1, <1>2, HasLeast
<1>4. m \in a .. b /\ m # a /\ m \notin T
  OBVIOUS
<1>5. m - 1 \in a .. (b - 1) /\ m - 1 + 1 = m /\ m - 1 \in a .. b
  BY <1>4
<1>6. m - 1 \in T
  <2>1. m - 1 \notin missing
    BY <1>3, <1>4
  <2>2. QED  BY <1>5, <2>1
<1>7. QED  BY <1>4, <1>5, <1>6

-----------------------------------------------------------------------------
(* Paths                                                                    *)

LEMMA UptoOf ==
  ASSUME NEW p \in Seq(Names), NEW n \in 0 .. Len(p)
  PROVE  /\ Upto(p, n) \in Seq(Names) /\ Len(Upto(p, n)) = n
         /\ \A i \in 1 .. n : Upto(p, n)[i] = p[i]
<1>1. \A i \in 1 .. n : p[i] \in Names
  BY ElementOfSeq
<1>2. n \in Int /\ 1 \in Int
  OBVIOUS
<1>3. /\ SubSeq(p, 1, n) \in Seq(Names)
      /\ Len(SubSeq(p, 1, n)) = IF 1 <= n THEN n - 1 + 1 ELSE 0
      /\ \A i \in 1 .. n - 1 + 1 : SubSeq(p, 1, n)[i] = p[1 + i - 1]
  BY <1>1, <1>2, SubSeqProperties
<1>4. QED  BY <1>3, LenProperties DEF Upto

LEMMA UptoAll == \A p \in Seq(Names) : Upto(p, Len(p)) = p /\ Upto(p, 0) = <<>>
<1>1. \A p : SubSeq(p, 1, 0) = <<>>
  <2>1. 0 \in Int /\ 1 \in Int /\ 0 < 1
    OBVIOUS
  <2>2. QED  BY <2>1, SubSeqEmpty
<1>2. QED  BY <1>1, SubSeqFull DEF Upto

LEMMA UptoUpto ==
  ASSUME NEW p \in Seq(Names), NEW n \in 0 .. Len(p), NEW m \in 0 .. n
  PROVE  Upto(Upto(p, n), m) = Upto(p, m)
<1>1. Len(p) \in Nat /\ m \in 0 .. Len(p)
  BY LenProperties
<1>2. /\ Upto(p, n) \in Seq(Names) /\ Len(Upto(p, n)) = n
      /\ \A i \in 1 .. n : Upto(p, n)[i] = p[i]
  BY UptoOf
<1>3. /\ Upto(Upto(p, n), m) \in Seq(Names) /\ Len(Upto(Upto(p, n), m)) = m
      /\ \A i \in 1 .. m : Upto(Upto(p, n), m)[i] = Upto(p, n)[i]
  BY <1>2, UptoOf
<1>4. /\ Upto(p, m) \in Seq(Names) /\ Len(Upto(p, m)) = m
      /\ \A i \in 1 .. m : Upto(p, m)[i] = p[i]
  BY <1>1, UptoOf
<1>5. QED  BY <1>2, <1>3, <1>4, SeqEqual

LEMMA PrefixIsUpto ==
  ASSUME NEW p \in Seq(Names), NEW q \in Seq(Names)
  PROVE  IsPrefix(p, q) <=> Len(p) <= Len(q) /\ p = Upto(q, Len(p))
BY SubSeqFull DEF IsPrefix, Upto

LEMMA PrefixOfSelf == \A p \in Seq(Names) : IsPrefix(p, p)
BY LenProperties DEF IsPrefix

LEMMA FrontIsUpto ==
  ASSUME NEW p \in Seq(Names), p # <<>>
  PROVE  Len(p) - 1 \in 0 .. Len(p) /\ Front(p) = Upto(p, Len(p) - 1)
BY EmptySeq, LenProperties DEF Front, Upto



LEMMA OnwardOf ==
  ASSUME NEW p \in Seq(Names), NEW n \in 0 .. Len(p)
  PROVE  /\ Onward(p, n) \in Seq(Names) /\ Len(Onward(p, n)) = Len(p) - n
         /\ \A i \in 1 .. (Len(p) - n) : Onward(p, n)[i] = p[n + i]
<1>1. Len(p) \in Nat /\ n \in Nat /\ n + 1 \in Int /\ Len(p) \in Int
  BY LenProperties
<1>2. \A i \in (n + 1) .. Len(p) : p[i] \in Names
  <2>1. \A i \in (n + 1) .. Len(p) : i \in 1 .. Len(p)
    BY <1>1
  <2>2. QED  BY <2>1, ElementOfSeq
<1>3. /\ SubSeq(p, n + 1, Len(p)) \in Seq(Names)
      /\ Len(SubSeq(p, n + 1, Len(p))) = IF n + 1 <= Len(p) THEN Len(p) - (n + 1) + 1 ELSE 0
      /\ \A i \in 1 .. Len(p) - (n + 1) + 1 : SubSeq(p, n + 1, Len(p))[i] = p[n + 1 + i - 1]
  BY <1>1, <1>2, SubSeqProperties
<1>4. Len(Onward(p, n)) = Len(p) - n
  BY <1>1, <1>3 DEF Onward
<1>5. \A i \in 1 .. (Len(p) - n) : Onward(p, n)[i] = p[n + i]
  <2>1. \A i \in 1 .. (Len(p) - n) : i \in 1 .. Len(p) - (n + 1) + 1 /\ n + 1 + i - 1 = n + i
    BY <1>1
  <2>2. QED  BY <1>3, <2>1 DEF Onward
<1>6. QED  BY <1>3, <1>4, <1>5 DEF Onward

(* A step along a path                                                      *)
LEMMA OnwardStep ==
  ASSUME NEW p \in Seq(Names), NEW n \in 0 .. (Len(p) - 1)
  PROVE  /\ n \in 0 .. Len(p) /\ n + 1 \in 1 .. Len(p) /\ n + 1 \in 0 .. Len(p)
         /\ Onward(p, n) # <<>> /\ Tail(Onward(p, n)) = Onward(p, n + 1)
         /\ Append(Upto(p, n), Onward(p, n)[1]) = Upto(p, n + 1)
<1>1. /\ Len(p) \in Nat /\ n \in 0 .. Len(p) /\ n + 1 \in 1 .. Len(p) /\ n + 1 \in 0 .. Len(p)
      /\ Len(p) - n \in Nat \ {0} /\ 1 \in 1 .. (Len(p) - n)
  BY LenProperties
<1>2. /\ Onward(p, n) \in Seq(Names) /\ Len(Onward(p, n)) = Len(p) - n
      /\ \A i \in 1 .. (Len(p) - n) : Onward(p, n)[i] = p[n + i]
  BY <1>1, OnwardOf
<1>3. Onward(p, n) # <<>>
  BY <1>1, <1>2, EmptySeq
<1>4. Tail(Onward(p, n)) = Onward(p, n + 1)
  <2>1. /\ Tail(Onward(p, n)) \in Seq(Names) /\ Len(Tail(Onward(p, n))) = Len(p) - n - 1
        /\ \A i \in 1 .. Len(Tail(Onward(p, n))) : Tail(Onward(p, n))[i] = Onward(p, n)[i + 1]
    BY <1>2, <1>3, HeadTailProperties
  <2>2. /\ Onward(p, n + 1) \in Seq(Names) /\ Len(Onward(p, n + 1)) = Len(p) - (n + 1)
        /\ \A i \in 1 .. (Len(p) - (n + 1)) : Onward(p, n + 1)[i] = p[n + 1 + i]
    BY <1>1, OnwardOf
  <2>3. \A i \in 1 .. (Len(p) - (n + 1)) :
          /\ i \in 1 .. (Len(p) - n - 1) /\ i + 1 \in 1 .. (Len(p) - n) /\ n + (i + 1) = n + 1 + i
    BY <1>1
  <2>4. \A i \in 1 .. (Len(p) - (n + 1)) : Tail(Onward(p, n))[i] = Onward(p, n + 1)[i]
    BY <1>2, <2>1, <2>2, <2>3
  <2>5. Len(p) - n - 1 = Len(p) - (n + 1)
    BY <1>1
  <2>6. QED  BY <2>1, <2>2, <2>4, <2>5, SeqEqual
<1>5. Onward(p, n)[1] = p[n + 1] /\ p[n + 1] \in Names
  BY <1>1, <1>2, ElementOfSeq
<1>6. Append(Upto(p, n), p[n + 1]) = Upto(p, n + 1)
  <2>1. /\ Upto(p, n) \in Seq(Names) /\ Len(Upto(p, n)) = n
        /\ \A i \in 1 .. n : Upto(p, n)[i] = p[i]
    BY <1>1, UptoOf
  <2>2. /\ Upto(p, n + 1) \in Seq(Names) /\ Len(Upto(p, n + 1)) = n + 1
        /\ \A i \in 1 .. (n + 1) : Upto(p, n + 1)[i] = p[i]
    BY <1>1, UptoOf
  <2> DEFINE a == Append(Upto(p, n), p[n + 1])
  <2>3. /\ a \in Seq(Names) /\ Len(a) = n + 1 /\ a[n + 1] = p[n + 1]
        /\ \A i \in 1 .. n : a[i] = p[i]
    BY <1>5, <2>1, AppendProperties
  <2> HIDE DEF a
  <2>4. \A i \in 1 .. (n + 1) : a[i] = Upto(p, n + 1)[i]
    BY <1>1, <2>2, <2>3
  <2>5. a = Upto(p, n + 1)
    BY <2>2, <2>3, <2>4, SeqEqual
  <2>6. QED  BY <2>5 DEF a
<1>7. QED  BY <1>1, <1>3, <1>4, <1>5, <1>6

LEMMA OnwardEnds ==
  ASSUME NEW p \in Seq(Names)
  PROVE  /\ Onward(p, 0) = p /\ Onward(p, Len(p)) = <<>>
         /\ \A n \in 0 .. Len(p) : Onward(p, n) = <<>> => n = Len(p)
<1>1. Len(p) \in Nat /\ 0 \in 0 .. Len(p) /\ Len(p) \in 0 .. Len(p)
  BY LenProperties
<1>2. Onward(p, 0) = p
  BY SubSeqFull DEF Onward
<1>3. \A n \in 0 .. Len(p) : Onward(p, n) \in Seq(Names) /\ Len(Onward(p, n)) = Len(p) - n
  BY OnwardOf
<1>4. Onward(p, Len(p)) = <<>>
  <2>1. Onward(p, Len(p)) \in Seq(Names) /\ Len(Onward(p, Len(p))) = 0
    BY <1>1, <1>3
  <2>2. QED  BY <2>1, EmptySeq
<1>5. \A n \in 0 .. Len(p) : Onward(p, n) = <<>> => n = Len(p)
  <2> SUFFICES ASSUME NEW n \in 0 .. Len(p), Onward(p, n) = <<>>  PROVE n = Len(p)
    OBVIOUS
  <2>1. Len(p) - n = 0
    BY <1>3, EmptySeq
  <2>2. QED  BY <1>1, <2>1
<1>6. QED  BY <1>2, <1>4, <1>5

LEMMA LastOf ==
  ASSUME NEW p \in Seq(Names), p # <<>>
  PROVE  /\ Last(p) \in Names /\ Front(p) \in Seq(Names)
         /\ Append(Front(p), Last(p)) = p
<1>1. Len(p) \in Nat \ {0} /\ Len(p) - 1 \in 0 .. (Len(p) - 1) /\ Len(p) - 1 + 1 = Len(p)
  BY EmptySeq
<1>2. Front(p) = Upto(p, Len(p) - 1) /\ Last(p) = p[Len(p)]
  BY FrontIsUpto DEF Last
<1>3. Last(p) \in Names
  BY <1>1, <1>2, ElementOfSeq
<1>4. Append(Upto(p, Len(p) - 1), Onward(p, Len(p) - 1)[1]) = p
  BY <1>1, OnwardStep, UptoAll
<1>5. Onward(p, Len(p) - 1)[1] = p[Len(p)]
  <2>1. Len(p) - 1 \in 0 .. Len(p) /\ 1 \in 1 .. (Len(p) - (Len(p) - 1))
    BY <1>1
  <2>2. Onward(p, Len(p) - 1)[1] = p[Len(p) - 1 + 1]
    BY <2>1, OnwardOf
  <2>3. QED  BY <1>1, <2>2
<1>6. Front(p) \in Seq(Names)
  BY <1>1, <1>2, UptoOf
<1>7. QED  BY <1>2, <1>3, <1>4, <1>5, <1>6

LEMMA AppendEnds ==
  ASSUME NEW s \in Seq(Names), NEW e \in Names
  PROVE  /\ Append(s, e) \in Seq(Names) /\ Append(s, e) # <<>>
         /\ Last(Append(s, e)) = e /\ Front(Append(s, e)) = s
<1> DEFINE a == Append(s, e)
<1>1. /\ a \in Seq(Names) /\ a # <<>> /\ Len(a) = Len(s) + 1 /\ Len(s) \in Nat
      /\ \A i \in 1 .. Len(s) : a[i] = s[i]
      /\ a[Len(s) + 1] = e
  BY AppendProperties, LenProperties
<1> HIDE DEF a
<1>2. Last(a) = e
  BY <1>1 DEF Last
<1>3. Front(a) = s
  <2>1. Len(s) \in 0 .. Len(a) /\ Len(a) - 1 = Len(s)
    BY <1>1
  <2>2. /\ Upto(a, Len(s)) \in Seq(Names) /\ Len(Upto(a, Len(s))) = Len(s)
        /\ \A i \in 1 .. Len(s) : Upto(a, Len(s))[i] = a[i]
    BY <1>1, <2>1, UptoOf
  <2>3. Upto(a, Len(s)) = s
    BY <1>1, <2>2, SeqEqual
  <2>4. QED  BY <1>1, <2>1, <2>3, FrontIsUpto
<1>4. QED  BY <1>1, <1>2, <1>3 DEF a

-----------------------------------------------------------------------------
(* Trees                                                                    *)

Trees == {"source", "copy", "host"}

LEMMA TreeIs == Tree("source") = source /\ Tree("copy") = copy /\ Tree("host") = host
BY DEF Tree

LEMMA TreeOf ==
  ASSUME NEW w, IsTree(w)
  PROVE  /\ DOMAIN w \subseteq Seq(Names) /\ Is(w, <<>>, "dir")
         /\ \A p \in DOMAIN w : \A n \in 0 .. Len(p) - 1 : Is(w, Upto(p, n), "dir")
         /\ \A p \in DOMAIN w : w[p].type \in Types /\ (w[p].type = "link" => w[p].to \in Places)
         /\ w = [p \in DOMAIN w |-> w[p]]
BY DEF IsTree, Upto, Types

LEMMA TreeBy ==
  ASSUME NEW w, w = [p \in DOMAIN w |-> w[p]],
         DOMAIN w \subseteq Seq(Names), Is(w, <<>>, "dir"),
         \A p \in DOMAIN w : \A n \in 0 .. Len(p) - 1 : Is(w, Upto(p, n), "dir"),
         \A p \in DOMAIN w : w[p].type \in Types /\ (w[p].type = "link" => w[p].to \in Places)
  PROVE  IsTree(w)
BY DEF IsTree, Upto, Types

LEMMA TreesPrimed ==
  /\ IsTree(source)' <=> IsTree(source')
  /\ IsTree(copy)' <=> IsTree(copy')
  /\ IsTree(host)' <=> IsTree(host')
BY DEF IsTree, Is, Names, Places

(* The kinds of nodes                                                       *)
LEMMA Kinds ==
  /\ Dir.type = "dir"
  /\ \A t, s : File(t, s).type = "file" /\ File(t, s).text = t /\ File(t, s).stamp = s
  /\ \A t : Link(t).type = "link" /\ Link(t).to = t
  /\ Nothing.type = "none"
BY DEF Dir, File, Link, Nothing

(* A walk, step by step                                                     *)
Setout(t, p) == {[tree |-> t, path |-> <<>>, rest |-> p]}
From(S) == {OnWalk(s) : s \in S}
IsTrack(g, t, p, k) ==
  g = [n \in 0 .. k |-> IF n = 0 THEN Setout(t, p) ELSE From(g[n - 1])]

LEMMA TrackExists == ASSUME NEW t, NEW p, NEW k \in Nat  PROVE \E g : IsTrack(g, t, p, k)
<1> DEFINE T == {n \in Nat : \E g : IsTrack(g, t, p, n)}
<1>1. 0 \in T
  <2>1. IsTrack([n \in 0 .. 0 |-> Setout(t, p)], t, p, 0)
    BY DEF IsTrack
  <2>2. QED  BY <2>1
<1>2. ASSUME NEW n \in 0 .. (k - 1), n \in T  PROVE n + 1 \in T
  <2>1. PICK g : IsTrack(g, t, p, n)
    BY <1>2
  <2> DEFINE h == [i \in 0 .. (n + 1) |-> IF i = n + 1 THEN From(g[n]) ELSE g[i]]
  <2>2. \A i \in 0 .. n : g[i] = IF i = 0 THEN Setout(t, p) ELSE From(g[i - 1])
    BY <2>1 DEF IsTrack
  <2>3. ASSUME NEW i \in 0 .. (n + 1)
        PROVE  h[i] = IF i = 0 THEN Setout(t, p) ELSE From(h[i - 1])
    <3>1. CASE i = n + 1
      <4>1. h[i - 1] = g[n] /\ i # 0
        BY <3>1
      <4>2. QED  BY <3>1, <4>1
    <3>2. CASE i # n + 1
      <4>1. i \in 0 .. n /\ h[i] = g[i]
        BY <3>2
      <4>2. i # 0 => h[i - 1] = g[i - 1]
        BY <4>1
      <4>3. QED  BY <2>2, <4>1, <4>2
    <3>3. QED  BY <3>1, <3>2
  <2>4. IsTrack(h, t, p, n + 1)
    BY <2>3 DEF IsTrack
  <2>5. QED  BY <2>4
<1>3. \A n \in 0 .. k : n \in T
  <2> HIDE DEF T
  <2>1. QED  BY <1>1, <1>2, Climbs
<1>4. QED  BY <1>3

(* The walk ends where so many steps do.                                    *)
Steps(p) == Len(p) + MaxFollowed

LEMMA WalkIsTrack ==
  ASSUME NEW t, NEW p \in Seq(Names)
  PROVE  /\ Steps(p) \in Nat /\ Len(p) \in Nat /\ Len(p) <= Steps(p)
         /\ \E g : /\ WalkEnds(t, p) = g[Steps(p)] /\ g[0] = Setout(t, p)
                  /\ \A n \in 0 .. (Steps(p) - 1) : g[n + 1] = From(g[n])
<1> DEFINE on == CHOOSE g : IsTrack(g, t, p, Steps(p))
<1>1. Steps(p) \in Nat /\ Len(p) \in Nat /\ Len(p) <= Steps(p)
  BY ReplicaAssumption, LenProperties DEF Steps
<1>2. IsTrack(on, t, p, Steps(p))
  BY <1>1, TrackExists
<1>3. WalkEnds(t, p) = on[Steps(p)]
  BY Zenon DEF WalkEnds, IsTrack, Setout, From, Steps
<1>4. \A n \in 0 .. Steps(p) :
        on[n] = IF n = 0 THEN Setout(t, p) ELSE From(on[n - 1])
  BY <1>2 DEF IsTrack
<1> HIDE DEF on
<1>5. on[0] = Setout(t, p)
  <2>1. 0 \in 0 .. Steps(p)
    BY <1>1
  <2>2. QED  BY <1>4, <2>1
<1>6. ASSUME NEW n \in 0 .. (Steps(p) - 1)  PROVE on[n + 1] = From(on[n])
  <2>1. n + 1 \in 0 .. Steps(p) /\ n + 1 # 0 /\ n + 1 - 1 = n
    BY <1>1
  <2>2. QED  BY <1>4, <2>1
<1>7. QED  BY <1>1, <1>3, <1>5, <1>6

(* What holds at the outset and is kept by every step holds at the end.     *)
LEMMA WalkKeeps ==
  ASSUME NEW t, NEW p \in Seq(Names), NEW S,
         Setout(t, p) \subseteq S, \A s \in S : OnWalk(s) \in S
  PROVE  WalkEnds(t, p) \subseteq S
<1>1. PICK g : /\ WalkEnds(t, p) = g[Steps(p)] /\ g[0] = Setout(t, p)
               /\ \A n \in 0 .. (Steps(p) - 1) : g[n + 1] = From(g[n])
  BY WalkIsTrack
<1>2. Steps(p) \in Nat
  BY WalkIsTrack
<1> DEFINE T == {n \in Nat : g[n] \subseteq S}
<1>3. 0 \in T
  BY <1>1
<1>4. ASSUME NEW n \in 0 .. (Steps(p) - 1), n \in T  PROVE n + 1 \in T
  <2>1. g[n + 1] = From(g[n]) /\ g[n] \subseteq S
    BY <1>1, <1>4
  <2>2. g[n + 1] \subseteq S
    BY <2>1 DEF From
  <2>3. QED  BY <2>2
<1>5. Steps(p) \in 0 .. Steps(p)
  BY <1>2
<1>6. \A n \in 0 .. Steps(p) : n \in T
  <2> HIDE DEF T
  <2>1. QED  BY <1>2, <1>3, <1>4, Climbs
<1>7. QED  BY <1>1, <1>5, <1>6

(* Wherever a walk leads, it is in one of the trees.                        *)
TreesStand == IsTree(source) /\ IsTree(copy) /\ IsTree(host)

LEMMA WalkInTrees ==
  ASSUME TreesStand, NEW s, s.tree \in Trees
  PROVE  OnWalk(s).tree \in Trees
<1>1. IsTree(Tree(s.tree))
  BY TreeIs DEF TreesStand, Trees
<1> DEFINE p == Append(s.path, s.rest[1])
<1>2. CASE s.rest = <<>> \/ ~Is(Tree(s.tree), s.path, "dir")
  BY <1>2 DEF OnWalk
<1>3. CASE ~(s.rest = <<>> \/ ~Is(Tree(s.tree), s.path, "dir")) /\ Is(Tree(s.tree), p, "link")
  <2>1. Tree(s.tree)[p].to \in Places
    BY <1>1, <1>3, TreeOf DEF Is
  <2>2. Tree(s.tree)[p].to.tree \in {"own", "source", "host"}
    BY <2>1 DEF Places
  <2>3. OnWalk(s).tree = IF Tree(s.tree)[p].to.tree = "own" THEN s.tree ELSE Tree(s.tree)[p].to.tree
    BY <1>3 DEF OnWalk
  <2>4. QED  BY <2>2, <2>3 DEF Trees
<1>4. CASE ~(s.rest = <<>> \/ ~Is(Tree(s.tree), s.path, "dir")) /\ ~Is(Tree(s.tree), p, "link")
  BY <1>4 DEF OnWalk
<1>5. QED  BY <1>2, <1>3, <1>4

LEMMA FollowedIs ==
  ASSUME TreesStand, NEW t \in Trees, NEW p \in Seq(Names), NEW l \in Followed(t, p)
  PROVE  /\ l.tree \in Trees /\ IsTree(Tree(l.tree)) /\ l.path \in DOMAIN Tree(l.tree)
         /\ l.path \in Seq(Names) /\ l = [tree |-> l.tree, path |-> l.path]
<1>1. PICK g : /\ WalkEnds(t, p) = g[Steps(p)] /\ g[0] = Setout(t, p)
               /\ \A n \in 0 .. (Steps(p) - 1) : g[n + 1] = From(g[n])
  BY WalkIsTrack
<1>2. Steps(p) \in Nat
  BY WalkIsTrack
<1> DEFINE T == {n \in Nat : \A s \in g[n] : s.tree \in Trees}
<1>3. 0 \in T
  BY <1>1 DEF Setout
<1>4. ASSUME NEW n \in 0 .. (Steps(p) - 1), n \in T  PROVE n + 1 \in T
  <2>1. g[n + 1] = From(g[n]) /\ \A s \in g[n] : s.tree \in Trees
    BY <1>1, <1>4
  <2>2. \A s \in g[n + 1] : s.tree \in Trees
    BY <2>1, WalkInTrees DEF From
  <2>3. QED  BY <2>2
<1>5. Steps(p) \in 0 .. Steps(p)
  BY <1>2
<1>6. \A n \in 0 .. Steps(p) : n \in T
  <2> HIDE DEF T
  <2>1. QED  BY <1>2, <1>3, <1>4, Climbs
<1>7. \A s \in WalkEnds(t, p) : s.tree \in Trees
  BY <1>1, <1>5, <1>6
<1>8. PICK s \in WalkEnds(t, p) : Exists(s) /\ l = [tree |-> s.tree, path |-> s.path]
  BY DEF Followed
<1>9. s.tree \in Trees /\ s.path \in DOMAIN Tree(s.tree)
  BY <1>7, <1>8 DEF Exists
<1>10. IsTree(Tree(s.tree))
  BY <1>9, TreeIs DEF TreesStand, Trees
<1>11. s.path \in Seq(Names)
  BY <1>9, <1>10, TreeOf
<1>12. QED  BY <1>8, <1>9, <1>10, <1>11

-----------------------------------------------------------------------------
(* Where there are no links                                                 *)

NoLinks(t, p) == \A n \in 1 .. Len(p) : ~Is(Tree(t), Upto(p, n), "link")
Here(t, p, n) == [tree |-> t, path |-> Upto(p, n), rest |-> Onward(p, n)]

LEMMA SetoutIsHere == ASSUME NEW t, NEW p \in Seq(Names)  PROVE Setout(t, p) = {Here(t, p, 0)}
BY UptoAll, OnwardEnds DEF Setout, Here

LEMMA WalkStraight ==
  ASSUME NEW t, NEW p \in Seq(Names), NoLinks(t, p), NEW n \in 0 .. (Len(p) - 1)
  PROVE  OnWalk(Here(t, p, n)) =
           IF Is(Tree(t), Upto(p, n), "dir") THEN Here(t, p, n + 1) ELSE Here(t, p, n)
<1> DEFINE s == Here(t, p, n)
<1>1. s = Here(t, p, n) /\ s.tree = t /\ s.path = Upto(p, n) /\ s.rest = Onward(p, n)
  BY DEF Here
<1>2. /\ n + 1 \in 1 .. Len(p) /\ Onward(p, n) # <<>> /\ Tail(Onward(p, n)) = Onward(p, n + 1)
      /\ Append(Upto(p, n), Onward(p, n)[1]) = Upto(p, n + 1)
  BY OnwardStep
<1>3. ~Is(Tree(t), Upto(p, n + 1), "link")
  BY <1>2 DEF NoLinks
<1> HIDE DEF s
<1>4. CASE Is(Tree(t), Upto(p, n), "dir")
  BY <1>1, <1>2, <1>3, <1>4 DEF OnWalk, Here
<1>5. CASE ~Is(Tree(t), Upto(p, n), "dir")
  BY <1>1, <1>5 DEF OnWalk
<1>6. QED  BY <1>4, <1>5 DEF s

LEMMA WalkStops ==
  ASSUME NEW t, NEW p \in Seq(Names)
  PROVE  OnWalk(Here(t, p, Len(p))) = Here(t, p, Len(p))
BY OnwardEnds DEF OnWalk, Here

LEMMA StraightFollowed ==
  ASSUME NEW t, NEW p \in Seq(Names), NoLinks(t, p)
  PROVE  Followed(t, p) \subseteq {[tree |-> t, path |-> p]}
<1> DEFINE S == {Here(t, p, n) : n \in 0 .. Len(p)}
<1>1. Len(p) \in Nat /\ 0 \in 0 .. Len(p)
  BY LenProperties
<1>2. Setout(t, p) \subseteq S
  BY <1>1, SetoutIsHere
<1>3. ASSUME NEW s \in S  PROVE OnWalk(s) \in S
  <2>1. PICK n \in 0 .. Len(p) : s = Here(t, p, n)
    OBVIOUS
  <2>2. CASE n = Len(p)
    BY <2>1, <2>2, WalkStops
  <2>3. CASE n # Len(p)
    <3>1. n \in 0 .. (Len(p) - 1) /\ n + 1 \in 0 .. Len(p)
      BY <1>1, <2>3
    <3>2. OnWalk(s) = Here(t, p, n) \/ OnWalk(s) = Here(t, p, n + 1)
      BY <2>1, <3>1, WalkStraight
    <3>3. QED  BY <3>1, <3>2
  <2>4. QED  BY <2>2, <2>3
<1>4. WalkEnds(t, p) \subseteq S
  <2> HIDE DEF S
  <2>1. QED  BY <1>2, <1>3, WalkKeeps
<1>5. ASSUME NEW l \in Followed(t, p)  PROVE l = [tree |-> t, path |-> p]
  <2>1. PICK s \in WalkEnds(t, p) : s.rest = <<>> /\ l = [tree |-> s.tree, path |-> s.path]
    BY DEF Followed
  <2>2. PICK n \in 0 .. Len(p) : s = Here(t, p, n)
    BY <1>4
  <2>3. Onward(p, n) = <<>>
    BY <2>1, <2>2 DEF Here
  <2>4. n = Len(p)
    BY <2>3, OnwardEnds
  <2>5. Upto(p, n) = p
    BY <2>4, UptoAll
  <2>6. QED  BY <2>1, <2>2, <2>5 DEF Here
<1>6. QED  BY <1>5

LEMMA StraightFound ==
  ASSUME NEW t, IsTree(Tree(t)), NEW p \in DOMAIN Tree(t), NoLinks(t, p)
  PROVE  [tree |-> t, path |-> p] \in Followed(t, p)
<1>1. p \in Seq(Names)
  BY TreeOf
<1>2. Len(p) \in Nat /\ Steps(p) \in Nat /\ Len(p) <= Steps(p)
  BY <1>1, WalkIsTrack
<1>3. PICK g : /\ WalkEnds(t, p) = g[Steps(p)] /\ g[0] = Setout(t, p)
               /\ \A n \in 0 .. (Steps(p) - 1) : g[n + 1] = From(g[n])
  BY <1>1, WalkIsTrack
<1> DEFINE T == {n \in Nat : g[n] = {Here(t, p, IF n <= Len(p) THEN n ELSE Len(p))}}
<1>4. 0 \in T
  BY <1>1, <1>2, <1>3, SetoutIsHere
<1>5. ASSUME NEW n \in 0 .. (Steps(p) - 1), n \in T  PROVE n + 1 \in T
  <2>1. CASE n < Len(p)
    <3>1. n \in 0 .. (Len(p) - 1) /\ n <= Len(p) /\ n + 1 <= Len(p) /\ n + 1 \in Nat
      BY <1>2, <2>1
    <3>2. Is(Tree(t), Upto(p, n), "dir")
      BY <3>1, TreeOf
    <3>3. OnWalk(Here(t, p, n)) = Here(t, p, n + 1)
      BY <1>1, <3>1, <3>2, WalkStraight
    <3>4. g[n] = {Here(t, p, n)}
      BY <1>5, <3>1
    <3>5. g[n + 1] = {Here(t, p, n + 1)}
      <4>1. g[n + 1] = From(g[n])
        BY <1>3
      <4>2. QED  BY <3>3, <3>4, <4>1 DEF From
    <3>6. QED  BY <3>1, <3>5
  <2>2. CASE ~(n < Len(p))
    <3>1. n + 1 \in Nat /\ ~(n + 1 <= Len(p)) /\ (IF n <= Len(p) THEN n ELSE Len(p)) = Len(p)
      BY <1>2, <2>2
    <3>2. g[n] = {Here(t, p, Len(p))}
      BY <1>5, <3>1
    <3>3. g[n + 1] = {Here(t, p, Len(p))}
      <4>1. g[n + 1] = From(g[n])
        BY <1>3
      <4>2. QED  BY <1>1, <3>2, <4>1, WalkStops DEF From
    <3>4. QED  BY <3>1, <3>3
  <2>3. QED  BY <2>1, <2>2
<1>6. Steps(p) \in T
  <2>1. \A n \in 0 .. Steps(p) : n \in T
    <3> HIDE DEF T
    <3>1. QED  BY <1>2, <1>4, <1>5, Climbs
  <2>2. Steps(p) \in 0 .. Steps(p)
    BY <1>2
  <2> HIDE DEF T
  <2>3. QED  BY <2>1, <2>2
<1>7. g[Steps(p)] = {Here(t, p, Len(p))}
  <2>1. (IF Steps(p) <= Len(p) THEN Steps(p) ELSE Len(p)) = Len(p)
    BY <1>2
  <2>2. QED  BY <1>6, <2>1
<1>8. Here(t, p, Len(p)) = [tree |-> t, path |-> p, rest |-> <<>>]
  BY <1>1, UptoAll, OnwardEnds DEF Here
<1> DEFINE s == [tree |-> t, path |-> p, rest |-> <<>>]
<1>9. s \in WalkEnds(t, p) /\ s.rest = <<>> /\ Exists(s)
  BY <1>3, <1>7, <1>8 DEF Exists
<1>10. QED  BY <1>9 DEF Followed

LEMMA RootFollowed ==
  ASSUME TreesStand, NEW t \in Trees
  PROVE  FollowedDir(t, <<>>) = {[tree |-> t, path |-> <<>>]}
<1>1. <<>> \in Seq(Names) /\ Len(<<>>) = 0
  BY EmptySeq
<1>2. IsTree(Tree(t))
  BY TreeIs DEF TreesStand, Trees
<1>3. NoLinks(t, <<>>)
  BY <1>1 DEF NoLinks
<1>4. Is(Tree(t), <<>>, "dir")
  BY <1>2, TreeOf
<1>5. Followed(t, <<>>) = {[tree |-> t, path |-> <<>>]}
  BY <1>1, <1>2, <1>3, <1>4, StraightFollowed, StraightFound DEF Is
<1>6. QED  BY <1>4, <1>5 DEF FollowedDir, At, Is

(* A path on whose way there is no link                                     *)
LEMMA WayIsFree ==
  ASSUME NEW t, NEW p \in Seq(Names), ~OnWay(t, p), NEW n \in 0 .. (Len(p) - 1)
  PROVE  Upto(p, n) \in Seq(Names) /\ NoLinks(t, Upto(p, n))
<1>1. n \in 0 .. Len(p) /\ Len(p) \in Nat
  BY LenProperties
<1>2. Upto(p, n) \in Seq(Names) /\ Len(Upto(p, n)) = n
  BY <1>1, UptoOf
<1>3. ASSUME NEW m \in 1 .. n  PROVE ~Is(Tree(t), Upto(Upto(p, n), m), "link")
  <2>1. m \in 0 .. n /\ m \in 1 .. (Len(p) - 1)
    BY <1>1
  <2>2. Upto(Upto(p, n), m) = Upto(p, m)
    BY <1>1, <2>1, UptoUpto
  <2>3. QED  BY <2>1, <2>2 DEF OnWay, Upto
<1>4. QED  BY <1>2, <1>3 DEF NoLinks

LEMMA WayFollowed ==
  ASSUME NEW t, NEW p \in Seq(Names), ~OnWay(t, p), ~Is(Tree(t), p, "link")
  PROVE  NoLinks(t, p)
<1>1. Len(p) \in Nat /\ Upto(p, Len(p)) = p
  BY UptoAll, LenProperties
<1>2. ASSUME NEW n \in 1 .. Len(p)  PROVE ~Is(Tree(t), Upto(p, n), "link")
  <2>1. CASE n = Len(p)
    BY <1>1, <2>1
  <2>2. CASE n # Len(p)
    <3>1. n \in 1 .. (Len(p) - 1)
      BY <1>1, <2>2
    <3>2. QED  BY <3>1 DEF OnWay, Upto
  <2>3. QED  BY <2>1, <2>2
<1>3. QED  BY <1>2 DEF NoLinks

LEMMA PlaceIs ==
  ASSUME TreesStand, NEW t \in Trees, NEW p \in Seq(Names), p # <<>>, NEW l \in Place(t, p)
  PROVE  /\ l.tree \in Trees /\ IsTree(Tree(l.tree))
         /\ l.path \in Seq(Names) /\ l.path # <<>> /\ Last(l.path) = Last(p)
         /\ Is(Tree(l.tree), Front(l.path), "dir")
<1>1. PICK d \in FollowedDir(t, Front(p)) : l = [tree |-> d.tree, path |-> Append(d.path, Last(p))]
  BY DEF Place
<1>2. Front(p) \in Seq(Names) /\ Last(p) \in Names
  BY LastOf
<1>3. /\ d.tree \in Trees /\ IsTree(Tree(d.tree)) /\ d.path \in DOMAIN Tree(d.tree)
      /\ d.path \in Seq(Names)
  BY <1>1, <1>2, FollowedIs DEF FollowedDir
<1>4. Is(Tree(d.tree), d.path, "dir")
  BY <1>1, <1>3 DEF FollowedDir, At, Is
<1>5. QED  BY <1>1, <1>2, <1>3, <1>4, AppendEnds

LEMMA StraightPlace ==
  ASSUME NEW t, NEW p \in Seq(Names), p # <<>>, ~OnWay(t, p)
  PROVE  /\ Place(t, p) \subseteq {[tree |-> t, path |-> p]}
         /\ IsTree(Tree(t)) /\ p \in DOMAIN Tree(t) => [tree |-> t, path |-> p] \in Place(t, p)
<1>1. Len(p) - 1 \in 0 .. (Len(p) - 1) /\ Front(p) = Upto(p, Len(p) - 1)
  BY EmptySeq, FrontIsUpto
<1>2. Front(p) \in Seq(Names) /\ NoLinks(t, Front(p))
  BY <1>1, WayIsFree
<1>3. Append(Front(p), Last(p)) = p
  BY LastOf
<1>4. Followed(t, Front(p)) \subseteq {[tree |-> t, path |-> Front(p)]}
  BY <1>2, StraightFollowed
<1>5. Place(t, p) \subseteq {[tree |-> t, path |-> p]}
  BY <1>3, <1>4 DEF Place, FollowedDir
<1>6. ASSUME IsTree(Tree(t)), p \in DOMAIN Tree(t)
      PROVE  [tree |-> t, path |-> p] \in Place(t, p)
  <2>1. Is(Tree(t), Front(p), "dir")
    BY <1>1, <1>6, TreeOf
  <2>2. [tree |-> t, path |-> Front(p)] \in Followed(t, Front(p))
    BY <1>2, <1>6, <2>1, StraightFound DEF Is
  <2>3. [tree |-> t, path |-> Front(p)] \in FollowedDir(t, Front(p))
    BY <2>1, <2>2 DEF FollowedDir, At, Is
  <2> DEFINE d == [tree |-> t, path |-> Front(p)]
  <2>4. [tree |-> d.tree, path |-> Append(d.path, Last(p))] \in Place(t, p)
    BY <2>3 DEF Place
  <2>5. QED  BY <1>3, <2>4
<1>7. QED  BY <1>5, <1>6

-----------------------------------------------------------------------------
(* Changes of trees                                                         *)

LEMMA PutNode ==
  ASSUME NEW tree, NEW p, NEW node
  PROVE  /\ Put(tree, p, node)[p] = node
         /\ \A q : q \in DOMAIN Put(tree, p, node) <=> q \in DOMAIN tree \/ q = p
         /\ \A q : q \in DOMAIN tree /\ q # p => Put(tree, p, node)[q] = tree[q]
BY DEF Put

LEMMA LessNode ==
  ASSUME NEW tree, NEW gone
  PROVE  /\ \A q : q \in DOMAIN Less(tree, gone) <=> q \in DOMAIN tree /\ q \notin gone
         /\ \A q : q \in DOMAIN tree /\ q \notin gone => Less(tree, gone)[q] = tree[q]
BY DEF Less

LEMMA DropNode ==
  ASSUME NEW tree, NEW p
  PROVE  /\ \A q : q \in DOMAIN Drop(tree, p) <=> q \in DOMAIN tree /\ q # p
         /\ \A q : q \in DOMAIN tree /\ q # p => Drop(tree, p)[q] = tree[q]
BY LessNode DEF Drop

LEMMA WithoutNode ==
  ASSUME NEW tree, NEW p
  PROVE  /\ \A q : q \in DOMAIN Without(tree, p) <=> q \in DOMAIN tree /\ ~IsPrefix(p, q)
         /\ \A q \in DOMAIN Without(tree, p) : Without(tree, p)[q] = tree[q]
BY DEF Without

LEMMA WithNode ==
  ASSUME NEW tree, NEW dirs, dirs \cap DOMAIN tree = {}
  PROVE  /\ \A q : q \in DOMAIN With(tree, dirs) <=> q \in DOMAIN tree \/ q \in dirs
         /\ \A q \in DOMAIN tree : With(tree, dirs)[q] = tree[q]
         /\ \A q \in dirs : With(tree, dirs)[q] = Dir
BY DEF With

LEMMA PutEntry ==
  ASSUME NEW tree, NEW p, NEW node, NEW q
  PROVE  Entry(Put(tree, p, node), q) =
           IF q = p THEN (IF node.type # "dir" THEN node ELSE Nothing) ELSE Entry(tree, q)
BY DEF Entry, Put

LEMMA LessEntry ==
  ASSUME NEW tree, NEW gone, NEW q
  PROVE  Entry(Less(tree, gone), q) = IF q \in gone THEN Nothing ELSE Entry(tree, q)
BY DEF Entry, Less

LEMMA DropEntry ==
  ASSUME NEW tree, NEW p, NEW q
  PROVE  Entry(Drop(tree, p), q) = IF q = p THEN Nothing ELSE Entry(tree, q)
BY DEF Entry, Drop, Less

LEMMA WithEntry ==
  ASSUME NEW tree, NEW dirs, dirs \cap DOMAIN tree = {}, NEW q
  PROVE  Entry(With(tree, dirs), q) = Entry(tree, q)
<1>1. CASE q \in dirs
  <2>1. q \notin DOMAIN tree /\ q \in DOMAIN With(tree, dirs) /\ With(tree, dirs)[q] = Dir
    BY <1>1, WithNode
  <2>2. QED  BY <2>1, Kinds DEF Entry
<1>2. CASE q \notin dirs
  <2>1. /\ q \in DOMAIN With(tree, dirs) <=> q \in DOMAIN tree
        /\ q \in DOMAIN tree => With(tree, dirs)[q] = tree[q]
    BY <1>2, WithNode
  <2>2. QED  BY <2>1 DEF Entry
<1>3. QED  BY <1>1, <1>2

(* What a directory lies in is directories.                                 *)
LEMMA InDirs ==
  ASSUME NEW w, IsTree(w), NEW p \in Seq(Names), p # <<>>, Is(w, Front(p), "dir")
  PROVE  \A n \in 0 .. Len(p) - 1 : Is(w, Upto(p, n), "dir")
<1> SUFFICES ASSUME NEW n \in 0 .. Len(p) - 1  PROVE Is(w, Upto(p, n), "dir")
  OBVIOUS
<1> DEFINE d == Upto(p, Len(p) - 1)
<1>1. Len(p) \in Nat \ {0} /\ Len(p) - 1 \in 0 .. Len(p) /\ Is(w, d, "dir")
  BY EmptySeq, FrontIsUpto
<1>2. Len(d) = Len(p) - 1 /\ d \in DOMAIN w
  BY <1>1, UptoOf DEF Is
<1>3. CASE n = Len(p) - 1
  BY <1>1, <1>3
<1>4. CASE n # Len(p) - 1
  <2>1. n \in 0 .. Len(d) - 1 /\ n \in 0 .. Len(p) - 1
    BY <1>1, <1>2, <1>4
  <2>2. Upto(d, n) = Upto(p, n)
    BY <1>1, <2>1, UptoUpto
  <2>3. QED  BY <1>2, <2>1, <2>2, TreeOf
<1>5. QED  BY <1>3, <1>4

(* Trees stay trees.                                                        *)
LEMMA PutKeepsTree ==
  ASSUME NEW w, IsTree(w), NEW p \in Seq(Names), p # <<>>, Is(w, Front(p), "dir"),
         NEW node, node.type \in Types, node.type = "link" => node.to \in Places,
         Is(w, p, "dir") => node.type = "dir"
  PROVE  IsTree(Put(w, p, node))
<1> DEFINE u == Put(w, p, node)
<1>0. u = [q \in DOMAIN u |-> u[q]]
  BY DEF Put
<1>1. /\ u[p] = node /\ p \in DOMAIN u
      /\ \A q \in DOMAIN u : q \in DOMAIN w \/ q = p
      /\ \A q \in DOMAIN w : q \in DOMAIN u /\ (q # p => u[q] = w[q])
  BY PutNode
<1> HIDE DEF u
<1>2. \A q : Is(w, q, "dir") => Is(u, q, "dir")
  BY <1>1 DEF Is
<1>3. DOMAIN u \subseteq Seq(Names) /\ Is(u, <<>>, "dir")
  BY <1>1, <1>2, TreeOf
<1>4. \A q \in DOMAIN u : \A n \in 0 .. Len(q) - 1 : Is(u, Upto(q, n), "dir")
  BY <1>1, <1>2, InDirs, TreeOf
<1>5. \A q \in DOMAIN u : u[q].type \in Types /\ (u[q].type = "link" => u[q].to \in Places)
  BY <1>1, TreeOf
<1>6. IsTree(u)
  BY <1>0, <1>3, <1>4, <1>5, TreeBy
<1>7. QED  BY <1>6 DEF u

LEMMA LessKeepsTree ==
  ASSUME NEW w, IsTree(w), NEW gone, \A q \in gone : ~Is(w, q, "dir")
  PROVE  IsTree(Less(w, gone))
<1> DEFINE u == Less(w, gone)
<1>0. u = [q \in DOMAIN u |-> u[q]]
  BY DEF Less
<1>1. \A q \in DOMAIN u : q \in DOMAIN w /\ u[q] = w[q]
  BY LessNode
<1>2. \A q : Is(w, q, "dir") => Is(u, q, "dir")
  BY LessNode DEF Is
<1> HIDE DEF u
<1>3. DOMAIN u \subseteq Seq(Names) /\ Is(u, <<>>, "dir")
  BY <1>1, <1>2, TreeOf
<1>4. \A q \in DOMAIN u : \A n \in 0 .. Len(q) - 1 : Is(u, Upto(q, n), "dir")
  BY <1>1, <1>2, TreeOf
<1>5. \A q \in DOMAIN u : u[q].type \in Types /\ (u[q].type = "link" => u[q].to \in Places)
  BY <1>1, TreeOf
<1>6. IsTree(u)
  BY <1>0, <1>3, <1>4, <1>5, TreeBy
<1>7. QED  BY <1>6 DEF u

LEMMA WithoutKeepsTree ==
  ASSUME NEW w, IsTree(w), NEW p \in Seq(Names), p # <<>>
  PROVE  IsTree(Without(w, p))
<1> DEFINE u == Without(w, p)
<1>0. u = [q \in DOMAIN u |-> u[q]]
  BY DEF Without
<1>1. \A q \in DOMAIN u : q \in DOMAIN w /\ u[q] = w[q] /\ ~IsPrefix(p, q)
  BY WithoutNode
<1>2. \A q : q \in DOMAIN w /\ ~IsPrefix(p, q) => q \in DOMAIN u /\ u[q] = w[q]
  BY WithoutNode
<1> HIDE DEF u
<1>3. Len(p) \in Nat \ {0} /\ <<>> \in Seq(Names) /\ Len(<<>>) = 0
  BY EmptySeq
<1>4. ~IsPrefix(p, <<>>)
  <2>1. PICK e \in Seq(Names) : e = <<>>
    BY <1>3
  <2>2. IsPrefix(p, e) => Len(p) <= Len(e)
    BY PrefixIsUpto
  <2>3. QED  BY <1>3, <2>1, <2>2
<1>5. DOMAIN u \subseteq Seq(Names) /\ Is(u, <<>>, "dir")
  BY <1>1, <1>2, <1>4, TreeOf DEF Is
<1>6. ASSUME NEW q \in DOMAIN u, NEW n \in 0 .. Len(q) - 1  PROVE Is(u, Upto(q, n), "dir")
  <2>1. q \in Seq(Names) /\ Is(w, Upto(q, n), "dir") /\ n \in 0 .. Len(q) /\ Len(q) \in Nat
    BY <1>1, <1>5, TreeOf, LenProperties
  <2>2. Upto(q, n) \in Seq(Names) /\ Len(Upto(q, n)) = n
    BY <2>1, UptoOf
  <2>3. ~IsPrefix(p, Upto(q, n))
    <3> SUFFICES ASSUME IsPrefix(p, Upto(q, n))  PROVE FALSE
      OBVIOUS
    <3>1. Len(p) <= n /\ p = Upto(Upto(q, n), Len(p)) /\ Len(p) \in 0 .. n
      BY <1>3, <2>2, PrefixIsUpto
    <3>2. p = Upto(q, Len(p)) /\ Len(p) <= Len(q)
      BY <2>1, <3>1, UptoUpto
    <3>3. QED  BY <1>1, <2>1, <3>2, PrefixIsUpto
  <2>4. QED  BY <1>2, <2>1, <2>3 DEF Is
<1>7. \A q \in DOMAIN u : u[q].type \in Types /\ (u[q].type = "link" => u[q].to \in Places)
  BY <1>1, TreeOf
<1>8. IsTree(u)
  BY <1>0, <1>5, <1>6, <1>7, TreeBy
<1>9. QED  BY <1>8 DEF u

LEMMA WithKeepsTree ==
  ASSUME NEW w, IsTree(w), NEW dirs, dirs \subseteq Seq(Names), dirs \cap DOMAIN w = {},
         \A q \in dirs : \A n \in 0 .. Len(q) - 1 : Upto(q, n) \in dirs \/ Is(w, Upto(q, n), "dir")
  PROVE  IsTree(With(w, dirs))
<1> DEFINE u == With(w, dirs)
<1>0. u = [q \in DOMAIN u |-> u[q]]
  BY DEF With
<1>1. /\ \A q : q \in DOMAIN u <=> q \in DOMAIN w \/ q \in dirs
      /\ \A q \in DOMAIN w : u[q] = w[q]
      /\ \A q \in dirs : u[q] = Dir
  BY WithNode
<1> HIDE DEF u
<1>2. \A q : q \in dirs \/ Is(w, q, "dir") => Is(u, q, "dir")
  BY <1>1, Kinds DEF Is
<1>3. DOMAIN u \subseteq Seq(Names) /\ Is(u, <<>>, "dir")
  BY <1>1, <1>2, TreeOf
<1>4. \A q \in DOMAIN u : \A n \in 0 .. Len(q) - 1 : Is(u, Upto(q, n), "dir")
  BY <1>1, <1>2, TreeOf
<1>5. \A q \in DOMAIN u : u[q].type \in Types /\ (u[q].type = "link" => u[q].to \in Places)
  BY <1>1, TreeOf, Kinds DEF Types
<1>6. IsTree(u)
  BY <1>0, <1>3, <1>4, <1>5, TreeBy
<1>7. QED  BY <1>6 DEF u

-----------------------------------------------------------------------------
(* What the sync-back does to the trees                                     *)

LEMMA ReachIs ==
  ASSUME TreesStand, NEW p \in Seq(Names), p # <<>>
  PROVE  Reach(p) \in 0 .. (Len(p) - 1)
<1>1. Len(p) \in Nat \ {0}
  BY EmptySeq
<1> DEFINE R == {n \in 0 .. (Len(p) - 1) : FollowedDir("source", Upto(p, n)) # {}}
           U == {Len(p) - n : n \in R}
<1>2. 0 \in R
  <2>1. FollowedDir("source", <<>>) # {}
    BY RootFollowed DEF Trees
  <2>2. QED  BY <1>1, <2>1, UptoAll
<1>3. U \subseteq Nat /\ U # {}
  <2>1. \A n \in R : Len(p) - n \in Nat
    BY <1>1
  <2>2. QED  BY <1>2, <2>1
<1>4. PICK u \in U : \A v \in U : u <= v
  <2> HIDE DEF U
  <2>1. QED  BY <1>3, HasLeast
<1>5. PICK k \in R : u = Len(p) - k
  BY <1>4
<1>6. \A m \in (k + 1) .. (Len(p) - 1) : FollowedDir("source", Upto(p, m)) = {}
  <2> SUFFICES ASSUME NEW m \in (k + 1) .. (Len(p) - 1), m \in R  PROVE FALSE
    BY <1>1
  <2>1. Len(p) - k <= Len(p) - m
    BY <1>4, <1>5
  <2>2. QED  BY <1>1, <2>1
<1>7. /\ FollowedDir("source", SubSeq(p, 1, k)) # {}
      /\ \A m \in (k + 1) .. (Len(p) - 1) : FollowedDir("source", SubSeq(p, 1, m)) = {}
  BY <1>5, <1>6 DEF Upto
<1>8. \E n \in 0 .. (Len(p) - 1) :
        /\ FollowedDir("source", SubSeq(p, 1, n)) # {}
        /\ \A m \in (n + 1) .. (Len(p) - 1) : FollowedDir("source", SubSeq(p, 1, m)) = {}
  BY <1>7
<1>9. QED  BY <1>8 DEF Reach

LEMMA JoinedUpto ==
  ASSUME NEW a \in Seq(Names), NEW b \in Seq(Names), NEW n \in 0 .. Len(a) + Len(b)
  PROVE  /\ a \o b \in Seq(Names) /\ Len(a \o b) = Len(a) + Len(b)
         /\ n <= Len(a) => Upto(a \o b, n) = Upto(a, n)
         /\ n > Len(a) => Upto(a \o b, n) = a \o Upto(b, n - Len(a))
<1> DEFINE c == a \o b
<1>1. Len(a) \in Nat /\ Len(b) \in Nat
  BY LenProperties
<1>2. /\ c \in Seq(Names) /\ Len(c) = Len(a) + Len(b)
      /\ \A i \in 1 .. Len(a) + Len(b) : c[i] = IF i <= Len(a) THEN a[i] ELSE b[i - Len(a)]
  BY ConcatProperties
<1> HIDE DEF c
<1>3. /\ Upto(c, n) \in Seq(Names) /\ Len(Upto(c, n)) = n
      /\ \A i \in 1 .. n : Upto(c, n)[i] = c[i]
  BY <1>2, UptoOf
<1>4. ASSUME n <= Len(a)  PROVE Upto(c, n) = Upto(a, n)
  <2>1. n \in 0 .. Len(a)
    BY <1>1, <1>4
  <2>2. /\ Upto(a, n) \in Seq(Names) /\ Len(Upto(a, n)) = n
        /\ \A i \in 1 .. n : Upto(a, n)[i] = a[i]
    BY <2>1, UptoOf
  <2>3. \A i \in 1 .. n : c[i] = a[i]
    BY <1>1, <1>2, <1>4
  <2>4. QED  BY <1>3, <2>2, <2>3, SeqEqual
<1>5. ASSUME n > Len(a)  PROVE Upto(c, n) = a \o Upto(b, n - Len(a))
  <2> DEFINE d == Upto(b, n - Len(a))
  <2>1. n - Len(a) \in 0 .. Len(b)
    BY <1>1, <1>5
  <2>2. /\ d \in Seq(Names) /\ Len(d) = n - Len(a)
        /\ \A i \in 1 .. (n - Len(a)) : d[i] = b[i]
    BY <2>1, UptoOf
  <2> HIDE DEF d
  <2>3. /\ a \o d \in Seq(Names) /\ Len(a \o d) = Len(a) + Len(d)
        /\ \A i \in 1 .. Len(a) + Len(d) : (a \o d)[i] = IF i <= Len(a) THEN a[i] ELSE d[i - Len(a)]
    BY <2>2, ConcatProperties
  <2>4. Len(a \o d) = n
    BY <1>1, <2>2, <2>3
  <2>5. ASSUME NEW i \in 1 .. n  PROVE (a \o d)[i] = Upto(c, n)[i]
    <3>1. i \in 1 .. Len(a) + Len(b) /\ i \in 1 .. Len(a) + Len(d)
      BY <1>1, <2>2
    <3>2. Upto(c, n)[i] = IF i <= Len(a) THEN a[i] ELSE b[i - Len(a)]
      BY <1>2, <1>3, <3>1
    <3>3. CASE i <= Len(a)
      BY <2>3, <3>1, <3>2, <3>3
    <3>4. CASE ~(i <= Len(a))
      <4>1. i - Len(a) \in 1 .. (n - Len(a))
        BY <1>1, <3>4
      <4>2. QED  BY <2>2, <2>3, <3>1, <3>2, <3>4, <4>1
    <3>5. QED  BY <3>3, <3>4
  <2>6. a \o d = Upto(c, n)
    BY <1>3, <2>3, <2>4, <2>5, SeqEqual
  <2>7. QED  BY <2>6 DEF d
<1>6. QED  BY <1>2, <1>4, <1>5 DEF c

Middle(p, m, n) == SubSeq(p, m + 1, n)

LEMMA MiddleOf ==
  ASSUME NEW p \in Seq(Names), NEW m \in 0 .. Len(p), NEW n \in m .. Len(p)
  PROVE  /\ Middle(p, m, n) \in Seq(Names) /\ Len(Middle(p, m, n)) = n - m
         /\ \A i \in 1 .. (n - m) : Middle(p, m, n)[i] = p[m + i]
         /\ \A k \in 0 .. (n - m) : Upto(Middle(p, m, n), k) = Middle(p, m, m + k)
<1>1. Len(p) \in Nat /\ m \in Nat /\ n \in Nat /\ m <= n
  BY LenProperties
<1>2. ASSUME NEW k \in m .. Len(p)
      PROVE  /\ Middle(p, m, k) \in Seq(Names) /\ Len(Middle(p, m, k)) = k - m
             /\ \A i \in 1 .. (k - m) : Middle(p, m, k)[i] = p[m + i]
  <2>1. \A i \in (m + 1) .. k : p[i] \in Names
    <3>1. \A i \in (m + 1) .. k : i \in 1 .. Len(p)
      BY <1>1
    <3>2. QED  BY <3>1, ElementOfSeq
  <2>2. m + 1 \in Int /\ k \in Int
    BY <1>1
  <2>3. /\ SubSeq(p, m + 1, k) \in Seq(Names)
        /\ Len(SubSeq(p, m + 1, k)) = IF m + 1 <= k THEN k - (m + 1) + 1 ELSE 0
        /\ \A i \in 1 .. k - (m + 1) + 1 : SubSeq(p, m + 1, k)[i] = p[m + 1 + i - 1]
    BY <2>1, <2>2, SubSeqProperties
  <2>4. (IF m + 1 <= k THEN k - (m + 1) + 1 ELSE 0) = k - m
    BY <1>1
  <2>5. \A i \in 1 .. (k - m) : i \in 1 .. k - (m + 1) + 1 /\ m + 1 + i - 1 = m + i
    BY <1>1
  <2>6. QED  BY <2>3, <2>4, <2>5 DEF Middle
<1>3. /\ Middle(p, m, n) \in Seq(Names) /\ Len(Middle(p, m, n)) = n - m
      /\ \A i \in 1 .. (n - m) : Middle(p, m, n)[i] = p[m + i]
  BY <1>2
<1>4. ASSUME NEW k \in 0 .. (n - m)  PROVE Upto(Middle(p, m, n), k) = Middle(p, m, m + k)
  <2>1. PICK j \in m .. Len(p) : j = m + k /\ j - m = k
    BY <1>1
  <2>2. /\ Middle(p, m, j) \in Seq(Names) /\ Len(Middle(p, m, j)) = k
        /\ \A i \in 1 .. k : Middle(p, m, j)[i] = p[m + i]
    BY <1>2, <2>1
  <2>3. /\ Upto(Middle(p, m, n), k) \in Seq(Names) /\ Len(Upto(Middle(p, m, n), k)) = k
        /\ \A i \in 1 .. k : Upto(Middle(p, m, n), k)[i] = Middle(p, m, n)[i]
    BY <1>3, UptoOf
  <2>4. \A i \in 1 .. k : i \in 1 .. (n - m)
    BY <1>1
  <2>5. QED  BY <1>3, <2>1, <2>2, <2>3, <2>4, SeqEqual
<1>5. QED  BY <1>3, <1>4

Beyond(l, p, m) == {l.path \o Middle(p, m, n) : n \in (m + 1) .. (Len(p) - 1)}

(* The directories that create_dir_all makes lie in one another and in one  *)
(* that is there.                                                           *)
LEMMA ParentsAre ==
  ASSUME TreesStand, NEW p \in Seq(Names), p # <<>>, NEW t \in Trees
  PROVE  /\ Parents(p, t) \subseteq Seq(Names)
         /\ \A q \in Parents(p, t) : \A n \in 0 .. Len(q) - 1 :
              Upto(q, n) \in Parents(p, t) \/ Is(Tree(t), Upto(q, n), "dir")
<1> DEFINE r == Reach(p)
<1>1. r \in 0 .. (Len(p) - 1) /\ Len(p) \in Nat \ {0} /\ r \in 0 .. Len(p)
  BY ReachIs, EmptySeq
<1>2. Upto(p, r) \in Seq(Names)
  BY <1>1, UptoOf
<1>3. \A q : q \in Parents(p, t) <=>
        \E l \in FollowedDir("source", Upto(p, r)) : \E n \in (r + 1) .. (Len(p) - 1) :
          l.tree = t /\ q = l.path \o Middle(p, r, n)
  <2> DEFINE F == FollowedDir("source", Upto(p, r))
  <2>1. Parents(p, t) = UNION {Beyond(l, p, r) : l \in {d \in F : d.tree = t}}
    BY DEF Parents, Upto, Middle, Beyond
  <2> HIDE DEF F, r
  <2>2. \A q : q \in Parents(p, t) <=> \E l \in F : l.tree = t /\ q \in Beyond(l, p, r)
    BY <2>1
  <2>3. QED  BY <2>2 DEF Beyond, F
<1> HIDE DEF r
<1>4. ASSUME NEW q \in Parents(p, t)
      PROVE  /\ q \in Seq(Names)
             /\ \A m \in 0 .. Len(q) - 1 : Upto(q, m) \in Parents(p, t) \/ Is(Tree(t), Upto(q, m), "dir")
  <2>1. PICK l \in FollowedDir("source", Upto(p, r)) : \E n \in (r + 1) .. (Len(p) - 1) :
          l.tree = t /\ q = l.path \o Middle(p, r, n)
    BY <1>3, <1>4
  <2>2. PICK n \in (r + 1) .. (Len(p) - 1) : l.tree = t /\ q = l.path \o Middle(p, r, n)
    BY <2>1
  <2>3. "source" \in Trees /\ l \in Followed("source", Upto(p, r))
    BY DEF Trees, FollowedDir
  <2>4. IsTree(Tree(t)) /\ l.path \in DOMAIN Tree(t) /\ l.path \in Seq(Names)
    BY <1>2, <2>2, <2>3, FollowedIs
  <2>5. Is(Tree(t), l.path, "dir")
    BY <2>2, <2>4 DEF FollowedDir, At, Is
  <2> DEFINE a == l.path
             b == Middle(p, r, n)
  <2>6. r \in 0 .. Len(p) /\ n \in r .. Len(p) /\ n - r \in Nat
    BY <1>1
  <2>7. /\ b \in Seq(Names) /\ Len(b) = n - r
        /\ \A k \in 0 .. (n - r) : Upto(b, k) = Middle(p, r, r + k)
    BY <2>6, MiddleOf
  <2> HIDE DEF b
  <2>8. Len(a) \in Nat /\ Len(b) \in Nat /\ a \in Seq(Names)
    BY <2>4, <2>7, LenProperties
  <2>9. q = a \o b
    BY <2>2 DEF b
  <2> HIDE DEF a
  <2>10. q \in Seq(Names) /\ Len(q) = Len(a) + Len(b)
    BY <2>7, <2>8, <2>9, ConcatProperties
  <2>11. ASSUME NEW m \in 0 .. Len(q) - 1
         PROVE  Upto(q, m) \in Parents(p, t) \/ Is(Tree(t), Upto(q, m), "dir")
    <3>1. m \in 0 .. Len(a) + Len(b)
      BY <2>8, <2>10
    <3>2. CASE m < Len(a)
      <4>1. Upto(q, m) = Upto(a, m) /\ m \in 0 .. Len(a) - 1
        BY <2>7, <2>8, <2>9, <3>1, <3>2, JoinedUpto
      <4>2. QED  BY <2>4, <4>1, TreeOf DEF a
    <3>3. CASE m = Len(a)
      <4>1. Upto(q, m) = Upto(a, m)
        BY <2>7, <2>8, <2>9, <3>1, <3>3, JoinedUpto
      <4>2. Upto(a, m) = a
        BY <2>8, <3>3, UptoAll
      <4>3. QED  BY <2>5, <4>1, <4>2 DEF a
    <3>4. CASE m > Len(a)
      <4>1. Upto(q, m) = a \o Upto(b, m - Len(a))
        BY <2>7, <2>8, <2>9, <3>1, <3>4, JoinedUpto
      <4>2. m - Len(a) \in 0 .. (n - r) /\ r + (m - Len(a)) \in (r + 1) .. (Len(p) - 1)
        BY <1>1, <2>6, <2>7, <2>8, <2>10, <3>4
      <4>3. Upto(b, m - Len(a)) = Middle(p, r, r + (m - Len(a)))
        BY <2>7, <4>2
      <4>4. Upto(q, m) \in Parents(p, t)
        <5>1. Upto(q, m) = l.path \o Middle(p, r, r + (m - Len(a)))
          BY <4>1, <4>3 DEF a
        <5>2. QED  BY <1>3, <2>2, <4>2, <5>1
      <4>5. QED  BY <4>4
    <3>5. QED  BY <2>8, <3>1, <3>2, <3>3, <3>4
  <2>12. QED  BY <2>10, <2>11
<1>5. QED  BY <1>4

LEMMA StraightPlaceIs ==
  ASSUME NEW t, NEW p \in Seq(Names), p # <<>>, ~OnWay(t, p), NEW l \in Place(t, p)
  PROVE  l.tree = t /\ l.path = p
<1>1. Place(t, p) \subseteq {[tree |-> t, path |-> p]}
  BY StraightPlace
<1>2. l = [tree |-> t, path |-> p]
  BY <1>1
<1>3. QED  BY <1>2

LEMMA OldIs ==
  ASSUME TreesStand, NEW p \in Seq(Names), p # <<>>, NEW t, NEW q \in Old(p, t)
  PROVE  /\ q # <<>> /\ Last(q) = Last(p) /\ q \in DOMAIN Tree(t) /\ ~Is(Tree(t), q, "dir")
<1>1. PICK l \in Place("source", p) : l.tree = t /\ Exists(l) /\ At(l).type # "dir" /\ q = l.path
  BY DEF Old
<1>2. l.path # <<>> /\ Last(l.path) = Last(p)
  BY <1>1, PlaceIs DEF Trees
<1>3. QED  BY <1>1, <1>2 DEF Exists, At, Is

LEMMA ClearedIs ==
  ASSUME TreesStand, NEW p \in Seq(Names), p # <<>>, NEW t \in Trees,
         Parents(p, t) \cap DOMAIN Tree(t) = {}
  PROVE  /\ IsTree(Cleared(p, t))
         /\ \A q : Entry(Cleared(p, t), q) = IF q \in Old(p, t) THEN Nothing ELSE Entry(Tree(t), q)
         /\ \A q : q \in DOMAIN Tree(t) /\ q \notin Old(p, t) => q \in DOMAIN Cleared(p, t)
<1> DEFINE w == Tree(t)
           u == With(w, Parents(p, t))
<1>1. IsTree(w)
  BY TreeIs DEF TreesStand, Trees
<1>2. Parents(p, t) \subseteq Seq(Names)
  BY ParentsAre
<1>3. \A q \in Parents(p, t) : \A n \in 0 .. Len(q) - 1 :
        Upto(q, n) \in Parents(p, t) \/ Is(w, Upto(q, n), "dir")
  BY ParentsAre
<1>4. Parents(p, t) \cap DOMAIN w = {}
  OBVIOUS
<1> HIDE DEF w
<1>5. IsTree(u)
  BY <1>1, <1>2, <1>3, <1>4, WithKeepsTree
<1>6. \A q : Entry(u, q) = Entry(w, q)
  BY <1>4, WithEntry
<1>7. \A q \in Old(p, t) : q \in DOMAIN w /\ ~Is(w, q, "dir")
  BY OldIs DEF w
<1>8. (\A q \in DOMAIN w : q \in DOMAIN u) /\ \A q \in DOMAIN w : u[q] = w[q]
  BY <1>4, WithNode
<1>9. Cleared(p, t) = Less(u, Old(p, t))
  BY DEF Cleared, w
<1> HIDE DEF u
<1>10. \A q \in Old(p, t) : ~Is(u, q, "dir")
  BY <1>7, <1>8 DEF Is
<1>11. IsTree(Less(u, Old(p, t)))
  BY <1>5, <1>10, LessKeepsTree
<1>12. \A q : Entry(Less(u, Old(p, t)), q) = IF q \in Old(p, t) THEN Nothing ELSE Entry(w, q)
  BY <1>6, LessEntry
<1>13. \A q : q \in DOMAIN w /\ q \notin Old(p, t) => q \in DOMAIN Less(u, Old(p, t))
  BY <1>8, LessNode
<1>14. QED  BY <1>9, <1>11, <1>12, <1>13 DEF w

LEMMA StraightOld ==
  ASSUME NEW p \in Seq(Names), p # <<>>, ~OnWay("source", p)
  PROVE  Old(p, "source") \subseteq {p} /\ Old(p, "host") = {}
<1>1. \A l \in Place("source", p) : l.tree = "source" /\ l.path = p
  BY StraightPlaceIs
<1>2. QED  BY <1>1 DEF Old

LEMMA StraightParents ==
  ASSUME TreesStand, NEW p \in Seq(Names), p # <<>>, ~OnWay("source", p)
  PROVE  Parents(p, "host") = {}
<1>1. Reach(p) \in 0 .. (Len(p) - 1)
  BY ReachIs
<1>2. Followed("source", Upto(p, Reach(p))) \subseteq {[tree |-> "source", path |-> Upto(p, Reach(p))]}
  BY <1>1, WayIsFree, StraightFollowed
<1>3. \A l \in FollowedDir("source", Upto(p, Reach(p))) : l.tree = "source"
  BY <1>2 DEF FollowedDir
<1>4. {d \in FollowedDir("source", SubSeq(p, 1, Reach(p))) : d.tree = "host"} = {}
  BY <1>3 DEF Upto
<1>5. QED  BY <1>4 DEF Parents

LEMMA NothingGone == ASSUME NEW w, IsTree(w)  PROVE Less(w, {}) = w /\ Less(With(w, {}), {}) = w
<1>1. w = [q \in DOMAIN w |-> w[q]]
  BY TreeOf
<1>2. Less(w, {}) = [q \in DOMAIN w |-> w[q]]
  BY DEF Less
<1>3. With(w, {}) = [q \in DOMAIN w |-> w[q]]
  BY DEF With
<1>4. QED  BY <1>1, <1>2, <1>3

(* What a step of the sync-back touches has the last name of the change it  *)
(* is about; it is that path itself where no link is on the way.            *)
Touched(p) ==
  /\ IsTree(source') /\ IsTree(host')
  /\ \A q : Entry(source', q) # Entry(source, q) => q # <<>> /\ Last(q) = Last(p)
  /\ \A q : Entry(host', q) # Entry(host, q) => q # <<>> /\ Last(q) = Last(p)
  /\ ~OnWay("source", p) =>
       /\ host' = host
       /\ \A q : q # p => /\ Entry(source', q) = Entry(source, q)
                          /\ q \in DOMAIN source => q \in DOMAIN source'

LEMMA UntouchedIs == ASSUME TreesStand, NEW p, UNCHANGED <<source, host>>  PROVE Touched(p)
BY DEF Touched, TreesStand

LEMMA ClearedTouches ==
  ASSUME TreesStand, NEW p \in Seq(Names), p # <<>>, ~ParentFails(p),
         source' = Cleared(p, "source"), host' = Cleared(p, "host")
  PROVE  Touched(p)
<1>1. /\ Parents(p, "source") \cap DOMAIN source = {}
      /\ Parents(p, "host") \cap DOMAIN host = {}
  BY TreeIs DEF ParentFails
<1>2. /\ IsTree(source')
      /\ \A q : Entry(source', q) = IF q \in Old(p, "source") THEN Nothing ELSE Entry(source, q)
      /\ \A q : q \in DOMAIN source /\ q \notin Old(p, "source") => q \in DOMAIN source'
  BY <1>1, TreeIs, ClearedIs DEF Trees
<1>3. /\ IsTree(host')
      /\ \A q : Entry(host', q) = IF q \in Old(p, "host") THEN Nothing ELSE Entry(host, q)
  BY <1>1, TreeIs, ClearedIs DEF Trees
<1>4. \A t : \A q \in Old(p, t) : q # <<>> /\ Last(q) = Last(p)
  BY OldIs
<1>5. ASSUME ~OnWay("source", p)
      PROVE  /\ host' = host
             /\ \A q : q # p => /\ Entry(source', q) = Entry(source, q)
                                /\ q \in DOMAIN source => q \in DOMAIN source'
  <2>1. Old(p, "source") \subseteq {p} /\ Old(p, "host") = {} /\ Parents(p, "host") = {}
    BY <1>5, StraightOld, StraightParents
  <2>2. host' = Less(With(host, {}), {})
    BY <2>1, TreeIs DEF Cleared
  <2>3. host' = host
    BY <2>2, NothingGone DEF TreesStand
  <2>4. QED  BY <1>2, <2>1, <2>3
<1>6. QED  BY <1>2, <1>3, <1>4, <1>5 DEF Touched

LEMMA RemovedTouches ==
  ASSUME TreesStand, NEW p \in Seq(Names), p # <<>>,
         source' = Less(source, Old(p, "source")), host' = Less(host, Old(p, "host"))
  PROVE  Touched(p)
<1>1. \A t : \A q \in Old(p, t) : q # <<>> /\ Last(q) = Last(p) /\ ~Is(Tree(t), q, "dir")
  BY OldIs
<1>2. IsTree(source') /\ IsTree(host')
  BY <1>1, TreeIs, LessKeepsTree DEF TreesStand
<1>3. /\ \A q : Entry(source', q) = IF q \in Old(p, "source") THEN Nothing ELSE Entry(source, q)
      /\ \A q : Entry(host', q) = IF q \in Old(p, "host") THEN Nothing ELSE Entry(host, q)
  BY LessEntry
<1>4. ASSUME ~OnWay("source", p)
      PROVE  /\ host' = host
             /\ \A q : q # p => /\ Entry(source', q) = Entry(source, q)
                                /\ q \in DOMAIN source => q \in DOMAIN source'
  <2>1. Old(p, "source") \subseteq {p} /\ Old(p, "host") = {}
    BY <1>4, StraightOld
  <2>2. host' = host
    BY <2>1, NothingGone DEF TreesStand
  <2>3. \A q : q # p => (q \in DOMAIN source => q \in DOMAIN source')
    BY <2>1, LessNode
  <2>4. QED  BY <1>3, <2>1, <2>2, <2>3
<1>5. QED  BY <1>1, <1>2, <1>3, <1>4 DEF Touched

LEMMA TransferredIs ==
  ASSUME TreesStand, NEW p \in Seq(Names), p # <<>>, NEW type, NEW node \in Transferred(p, type)
  PROVE  /\ node.type \in {"file", "link"} /\ (node.type = "link" => node.to \in Places)
         /\ node.type = "link" <=> type = "link"
<1>1. CASE type = "link"
  <2>1. PICK l \in Place("copy", p) : Exists(l) /\ At(l).type = "link" /\ node = At(l)
    BY <1>1 DEF Transferred
  <2>2. IsTree(Tree(l.tree))
    BY PlaceIs DEF Trees
  <2>3. node.to \in Places
    BY <2>1, <2>2, TreeOf DEF Exists, At
  <2>4. QED  BY <1>1, <2>1, <2>3
<1>2. CASE type # "link"
  <2>1. PICK l \in Followed("copy", p) : node = File(At(l).text, 0)
    BY <1>2 DEF Transferred
  <2>2. QED  BY <1>2, <2>1, Kinds
<1>3. QED  BY <1>1, <1>2

LEMMA WrittenTouches ==
  ASSUME TreesStand, NEW p \in Seq(Names), p # <<>>, NEW type,
         NEW node \in Transferred(p, type), NEW l \in Free(p, type),
         source' = IF l.tree = "source" THEN Put(source, l.path, node) ELSE source,
         host' = IF l.tree = "host" THEN Put(host, l.path, node) ELSE host
  PROVE  Touched(p)
<1>1. /\ l \in Place("source", p) /\ "source" \in Trees
      /\ Exists(l) => At(l).type = "file"
  BY DEF Free, Trees
<1>2. /\ l.tree \in Trees /\ IsTree(Tree(l.tree))
      /\ l.path \in Seq(Names) /\ l.path # <<>> /\ Last(l.path) = Last(p)
      /\ Is(Tree(l.tree), Front(l.path), "dir")
  BY <1>1, PlaceIs
<1>3. ~Is(Tree(l.tree), l.path, "dir")
  BY <1>1 DEF Exists, At, Is
<1>4. node.type \in Types /\ node.type # "dir" /\ (node.type = "link" => node.to \in Places)
  BY TransferredIs DEF Types
<1>5. IsTree(Put(Tree(l.tree), l.path, node))
  BY <1>2, <1>3, <1>4, PutKeepsTree
<1>6. IsTree(source') /\ IsTree(host')
  BY <1>5, TreeIs DEF TreesStand
<1>7. \A q : q # l.path => /\ Entry(source', q) = Entry(source, q)
                           /\ Entry(host', q) = Entry(host, q)
                           /\ q \in DOMAIN source => q \in DOMAIN source'
  BY PutEntry, PutNode
<1>8. ASSUME ~OnWay("source", p)
      PROVE  /\ host' = host
             /\ \A q : q # p => /\ Entry(source', q) = Entry(source, q)
                                /\ q \in DOMAIN source => q \in DOMAIN source'
  <2>1. l.tree = "source" /\ l.path = p
    BY <1>1, <1>8, StraightPlaceIs
  <2>2. QED  BY <1>7, <2>1
<1>9. QED  BY <1>2, <1>6, <1>7, <1>8 DEF Touched

-----------------------------------------------------------------------------
(* The invariant                                                            *)

(* The trees stand; while the copy is made, what is a directory in it is one*)
(* of the workspace, and each entry that waits has its directory.           *)
TreesHold ==
  /\ TreesStand
  /\ phase = "copy" => /\ \A e \in todo : Is(copy, Front(e.path), "dir")
                       /\ \A p : Is(copy, p, "dir") => Is(source, p, "dir")
  /\ DOMAIN mine \subseteq Seq(Names) /\ ~Is(mine, <<>>, "file")
  /\ DOMAIN before \subseteq Seq(Names)
  /\ DOMAIN changes \subseteq Seq(Names) \ {<<>>}

Differs(p) == Entry(source, p) # Entry(mine, p)
DiffersOut(p) == Entry(host, p) # Entry(Host, p)

(* Until the user agrees nothing is applied; from then on the workspace     *)
(* differs in what has been applied and in what is being replaced.          *)
SyncHolds ==
  /\ phase \in Phases
  /\ phase \in Early => applied = {} /\ host = Host /\ \A p : ~Differs(p)
  /\ phase = "done" /\ ~event.approved => \A p : ~Differs(p) /\ ~DiffersOut(p)
  /\ \A p : Differs(p) \/ DiffersOut(p) => p # <<>> /\ Last(p) \notin SecretNames
  /\ \A p \in DOMAIN changes : ~ShouldExclude(p, FALSE)
  /\ applied \subseteq DOMAIN changes
  /\ phase = "transfer" => moving.path \in DOMAIN changes
  /\ phase = "failed" => moving = Nothing \/ moving.path \in DOMAIN changes
  /\ phase \notin {"transfer", "failed"} => moving = Nothing
  /\ "source" \notin crossed =>
       /\ host = Host
       /\ \A p : Differs(p) => p \in applied \/ (moving # Nothing /\ p = moving.path)
       /\ \A p : Differs(p) /\ p \notin DOMAIN source =>
            changes[p] = "Deleted" \/ (moving # Nothing /\ p = moving.path)

WantedNode(p, type) == IF type = "dir" THEN Wanted(p, TRUE) ELSE Wanted(p, FALSE)
ExcludedNode(p, type) ==
  IF type = "dir" THEN ShouldExclude(p, TRUE) ELSE ShouldExclude(p, FALSE)

(* An entry that waits to be copied is beneath nothing that is excluded; its*)
(* type is still what was read, or its file is gone for now.                *)
EntryHolds(e) ==
  /\ e.path \in Seq(Names) \ {<<>>} /\ e.type \in Types
  /\ \A n \in 1 .. Len(e.path) - 1 : ~ShouldExclude(Upto(e.path, n), TRUE)
  /\ IF e.path \in DOMAIN source THEN source[e.path].type = e.type ELSE e.type = "file"

SameNode(p) ==
  /\ copy[p].type = mine[p].type
  /\ copy[p].type = "file" => copy[p].text = mine[p].text
  /\ copy[p].type = "link" => copy[p].to = mine[p].to

(* What has been copied is wanted, and what is wanted has been copied or is *)
(* beneath an entry that waits; but for what the user has changed meanwhile.*)
CopyFilters ==
  /\ \A p \in DOMAIN copy \ saved : p \in DOMAIN mine /\ SameNode(p) /\ WantedNode(p, mine[p].type)
  /\ \A p \in DOMAIN mine \ saved :
       WantedNode(p, mine[p].type) => p \in DOMAIN copy \/ \E e \in todo : IsPrefix(e.path, p)

(* What was there before the command can be told from what it writes.       *)
SourceForeign ==
  \A p \in DOMAIN source : /\ IsForeign(source[p])
                           /\ source[p].type = "file" => source[p].text # Outside
CopyForeign == \A p \in DOMAIN copy : copy[p].type = "file" =>
                 copy[p].stamp = 0 /\ copy[p].text # "command"

CopyHolds ==
  /\ commandLeft \in Nat /\ commandLeft <= MaxCommand
  /\ hidden \in BOOLEAN /\ raced \in BOOLEAN
  /\ phase \in {"copy", "run"} => ~raced
  /\ phase = "copy" =>
       /\ source = mine /\ host = Host /\ ~hidden
       /\ \A e \in todo : EntryHolds(e)
       /\ CopyFilters /\ SourceForeign /\ CopyForeign
       /\ commandLeft = MaxCommand
  /\ phase = "run" => todo = {}
  /\ phase = "run" /\ commandLeft = MaxCommand => CopyFilters

(* What a link leads to gets neither into a file of the copy nor, while the *)
(* copy stays as it is during the sync-back and no link is on the way of its*)
(* paths, into one of the workspace.                                        *)
NodesHold ==
  /\ \A p \in DOMAIN copy : copy[p].type = "file" => copy[p].text # Outside
  /\ ~raced /\ "copy" \notin crossed =>
       \A p \in DOMAIN source : source[p].type = "file" => source[p].text # Outside
  /\ phase = "transfer" /\ ~raced /\ "copy" \notin crossed =>
       /\ moving.path \in DOMAIN copy /\ copy[moving.path].type = moving.type
       /\ moving.type \in {"file", "link"}

Beneath(p) == \E r \in Roots : IsPrefix(r, p)
SameFile(t, u, p) ==
  (Is(t, p, "file") <=> Is(u, p, "file")) /\ (Is(t, p, "file") => t[p].text = u[p].text)

(* A file of the copy is as it was, or it is the command's.                 *)
OldFile(p) == copy[p].stamp = 0 /\ Is(mine, p, "file") /\ copy[p].text = mine[p].text
NewFile(p) == copy[p].text = "command" /\ (copy[p].stamp = 1 \/ hidden)

(* The first snapshot has the files of the workspace, as copies of which no *)
(* stamp has changed, and of roots that are links what these lead to.       *)
BeforeHolds ==
  phase \in {"run", "ask", "apply", "transfer", "done"} /\ "copy" \notin crossed =>
    /\ \A p \in DOMAIN before : Beneath(p)
    /\ \A p \in DOMAIN before \ saved :
         \/ Is(mine, p, "file") /\ before[p] = Fingerprint(File(mine[p].text, 0))
         \/ \E node : node.type = "file" /\ IsForeign(node) /\ before[p] = Fingerprint(node)
                      /\ ~Is(mine, p, "file")
    /\ \A p \in DOMAIN mine \ saved :
         Is(mine, p, "file") /\ Wanted(p, FALSE) /\ Beneath(p) => p \in DOMAIN before
    /\ \A p \in DOMAIN copy \ saved : copy[p].type = "file" => OldFile(p) \/ NewFile(p)

(* What is not among the changes is the same in the copy as the user has it,*)
(* and what has been applied is the same in both trees.                     *)
RootLink(p) == p \in Roots /\ Is(copy, p, "link")
ChangesHold ==
  phase \in {"ask", "apply", "transfer", "done"} /\ ~raced /\ crossed = {} =>
    /\ \A p \in DOMAIN changes :
         IF changes[p] = "Deleted" THEN ~Is(copy, p, "file")
         ELSE p \in DOMAIN copy /\ copy[p].type \in {"file", "link"}
    /\ mode = "full_hash" \/ ~hidden =>
         \A p \in (DOMAIN mine \cup DOMAIN copy) \ (saved \cup DOMAIN changes) :
           Wanted(p, FALSE) /\ Beneath(p) /\ ~RootLink(p) => SameFile(mine, copy, p)
    /\ \A p \in applied \ saved : SameFile(source, copy, p)

EndHolds == phase = "done" /\ event.approved => DOMAIN changes \subseteq applied

ReplicaHolds ==
  TreesHold /\ SyncHolds /\ CopyHolds /\ NodesHold /\ BeforeHolds /\ ChangesHold /\ EndHolds

-----------------------------------------------------------------------------
(* What the actions do                                                      *)

LEMMA CrossedGrows == ASSUME [Next]_vars  PROVE crossed \subseteq crossed'
<1>1. CASE UNCHANGED crossed
  BY <1>1
<1>2. CASE \E p, trees : Cross(p, trees)
  BY <1>2 DEF Cross
<1>3. CASE CrossRoots
  BY <1>3 DEF CrossRoots
<1>4. CASE Materialize
  BY <1>1, <1>3, <1>4 DEF Materialize, CopyExcluded, CopyEntry, CopyUnaffected, SnapshotBefore, walkVars
<1>5. CASE SnapshotAfter
  BY <1>3, <1>5 DEF SnapshotAfter
<1>6. CASE SyncBack
  BY <1>1, <1>2, <1>6
  DEF SyncBack, LeaveAlone, Approve, Skip, Clear, Transfer, RemoveDeleted, EndSync, walkVars
<1>7. CASE Command \/ User
  BY <1>1, <1>7 DEF Command, Write, Make, Delete, Change, User, Save, RemoveOwn, Edit, walkVars
<1>8. CASE UNCHANGED vars
  BY <1>1, <1>8 DEF vars
<1>9. QED  BY <1>4, <1>5, <1>6, <1>7, <1>8 DEF Next

(* What the user does to the workspace, and would have done to it anyway    *)
LEMMA UserEffect ==
  ASSUME NEW p \in Paths, Save(p) \/ RemoveOwn(p)
  PROVE  /\ phase \notin {"done", "failed"}
         /\ saved' = saved \cup {p}
         /\ UNCHANGED <<phase, copy, todo, before, changes, moving, event, commandLeft, applied,
                        hidden, raced, host, crossed>>
         /\ \/ /\ Is(source, p, "file") \/ CanMake(source, p)
               /\ source' = Put(source, p, File("user", 2)) /\ mine' = Put(mine, p, File("user", 2))
            \/ /\ Is(source, p, "file")
               /\ source' = Drop(source, p) /\ mine' = Drop(mine, p)
BY DEF Save, RemoveOwn, Edit, walkVars

(* What it does to the other nodes: nothing                                 *)
LEMMA UserSpares ==
  ASSUME NEW p \in Paths, Save(p) \/ RemoveOwn(p), NEW q, q # p
  PROVE  /\ (q \in DOMAIN source' <=> q \in DOMAIN source) /\ (q \in DOMAIN mine' <=> q \in DOMAIN mine)
         /\ q \in DOMAIN source => source'[q] = source[q]
         /\ q \in DOMAIN mine => mine'[q] = mine[q]
<1>1. CASE source' = Drop(source, p) /\ mine' = Drop(mine, p)
  BY <1>1, DropNode
<1>2. CASE source' = Put(source, p, File("user", 2)) /\ mine' = Put(mine, p, File("user", 2))
  <2>1. PICK node : source' = Put(source, p, node) /\ mine' = Put(mine, p, node)
    BY <1>2
  <2>2. QED  BY <2>1, PutNode
<1>3. QED  BY <1>1, <1>2, UserEffect

LEMMA UserNode ==
  ASSUME NEW p \in Paths, Save(p) \/ RemoveOwn(p)
  PROVE  /\ p \in DOMAIN source' => source'[p] = File("user", 2)
         /\ p \in DOMAIN mine' => mine'[p] = File("user", 2)
         /\ p \in DOMAIN source' <=> p \in DOMAIN mine'
<1>1. CASE source' = Drop(source, p) /\ mine' = Drop(mine, p)
  BY <1>1, DropNode
<1>2. CASE source' = Put(source, p, File("user", 2)) /\ mine' = Put(mine, p, File("user", 2))
  <2>1. PICK node : node = File("user", 2)
    OBVIOUS
  <2>2. QED  BY <1>2, <2>1, PutNode
<1>3. QED  BY <1>1, <1>2, UserEffect

(* What a change of the copy does                                           *)
Written(node) ==
  \/ node = Dir \/ node = File("command", 1)
  \/ node = File("command", 0) /\ hidden'
  \/ \E to \in Targets : node = Link(to)

LEMMA CommandEffect ==
  ASSUME Command
  PROVE  /\ phase \in {"run", "ask", "apply", "transfer"} /\ commandLeft > 0
         /\ commandLeft' = commandLeft - 1
         /\ phase # "run" => raced'
         /\ phase = "run" /\ raced \in BOOLEAN => raced' = raced
         /\ raced => raced'
         /\ hidden => hidden'
         /\ raced \in BOOLEAN /\ hidden \in BOOLEAN => raced' \in BOOLEAN /\ hidden' \in BOOLEAN
         /\ UNCHANGED <<phase, todo, before, changes, moving, event, source, mine, saved, applied,
                        host, crossed>>
         /\ \E p \in Paths :
              \/ /\ Is(copy, p, "file") \/ CanMake(copy, p)
                 /\ \E node : Written(node) /\ (node.type # "file" => CanMake(copy, p))
                              /\ copy' = Put(copy, p, node)
              \/ copy' = Without(copy, p)
<1>1. PICK p \in Paths : \/ \E stamp \in {0, 1} : Write(p, stamp)
                         \/ Make(p, Dir) \/ (\E to \in Targets : Make(p, Link(to))) \/ Delete(p)
  BY DEF Command
<1>2. PICK tree : Change(tree)
  BY <1>1 DEF Write, Make, Delete
<1>3. /\ phase \in {"run", "ask", "apply", "transfer"} /\ commandLeft > 0
      /\ commandLeft' = commandLeft - 1
      /\ UNCHANGED <<phase, todo, before, changes, moving, event, source, mine, saved, applied,
                     host, crossed>>
  BY <1>2 DEF Change, userVars, walkVars
<1>4. raced' = (raced \/ phase # "run")
  BY <1>2 DEF Change
<1>5. hidden => hidden'
  BY <1>1 DEF Write, Make, Delete
<1>6. hidden \in BOOLEAN => hidden' \in BOOLEAN
  BY <1>1 DEF Write, Make, Delete
<1>7. \E q \in Paths :
        \/ /\ Is(copy, q, "file") \/ CanMake(copy, q)
           /\ \E node : Written(node) /\ (node.type # "file" => CanMake(copy, q))
                        /\ copy' = Put(copy, q, node)
        \/ copy' = Without(copy, q)
  <2>1. ASSUME NEW stamp \in {0, 1}, Write(p, stamp)  PROVE <1>7
    <3>1. /\ copy' = Put(copy, p, File("command", stamp)) /\ (stamp = 0 => hidden')
          /\ Is(copy, p, "file") \/ CanMake(copy, p)
      BY <2>1 DEF Write, Change
    <3> DEFINE node == File("command", stamp)
    <3>2. Written(node) /\ node.type = "file" /\ copy' = Put(copy, p, node)
      BY <3>1, Kinds DEF Written
    <3> HIDE DEF node
    <3>3. QED  BY <3>1, <3>2
  <2>2. ASSUME NEW node, Make(p, node), node = Dir \/ \E to \in Targets : node = Link(to)
        PROVE  <1>7
    <3>1. copy' = Put(copy, p, node) /\ CanMake(copy, p)
      BY <2>2 DEF Make, Change
    <3>2. Written(node)
      BY <2>2 DEF Written
    <3>3. QED  BY <3>1, <3>2
  <2>3. CASE Delete(p)
    BY <2>3 DEF Delete, Change
  <2>4. QED  BY <1>1, <2>1, <2>2, <2>3
<1>8. /\ phase # "run" => raced'
      /\ raced => raced'
  BY <1>4
<1>9. phase = "run" /\ raced \in BOOLEAN => raced' = raced
  BY <1>4
<1>10. raced \in BOOLEAN => raced' \in BOOLEAN
  BY Zenon, <1>4
<1>11. QED  BY <1>3, <1>5, <1>6, <1>7, <1>8, <1>9, <1>10

(* What the steps of the sync-back do                                       *)
LEMMA ClearEffect ==
  ASSUME TreesHold, Clear
  PROVE  \E p \in DOMAIN changes :
           /\ p \in Seq(Names) /\ p # <<>>
           /\ p \notin applied /\ changes[p] # "Deleted" /\ phase = "apply"
           /\ UNCHANGED <<todo, before, changes, event, copy, commandLeft, hidden, raced, applied,
                          mine, saved>>
           /\ crossed' = crossed \cup {t \in {"copy", "source"} : OnWay(t, p)}
           /\ Touched(p)
           /\ \/ phase' = "failed" /\ UNCHANGED <<source, moving>>
              \/ \E type \in TypesOf(p) \cap {"file", "link"} :
                   phase' = "transfer" /\ moving' = [path |-> p, type |-> type]
<1>1. PICK p \in Waiting : \E type \in TypesOf(p) \cap {"file", "link"} :
       /\ IsNext(p) /\ changes[p] # "Deleted"
       /\ Cross(p, {"copy", "source"})
       /\ IF ParentFails(p)
          THEN phase' = "failed" /\ UNCHANGED <<source, host, moving>>
          ELSE /\ source' = Cleared(p, "source") /\ host' = Cleared(p, "host")
               /\ moving' = [path |-> p, type |-> type]
               /\ phase' = "transfer"
  BY DEF Clear
<1>2. p \in DOMAIN changes /\ p \notin applied /\ p \in Seq(Names) /\ p # <<>> /\ TreesStand
  BY <1>1 DEF Waiting, TreesHold
<1>3. /\ phase = "apply"
      /\ UNCHANGED <<todo, before, changes, event, copy, commandLeft, hidden, raced, applied,
                     mine, saved>>
  BY DEF Clear, commandVars
<1>4. crossed' = crossed \cup {t \in {"copy", "source"} : OnWay(t, p)}
  BY <1>1 DEF Cross
<1>5. CASE ParentFails(p)
  <2>1. Touched(p)
    BY <1>1, <1>2, <1>5, UntouchedIs
  <2>2. QED  BY <1>1, <1>2, <1>3, <1>4, <1>5, <2>1
<1>6. CASE ~ParentFails(p)
  <2>1. Touched(p)
    BY <1>1, <1>2, <1>6, ClearedTouches
  <2>2. QED  BY <1>1, <1>2, <1>3, <1>4, <1>6, <2>1
<1>7. QED  BY <1>5, <1>6

LEMMA TransferEffect ==
  ASSUME TreesHold, SyncHolds, Transfer
  PROVE  LET p == moving.path IN
           /\ p \in DOMAIN changes /\ p \in Seq(Names) /\ p # <<>>
           /\ phase = "transfer"
           /\ UNCHANGED <<todo, before, changes, event, copy, commandLeft, hidden, raced, mine, saved>>
           /\ crossed' = crossed \cup {t \in {"copy", "source"} : OnWay(t, p)}
           /\ Touched(p)
           /\ \/ phase' = "failed" /\ UNCHANGED <<source, host, moving, applied>>
              \/ /\ phase' = "apply" /\ applied' = applied \cup {p} /\ moving' = Nothing
                 /\ \E node \in Transferred(p, moving.type) : \E l \in Free(p, moving.type) :
                      source' = IF l.tree = "source" THEN Put(source, l.path, node) ELSE source
<1> DEFINE p == moving.path
<1>1. /\ phase = "transfer"
      /\ UNCHANGED <<todo, before, changes, event, copy, commandLeft, hidden, raced, mine, saved>>
      /\ crossed' = crossed \cup {t \in {"copy", "source"} : OnWay(t, p)}
  BY DEF Transfer, commandVars, Cross
<1>2. p \in DOMAIN changes /\ p \in Seq(Names) /\ p # <<>> /\ TreesStand
  BY <1>1 DEF SyncHolds, TreesHold
<1>3. \/ phase' = "failed" /\ UNCHANGED <<source, host, moving, applied>>
      \/ \E node \in Transferred(p, moving.type) : \E l \in Free(p, moving.type) :
           /\ source' = IF l.tree = "source" THEN Put(source, l.path, node) ELSE source
           /\ host' = IF l.tree = "host" THEN Put(host, l.path, node) ELSE host
           /\ phase' = "apply" /\ applied' = applied \cup {p} /\ moving' = Nothing
  BY DEF Transfer
<1> HIDE DEF p
<1>4. CASE phase' = "failed" /\ UNCHANGED <<source, host, moving, applied>>
  <2>1. Touched(p)
    BY <1>2, <1>4, UntouchedIs
  <2>2. QED  BY <1>1, <1>2, <1>4, <2>1 DEF p
<1>5. ASSUME NEW node \in Transferred(p, moving.type), NEW l \in Free(p, moving.type),
             source' = IF l.tree = "source" THEN Put(source, l.path, node) ELSE source,
             host' = IF l.tree = "host" THEN Put(host, l.path, node) ELSE host,
             phase' = "apply" /\ applied' = applied \cup {p} /\ moving' = Nothing
      PROVE  /\ Touched(p)
             /\ \E n \in Transferred(p, moving.type) : \E f \in Free(p, moving.type) :
                  source' = IF f.tree = "source" THEN Put(source, f.path, n) ELSE source
  BY <1>2, <1>5, WrittenTouches
<1>6. QED  BY <1>1, <1>2, <1>3, <1>4, <1>5 DEF p

LEMMA RemoveEffect ==
  ASSUME TreesHold, RemoveDeleted
  PROVE  \E p \in DOMAIN changes :
           /\ p \in Seq(Names) /\ p # <<>>
           /\ p \notin applied /\ changes[p] = "Deleted" /\ applied' = applied \cup {p}
           /\ phase = "apply"
           /\ UNCHANGED <<phase, todo, before, changes, moving, event, copy, commandLeft, hidden,
                          raced, mine, saved>>
           /\ crossed' = crossed \cup {t \in {"source"} : OnWay(t, p)}
           /\ Touched(p)
           /\ IF Followed("source", p) = {} THEN source' = source
              ELSE source' = Less(source, Old(p, "source"))
<1>1. PICK p \in Waiting :
       /\ changes[p] = "Deleted" /\ Cross(p, {"source"})
       /\ IF Followed("source", p) = {} THEN UNCHANGED <<source, host>>
          ELSE /\ source' = Less(source, Old(p, "source"))
               /\ host' = Less(host, Old(p, "host"))
       /\ applied' = applied \cup {p}
  BY DEF RemoveDeleted
<1>2. p \in DOMAIN changes /\ p \notin applied /\ p \in Seq(Names) /\ p # <<>> /\ TreesStand
  BY <1>1 DEF Waiting, TreesHold
<1>3. /\ phase = "apply"
      /\ UNCHANGED <<phase, todo, before, changes, moving, event, copy, commandLeft, hidden,
                     raced, mine, saved>>
  BY DEF RemoveDeleted, commandVars
<1>4. crossed' = crossed \cup {t \in {"source"} : OnWay(t, p)}
  BY <1>1 DEF Cross
<1>5. Touched(p)
  <2>1. CASE Followed("source", p) = {}
    BY <1>1, <1>2, <2>1, UntouchedIs
  <2>2. CASE Followed("source", p) # {}
    BY <1>1, <1>2, <2>2, RemovedTouches
  <2>3. QED  BY <2>1, <2>2
<1>6. QED  BY <1>1, <1>2, <1>3, <1>4, <1>5

-----------------------------------------------------------------------------
(* The workspace                                                            *)

LEMMA ExclusionFixed == \A p : ShouldExclude(p, FALSE)' <=> ShouldExclude(p, FALSE)
BY DEF ShouldExclude, IgnoredByUser, ExcludedByDefault

(* Steps that leave the workspace and the changes alone                     *)
LEMMA SyncQuiet ==
  ASSUME SyncHolds, crossed \subseteq crossed',
         UNCHANGED <<source, host, mine, changes, applied, moving>>,
         \/ phase' = phase /\ event' = event
         \/ phase \in Early /\ phase' \in {"run", "ask", "apply", "done", "failed"}
         \/ phase = "apply" /\ phase' = "done" /\ event'.approved
         \/ phase \in {"apply", "transfer"} /\ phase' = "failed"
  PROVE  SyncHolds'
<1>1. \A p : (Differs(p)' <=> Differs(p)) /\ (DiffersOut(p)' <=> DiffersOut(p))
  BY DEF Differs, DiffersOut, Entry
<1>2. phase' \in Phases /\ (phase' \in Early => phase \in Early)
  BY DEF SyncHolds, Phases, Early
<1>3. phase \in Early => \A p : ~Differs(p) /\ ~DiffersOut(p)
  BY DEF SyncHolds, DiffersOut
<1>4. phase' = "done" /\ ~event'.approved => \A p : ~Differs(p)' /\ ~DiffersOut(p)'
  BY <1>1, <1>3 DEF SyncHolds
<1>5. QED  BY <1>1, <1>2, <1>4, ExclusionFixed DEF SyncHolds, Early

(* The differences are collected before anything is applied.                *)
LEMMA SyncCollect ==
  ASSUME SyncHolds, SnapshotAfter, crossed \subseteq crossed'  PROVE SyncHolds'
<1>1. /\ phase = "run" /\ phase' = "ask"
      /\ \A p \in DOMAIN changes' : ~ShouldExclude(p, FALSE)
      /\ UNCHANGED <<source, host, mine, applied, moving, event>>
  BY DEF SnapshotAfter, userVars, Collected
<1>2. applied = {} /\ moving = Nothing /\ host = Host /\ \A p : ~Differs(p)
  BY <1>1 DEF SyncHolds, Early
<1>3. \A p : ~Differs(p)' /\ ~DiffersOut(p)'
  BY <1>1, <1>2 DEF Differs, DiffersOut, Entry
<1>4. QED  BY <1>1, <1>2, <1>3, ExclusionFixed DEF SyncHolds, Phases, Early

(* The user changes the workspace and its ideal alike.                      *)
LEMMA SyncEdit ==
  ASSUME SyncHolds, NEW p, Save(p) \/ RemoveOwn(p), p \in Paths
  PROVE  SyncHolds'
<1>1. UNCHANGED <<phase, changes, applied, moving, event, host, crossed>>
  BY UserEffect
<1>2. ~Differs(p)'
  BY PutEntry, DropEntry, UserEffect DEF Differs
<1>3. \A q : q # p => (Differs(q)' <=> Differs(q)) /\ (q \in DOMAIN source' <=> q \in DOMAIN source)
  <2>1. \A q : q # p => Entry(source', q) = Entry(source, q) /\ Entry(mine', q) = Entry(mine, q)
    BY UserSpares DEF Entry
  <2>2. QED  BY <2>1, UserSpares DEF Differs
<1>4. \A q : DiffersOut(q)' <=> DiffersOut(q)
  BY <1>1 DEF DiffersOut, Entry
<1>5. QED  BY <1>1, <1>2, <1>3, <1>4, ExclusionFixed DEF SyncHolds

(* A step touches what has the last name of a change that is not excluded.  *)
LEMMA SyncTouch ==
  ASSUME SyncHolds, NEW p \in DOMAIN changes, Touched(p),
         UNCHANGED <<changes, mine>>, phase \in {"apply", "transfer"},
         phase' \in {"apply", "transfer", "failed"},
         crossed \subseteq crossed', OnWay("source", p) => "source" \in crossed',
         applied \subseteq applied', applied' \subseteq applied \cup {p},
         phase' = "transfer" => moving'.path \in DOMAIN changes,
         phase' = "failed" => moving' = Nothing \/ moving'.path \in DOMAIN changes,
         phase' \notin {"transfer", "failed"} => moving' = Nothing,
         moving # Nothing => moving.path = p,
         p \in applied' \/ (moving' # Nothing /\ p = moving'.path),
         ~OnWay("source", p) => \/ changes[p] = "Deleted" \/ p \in DOMAIN source'
                                \/ moving' # Nothing /\ p = moving'.path
  PROVE  SyncHolds'
<1>1. Last(p) \notin SecretNames
  BY DEF SyncHolds, ShouldExclude, ExcludedByDefault
<1>2. \A q : Differs(q)' \/ DiffersOut(q)' => q # <<>> /\ Last(q) \notin SecretNames
  <2> SUFFICES ASSUME NEW q, Differs(q)' \/ DiffersOut(q)'
               PROVE  q # <<>> /\ Last(q) \notin SecretNames
    OBVIOUS
  <2>1. CASE Entry(source', q) # Entry(source, q) \/ Entry(host', q) # Entry(host, q)
    BY <1>1, <2>1 DEF Touched
  <2>2. CASE Entry(source', q) = Entry(source, q) /\ Entry(host', q) = Entry(host, q)
    BY <2>2 DEF SyncHolds, Differs, DiffersOut
  <2>3. QED  BY <2>1, <2>2
<1>3. ASSUME "source" \notin crossed'
      PROVE  /\ host' = Host
             /\ \A q : Differs(q)' => q \in applied' \/ (moving' # Nothing /\ q = moving'.path)
             /\ \A q : Differs(q)' /\ q \notin DOMAIN source' =>
                  changes[q] = "Deleted" \/ (moving' # Nothing /\ q = moving'.path)
  <2>1. "source" \notin crossed /\ ~OnWay("source", p)
    BY <1>3
  <2>2. /\ host' = host
        /\ \A q : q # p => /\ Entry(source', q) = Entry(source, q)
                           /\ q \in DOMAIN source => q \in DOMAIN source'
    BY <2>1 DEF Touched
  <2>3. \A q : q # p => (Differs(q)' <=> Differs(q))
    BY <2>2 DEF Differs
  <2>4. /\ host = Host
        /\ \A q : Differs(q) => q \in applied \/ (moving # Nothing /\ q = moving.path)
        /\ \A q : Differs(q) /\ q \notin DOMAIN source =>
             changes[q] = "Deleted" \/ (moving # Nothing /\ q = moving.path)
    BY <2>1 DEF SyncHolds
  <2>5. \A q : Differs(q)' => q \in applied' \/ (moving' # Nothing /\ q = moving'.path)
    <3> SUFFICES ASSUME NEW q, Differs(q)'
                 PROVE  q \in applied' \/ (moving' # Nothing /\ q = moving'.path)
      OBVIOUS
    <3>1. CASE q # p
      BY <2>3, <2>4, <3>1
    <3>2. QED  BY <3>1
  <2>6. \A q : Differs(q)' /\ q \notin DOMAIN source' =>
                  changes[q] = "Deleted" \/ (moving' # Nothing /\ q = moving'.path)
    <3> SUFFICES ASSUME NEW q, Differs(q)', q \notin DOMAIN source'
                 PROVE  changes[q] = "Deleted" \/ (moving' # Nothing /\ q = moving'.path)
      OBVIOUS
    <3>1. CASE q # p
      BY <2>2, <2>3, <2>4, <3>1
    <3>2. QED  BY <2>1, <3>1
  <2>7. QED  BY <2>2, <2>4, <2>5, <2>6
<1>4. QED
  BY <1>2, <1>3, ExclusionFixed DEF SyncHolds, Phases, Early

LEMMA SyncClear == ASSUME TreesHold, SyncHolds, Clear  PROVE SyncHolds'
<1>1. PICK p \in DOMAIN changes :
           /\ phase = "apply" /\ UNCHANGED <<changes, event, applied, mine>>
           /\ crossed' = crossed \cup {t \in {"copy", "source"} : OnWay(t, p)}
           /\ Touched(p)
           /\ \/ phase' = "failed" /\ UNCHANGED <<source, moving>>
              \/ \E type : phase' = "transfer" /\ moving' = [path |-> p, type |-> type]
                           /\ type \in {"file", "link"}
  BY ClearEffect
<1>2. crossed \subseteq crossed' /\ (OnWay("source", p) => "source" \in crossed')
  BY <1>1
<1>3. moving = Nothing
  BY <1>1 DEF SyncHolds
<1>4. CASE phase' = "failed"
  <2>1. host' = host
    BY <1>1, <1>4 DEF Clear
  <2>2. QED  BY <1>1, <1>2, <1>4, <2>1, SyncQuiet
<1>5. CASE phase' = "transfer"
  <2>1. moving'.path = p /\ moving' # Nothing
    BY <1>1, <1>5 DEF Nothing
  <2>2. QED  BY <1>1, <1>2, <1>3, <1>5, <2>1, SyncTouch
<1>6. QED  BY <1>1, <1>4, <1>5

LEMMA SyncTransfer == ASSUME TreesHold, SyncHolds, Transfer  PROVE SyncHolds'
<1> DEFINE p == moving.path
<1>1. /\ p \in DOMAIN changes /\ p \in Seq(Names) /\ p # <<>>
      /\ phase = "transfer" /\ UNCHANGED <<changes, event, mine>>
      /\ crossed' = crossed \cup {t \in {"copy", "source"} : OnWay(t, p)}
      /\ Touched(p)
      /\ \/ phase' = "failed" /\ UNCHANGED <<source, host, moving, applied>>
         \/ /\ phase' = "apply" /\ applied' = applied \cup {p} /\ moving' = Nothing
            /\ \E node \in Transferred(p, moving.type) : \E l \in Free(p, moving.type) :
                 source' = IF l.tree = "source" THEN Put(source, l.path, node) ELSE source
  BY TransferEffect
<1>2. crossed \subseteq crossed' /\ (OnWay("source", p) => "source" \in crossed')
  BY <1>1
<1>3. CASE phase' = "failed"
  BY <1>1, <1>2, <1>3, SyncQuiet
<1>4. CASE phase' = "apply"
  <2>1. PICK node \in Transferred(p, moving.type) : \E l \in Free(p, moving.type) :
          source' = IF l.tree = "source" THEN Put(source, l.path, node) ELSE source
    BY <1>1, <1>4
  <2>0. PICK l \in Free(p, moving.type) :
          source' = IF l.tree = "source" THEN Put(source, l.path, node) ELSE source
    BY <2>1
  <2>2. ~OnWay("source", p) => p \in DOMAIN source'
    <3>1. ~OnWay("source", p) => l.tree = "source" /\ l.path = p
      BY <1>1, StraightPlaceIs DEF Free
    <3>2. QED  BY <2>0, <3>1, PutNode
  <2>3. p \in applied' /\ applied \subseteq applied' /\ moving' = Nothing
    BY <1>1, <1>4
  <2>4. applied' \subseteq applied \cup {p}
    BY <1>1, <1>4
  <2>5. moving # Nothing => moving.path = p
    OBVIOUS
  <2> HIDE DEF p
  <2>6. QED  BY <1>1, <1>2, <1>4, <2>2, <2>3, <2>4, <2>5, SyncTouch
<1>5. QED  BY <1>1, <1>3, <1>4

LEMMA SyncRemove == ASSUME TreesHold, SyncHolds, RemoveDeleted  PROVE SyncHolds'
<1>1. PICK p \in DOMAIN changes :
           /\ changes[p] = "Deleted" /\ applied' = applied \cup {p}
           /\ phase = "apply" /\ UNCHANGED <<phase, changes, moving, event, mine>>
           /\ crossed' = crossed \cup {t \in {"source"} : OnWay(t, p)}
           /\ Touched(p)
  BY RemoveEffect
<1>2. crossed \subseteq crossed' /\ (OnWay("source", p) => "source" \in crossed')
  BY <1>1
<1>3. moving = Nothing
  BY <1>1 DEF SyncHolds
<1>4. QED  BY <1>1, <1>2, <1>3, SyncTouch

LEMMA SyncSkip == ASSUME SyncHolds, Skip, crossed \subseteq crossed'  PROVE SyncHolds'
<1>1. PICK p \in Waiting :
      /\ phase = "apply" /\ UNCHANGED <<phase, changes, moving, source, host, mine, event>>
      /\ applied' = applied \cup {p}
  BY DEF Skip, userVars
<1>2. p \in DOMAIN changes
  BY <1>1 DEF Waiting
<1>3. \A q : (Differs(q)' <=> Differs(q)) /\ (DiffersOut(q)' <=> DiffersOut(q))
  BY <1>1 DEF Differs, DiffersOut, Entry
<1>4. QED  BY <1>1, <1>2, <1>3, ExclusionFixed DEF SyncHolds, Phases, Early

LEMMA SyncStep == ASSUME TreesHold, SyncHolds, [Next]_vars  PROVE SyncHolds'
<1>0. crossed \subseteq crossed'
  BY CrossedGrows
<1>1. CASE CopyExcluded \/ CopyEntry \/ SnapshotBefore \/ LeaveAlone \/ Approve \/ EndSync
  <2>1. /\ UNCHANGED <<source, host, mine, changes, applied, moving>>
        /\ \/ phase' = phase /\ event' = event
           \/ phase \in Early /\ phase' \in {"run", "ask", "apply", "done", "failed"}
           \/ phase = "apply" /\ phase' = "done" /\ event'.approved
    BY <1>1 DEF CopyExcluded, CopyEntry, CopyUnaffected, SnapshotBefore, LeaveAlone, Approve,
       EndSync, Tell, userVars, commandVars, walkVars, Early
  <2>2. QED  BY <1>0, <2>1, SyncQuiet
<1>2. CASE Command \/ UNCHANGED vars
  <2>1. UNCHANGED <<phase, event, source, host, mine, changes, applied, moving>>
    BY <1>2, CommandEffect DEF vars
  <2>2. QED  BY <1>0, <2>1, SyncQuiet
<1>3. CASE User
  BY <1>3, SyncEdit DEF User
<1>4. QED
  BY <1>0, <1>1, <1>2, <1>3, SyncCollect, SyncClear, SyncTransfer, SyncRemove, SyncSkip
  DEF Next, Materialize, SyncBack

LEMMA SyncInit == Init => SyncHolds
BY DEF Init, SyncHolds, Phases, Early, Differs, DiffersOut, Empty


-----------------------------------------------------------------------------
(* The trees                                                                *)

LEMMA FoundIs ==
  ASSUME NEW r, NEW f \in Found(r)
  PROVE  \E l \in Followed("copy", r) : \E q \in DOMAIN Tree(l.tree) :
           /\ IsPrefix(l.path, q) /\ Is(Tree(l.tree), q, "file")
           /\ f.path = r \o Onward(q, Len(l.path)) /\ f.node = Tree(l.tree)[q]
<1> DEFINE S(l) == {q \in DOMAIN Tree(l.tree) : IsPrefix(l.path, q) /\ Tree(l.tree)[q].type = "file"}
           F(l) == {[path |-> r \o SubSeq(q, Len(l.path) + 1, Len(q)), node |-> Tree(l.tree)[q]] : q \in S(l)}
<1>1. Found(r) = UNION {F(l) : l \in Followed("copy", r)}
  BY DEF Found
<1>2. PICK l \in Followed("copy", r) : f \in F(l)
  BY <1>1
<1>3. PICK q \in S(l) : f = [path |-> r \o SubSeq(q, Len(l.path) + 1, Len(q)), node |-> Tree(l.tree)[q]]
  BY <1>2
<1>4. QED  BY <1>3 DEF Onward, Is

LEMMA IsFound ==
  ASSUME NEW r, NEW l \in Followed("copy", r), NEW q \in DOMAIN Tree(l.tree),
         IsPrefix(l.path, q), Is(Tree(l.tree), q, "file")
  PROVE  [path |-> r \o Onward(q, Len(l.path)), node |-> Tree(l.tree)[q]] \in Found(r)
<1> DEFINE S(k) == {x \in DOMAIN Tree(k.tree) : IsPrefix(k.path, x) /\ Tree(k.tree)[x].type = "file"}
           F(k) == {[path |-> r \o SubSeq(x, Len(k.path) + 1, Len(x)), node |-> Tree(k.tree)[x]] : x \in S(k)}
<1>1. Found(r) = UNION {F(k) : k \in Followed("copy", r)}
  BY DEF Found
<1>2. q \in S(l)
  BY DEF Is
<1>3. [path |-> r \o Onward(q, Len(l.path)), node |-> Tree(l.tree)[q]] \in F(l)
  BY <1>2 DEF Onward
<1> HIDE DEF F
<1>4. QED  BY <1>1, <1>3

LEMMA FoundPath ==
  ASSUME TreesStand, NEW r \in Roots, NEW f \in Found(r)
  PROVE  f.path \in Seq(Names) /\ f.node.type = "file"
<1>1. PICK l \in Followed("copy", r) : \E q \in DOMAIN Tree(l.tree) :
        /\ IsPrefix(l.path, q) /\ Is(Tree(l.tree), q, "file")
        /\ f.path = r \o Onward(q, Len(l.path)) /\ f.node = Tree(l.tree)[q]
  BY FoundIs
<1>2. PICK q \in DOMAIN Tree(l.tree) :
        /\ IsPrefix(l.path, q) /\ Is(Tree(l.tree), q, "file")
        /\ f.path = r \o Onward(q, Len(l.path)) /\ f.node = Tree(l.tree)[q]
  BY <1>1
<1>3. r \in Seq(Names) /\ "copy" \in Trees
  BY ReplicaAssumption DEF Trees
<1>4. IsTree(Tree(l.tree)) /\ l.path \in Seq(Names)
  BY <1>3, FollowedIs
<1>5. q \in Seq(Names)
  BY <1>4, TreeOf
<1>6. Len(l.path) \in 0 .. Len(q)
  BY <1>2, <1>4, <1>5, PrefixIsUpto, LenProperties
<1>7. Onward(q, Len(l.path)) \in Seq(Names)
  BY <1>5, <1>6, OnwardOf
<1>8. QED  BY <1>2, <1>3, <1>7, ConcatProperties DEF Is

LEMMA SnapshotOf ==
  /\ \A p : p \in DOMAIN Snapshot <=> \E f \in Recorded : f.path = p
  /\ \A p \in DOMAIN Snapshot : \E f \in Recorded : f.path = p /\ Snapshot[p] = Fingerprint(f.node)
<1>1. DOMAIN Snapshot = {f.path : f \in Recorded}
  BY DEF Snapshot
<1>2. ASSUME NEW p \in DOMAIN Snapshot
      PROVE  \E f \in Recorded : f.path = p /\ Snapshot[p] = Fingerprint(f.node)
  <2> DEFINE g == CHOOSE f \in Recorded : f.path = p
  <2>1. g \in Recorded /\ g.path = p
    BY <1>1
  <2>2. Snapshot[p] = Fingerprint(g.node)
    BY <1>1 DEF Snapshot
  <2>3. QED  BY <2>1, <2>2
<1>3. QED  BY <1>1, <1>2

LEMMA SnapshotPaths == ASSUME TreesStand  PROVE DOMAIN Snapshot \subseteq Seq(Names)
<1> SUFFICES ASSUME NEW p \in DOMAIN Snapshot  PROVE p \in Seq(Names)
  OBVIOUS
<1>1. PICK f \in Recorded : f.path = p
  BY SnapshotOf
<1>2. PICK r \in Roots : f \in Found(r)
  BY DEF Recorded
<1>3. QED  BY <1>1, <1>2, FoundPath

LEMMA TreesInit == Init => TreesHold
<1> SUFFICES ASSUME Init  PROVE TreesHold
  OBVIOUS
<1>1. source \in Workspaces /\ mine = source /\ host = Host /\ before = Empty /\ changes = Empty
  BY DEF Init
<1>2. IsTree(source) /\ IsTree(host)
  BY <1>1, ReplicaAssumption
<1>3. copy = [p \in {<<>>} |-> Dir]
  BY DEF Init
<1>4. IsTree(copy)
  <2>1. DOMAIN copy = {<<>>} /\ copy[<<>>] = Dir /\ <<>> \in Seq(Names) /\ Len(<<>>) = 0
    BY <1>3, EmptySeq
  <2>2. copy = [p \in DOMAIN copy |-> copy[p]]
    BY <1>3
  <2>3. 0 .. (0 - 1) = {}
    OBVIOUS
  <2>4. \A p \in DOMAIN copy : \A n \in 0 .. Len(p) - 1 : Is(copy, Upto(p, n), "dir")
    BY <2>1, <2>3
  <2>5. Is(copy, <<>>, "dir")
    BY <2>1, Kinds DEF Is
  <2>6. \A p \in DOMAIN copy : copy[p].type \in Types /\ (copy[p].type = "link" => copy[p].to \in Places)
    BY <2>1, Kinds DEF Types
  <2>7. QED  BY <2>1, <2>2, <2>4, <2>5, <2>6, TreeBy
<1>5. DOMAIN mine \subseteq Seq(Names) /\ Is(source, <<>>, "dir")
  BY <1>1, <1>2, TreeOf
<1>6. DOMAIN before = {} /\ DOMAIN changes = {}
  BY <1>1 DEF Empty
<1>7. \A e \in todo : Front(e.path) = <<>>
  <2>1. todo = Entries(<<>>)
    BY DEF Init
  <2>2. QED  BY <2>1 DEF Entries, Children
<1>8. \A p \in DOMAIN copy : p = <<>>
  BY <1>3
<1>9. ~Is(mine, <<>>, "file")
  BY <1>1, <1>5 DEF Is
<1>10. Is(copy, <<>>, "dir")
  BY <1>4, TreeOf
<1>11. \A e \in todo : Is(copy, Front(e.path), "dir")
  BY <1>7, <1>10
<1>12. \A p : Is(copy, p, "dir") => Is(source, p, "dir")
  BY <1>5, <1>8 DEF Is
<1>13. QED  BY <1>2, <1>4, <1>5, <1>6, <1>9, <1>11, <1>12 DEF TreesHold, TreesStand

LEMMA TreesAre ==
  ASSUME IsTree(source'), IsTree(copy'), IsTree(host')  PROVE TreesStand'
BY TreesPrimed DEF TreesStand

LEMMA IsPrimed == \A p, type : /\ Is(source, p, type)' <=> Is(source', p, type)
                               /\ Is(copy, p, type)' <=> Is(copy', p, type)
                               /\ Is(mine, p, type)' <=> Is(mine', p, type)
BY DEF Is

(* Steps that leave the trees alone, and the recorded paths too, or take a  *)
(* snapshot                                                                 *)
LEMMA TreesQuiet ==
  ASSUME TreesHold, UNCHANGED <<source, copy, host, mine>>, phase' = "copy" => phase = "copy",
         todo' \subseteq todo, before' = before \/ before' = Snapshot,
         DOMAIN changes' \subseteq Seq(Names) \ {<<>>}
  PROVE  TreesHold'
<1>1. TreesStand'
  BY TreesAre DEF TreesHold, TreesStand
<1>2. DOMAIN before' \subseteq Seq(Names)
  BY SnapshotPaths DEF TreesHold
<1>3. QED  BY <1>1, <1>2, IsPrimed DEF TreesHold

LEMMA TreesCollect == ASSUME TreesHold, SnapshotAfter  PROVE TreesHold'
<1> DEFINE diff == Diff(before, Snapshot)
<1>1. /\ phase' = "ask" /\ changes' = [p \in Collected(diff) |-> diff[p]]
      /\ UNCHANGED <<source, copy, host, mine, todo, before>>
  BY DEF SnapshotAfter, userVars, commandVars
<1>2. DOMAIN diff \subseteq DOMAIN before \cup DOMAIN Snapshot
  BY DEF Diff
<1>3. DOMAIN diff \subseteq Seq(Names)
  BY <1>2, SnapshotPaths DEF TreesHold
<1>4. DOMAIN changes' = Collected(diff)
  BY <1>1
<1>5. Collected(diff) \subseteq DOMAIN diff \ {<<>>}
  BY DEF Collected
<1>6. QED  BY <1>1, <1>3, <1>4, <1>5, TreesQuiet

LEMMA UserKeepsTree ==
  ASSUME TreesHold, NEW p \in Paths, Save(p) \/ RemoveOwn(p)
  PROVE  /\ IsTree(source') /\ \A q : Is(source, q, "dir") => Is(source', q, "dir")
         /\ DOMAIN mine' \subseteq Seq(Names) /\ ~Is(mine', <<>>, "file")
<1>1. p \in Seq(Names) /\ p # <<>> /\ IsTree(source)
  BY ReplicaAssumption DEF TreesHold, TreesStand
<1>2. ~Is(source, p, "dir")
  BY UserEffect DEF Is, CanMake
<1>3. \A q : Is(source, q, "dir") => Is(source', q, "dir")
  BY <1>2, UserSpares DEF Is
<1>4. /\ \A q \in DOMAIN mine' : q \in DOMAIN mine \/ q = p
      /\ Is(mine', <<>>, "file") => Is(mine, <<>>, "file")
  BY <1>1, UserSpares DEF Is
<1>5. CASE /\ Is(source, p, "file") \/ CanMake(source, p)
           /\ source' = Put(source, p, File("user", 2))
  <2>1. Is(source, Front(p), "dir")
    <3>1. CASE CanMake(source, p)
      BY <3>1 DEF CanMake
    <3>2. CASE Is(source, p, "file")
      <4>1. Front(p) = Upto(p, Len(p) - 1) /\ Len(p) - 1 \in 0 .. Len(p) - 1 /\ p \in DOMAIN source
        BY <1>1, <3>2, FrontIsUpto, EmptySeq DEF Is
      <4>2. QED  BY <1>1, <4>1, TreeOf
    <3>3. QED  BY <1>5, <3>1, <3>2
  <2>2. PICK node : node = File("user", 2)
    OBVIOUS
  <2>3. node.type = "file"
    BY <2>2, Kinds
  <2>4. QED  BY <1>1, <1>2, <1>3, <1>4, <1>5, <2>1, <2>2, <2>3, PutKeepsTree DEF Types, TreesHold
<1>6. CASE source' = Drop(source, p)
  <2>1. source' = Less(source, {p})
    BY <1>6 DEF Drop
  <2>2. IsTree(source')
    BY <1>1, <1>2, <2>1, LessKeepsTree
  <2>3. QED  BY <1>1, <1>3, <1>4, <2>2 DEF TreesHold
<1>7. QED  BY <1>5, <1>6, UserEffect

LEMMA TreesUser == ASSUME TreesHold, NEW p \in Paths, Save(p) \/ RemoveOwn(p)  PROVE TreesHold'
<1>1. UNCHANGED <<phase, copy, host, todo, before, changes>>
  BY UserEffect
<1>2. /\ IsTree(source') /\ \A q : Is(source, q, "dir") => Is(source', q, "dir")
      /\ DOMAIN mine' \subseteq Seq(Names) /\ ~Is(mine', <<>>, "file")
  BY UserKeepsTree
<1>3. TreesStand'
  BY <1>1, <1>2, TreesAre DEF TreesHold, TreesStand
<1>4. QED  BY <1>1, <1>2, <1>3, IsPrimed DEF TreesHold

LEMMA TreesCommand == ASSUME TreesHold, Command  PROVE TreesHold'
<1>1. phase # "copy" /\ UNCHANGED <<phase, source, host, mine, todo, before, changes>>
  BY CommandEffect
<1>2. PICK p \in Paths :
        \/ /\ Is(copy, p, "file") \/ CanMake(copy, p)
           /\ \E node : Written(node) /\ (node.type # "file" => CanMake(copy, p))
                        /\ copy' = Put(copy, p, node)
        \/ copy' = Without(copy, p)
  BY CommandEffect
<1>3. p \in Seq(Names) /\ p # <<>> /\ IsTree(copy)
  BY ReplicaAssumption DEF TreesHold, TreesStand
<1>4. copy' = Without(copy, p) => IsTree(copy')
  BY <1>3, WithoutKeepsTree
<1>5. ASSUME Is(copy, p, "file") \/ CanMake(copy, p), NEW node, Written(node), copy' = Put(copy, p, node)
      PROVE  IsTree(copy')
  <2>1. Is(copy, Front(p), "dir")
    <3>1. CASE CanMake(copy, p)
      BY <3>1 DEF CanMake
    <3>2. CASE Is(copy, p, "file")
      <4>1. Front(p) = Upto(p, Len(p) - 1) /\ Len(p) - 1 \in 0 .. Len(p) - 1 /\ p \in DOMAIN copy
        BY <1>3, <3>2, FrontIsUpto, EmptySeq DEF Is
      <4>2. QED  BY <1>3, <4>1, TreeOf
    <3>3. QED  BY <1>5, <3>1, <3>2
  <2>2. ~Is(copy, p, "dir")
    BY <1>5 DEF Is, CanMake
  <2>3. node.type \in Types /\ (node.type = "link" => node.to \in Places)
    <3>1. CASE \E to \in Targets : node = Link(to)
      BY <3>1, Kinds, ReplicaAssumption DEF Types
    <3>2. CASE node = Dir \/ \E s : node = File("command", s)
      BY <3>2, Kinds DEF Types
    <3>3. QED  BY <1>5, <3>1, <3>2 DEF Written
  <2>4. QED  BY <1>3, <1>5, <2>1, <2>2, <2>3, PutKeepsTree
<1>6. IsTree(copy')
  BY <1>2, <1>4, <1>5
<1>7. TreesStand'
  BY <1>1, <1>6, TreesAre DEF TreesHold, TreesStand
<1>8. QED  BY <1>1, <1>7, IsPrimed DEF TreesHold

LEMMA TreesTouch ==
  ASSUME TreesHold, NEW p, Touched(p), phase # "copy", phase' # "copy",
         UNCHANGED <<copy, mine, before, changes>>
  PROVE  TreesHold'
<1>1. TreesStand'
  BY TreesAre DEF TreesHold, TreesStand, Touched
<1>2. QED  BY <1>1, IsPrimed DEF TreesHold

(* The copy grows from the root.                                            *)
LEMMA TreesCopy == ASSUME TreesHold, CopyHolds, CopyEntry  PROVE TreesHold'
<1>1. PICK e \in todo :
      IF e.path \notin DOMAIN source
      THEN phase' = "failed" /\ UNCHANGED <<copy, todo>>
      ELSE /\ copy' = Put(copy, e.path, CopyOf(e.path, e.type))
           /\ todo' = (todo \ {e}) \cup (IF e.type = "dir" THEN Entries(e.path) ELSE {})
           /\ UNCHANGED phase
  BY DEF CopyEntry
<1>2. phase = "copy" /\ UNCHANGED <<source, host, mine, before, changes>>
  BY DEF CopyEntry, CopyUnaffected, walkVars
<1>3. CASE e.path \notin DOMAIN source
  BY <1>1, <1>2, <1>3, TreesQuiet DEF TreesHold
<1>4. CASE e.path \in DOMAIN source
  <2> DEFINE p == e.path
             node == CopyOf(p, e.type)
  <2>1. /\ IsTree(source) /\ IsTree(copy) /\ Is(copy, Front(p), "dir")
        /\ Is(copy, p, "dir") => Is(source, p, "dir")
    BY <1>2 DEF TreesHold, TreesStand
  <2>2. p \in Seq(Names) /\ p # <<>> /\ source[p].type = e.type /\ e.type \in Types
    BY <1>2, <1>4 DEF CopyHolds, EntryHolds
  <2>3. node.type = e.type
    BY <2>2, Kinds DEF CopyOf, Types
  <2>4. node.type = "link" => node.to \in Places
    <3>1. e.type = "link" => node = source[p]
      BY DEF CopyOf
    <3>2. QED  BY <1>4, <2>1, <2>2, <2>3, <3>1, TreeOf
  <2>5. copy' = Put(copy, p, node) /\ phase' = "copy"
        /\ todo' = (todo \ {e}) \cup (IF e.type = "dir" THEN Entries(p) ELSE {})
    BY <1>1, <1>2, <1>4
  <2> HIDE DEF node
  <2>6. Is(copy, p, "dir") => node.type = "dir"
    BY <2>1, <2>2, <2>3 DEF Is
  <2>7. IsTree(copy')
    BY <2>1, <2>2, <2>3, <2>4, <2>5, <2>6, PutKeepsTree
  <2>8. /\ copy'[p] = node
        /\ \A q : q \in DOMAIN copy' <=> q \in DOMAIN copy \/ q = p
        /\ \A q : q \in DOMAIN copy /\ q # p => copy'[q] = copy[q]
    BY <2>5, PutNode
  <2>9. \A q : Is(copy', q, "dir") => Is(source, q, "dir")
    <3>1. \A q : Is(copy, q, "dir") => Is(source, q, "dir")
      BY <1>2 DEF TreesHold
    <3>2. \A q : q # p => (Is(copy', q, "dir") => Is(copy, q, "dir"))
      BY <2>8 DEF Is
    <3>3. Is(copy', p, "dir") => Is(source, p, "dir")
      BY <1>4, <2>2, <2>3, <2>8 DEF Is
    <3>4. QED  BY <3>1, <3>2, <3>3
  <2>10. \A q : Is(copy, q, "dir") => Is(copy', q, "dir")
    <3>1. \A q : q # p => (Is(copy, q, "dir") => Is(copy', q, "dir"))
      BY <2>8 DEF Is
    <3>2. Is(copy, p, "dir") => Is(copy', p, "dir")
      BY <2>6, <2>8 DEF Is
    <3>3. QED  BY <3>1, <3>2
  <2>11. \A f \in todo' : Is(copy', Front(f.path), "dir")
    <3> SUFFICES ASSUME NEW f \in todo'  PROVE Is(copy', Front(f.path), "dir")
      OBVIOUS
    <3>1. CASE f \in todo
      BY <1>2, <2>10, <3>1 DEF TreesHold
    <3>2. CASE f \notin todo
      <4>1. e.type = "dir" /\ f \in Entries(p)
        BY <2>5, <3>2
      <4>2. Front(f.path) = p
        BY <4>1 DEF Entries, Children
      <4>3. Is(copy', p, "dir")
        BY <2>3, <2>8, <4>1 DEF Is
      <4>4. QED  BY <4>2, <4>3
    <3>3. QED  BY <3>1, <3>2
  <2>12. TreesStand'
    BY <1>2, <2>7, TreesAre DEF TreesHold, TreesStand
  <2>13. QED  BY <1>2, <2>9, <2>11, <2>12, IsPrimed DEF TreesHold
<1>5. QED  BY <1>3, <1>4

LEMMA TreesStep == ASSUME TreesHold, SyncHolds, CopyHolds, [Next]_vars  PROVE TreesHold'
<1>1. CASE CopyExcluded \/ SnapshotBefore \/ LeaveAlone \/ Approve \/ EndSync \/ Skip \/ UNCHANGED vars
  <2>1. /\ UNCHANGED <<source, copy, host, mine, changes>>
        /\ phase' = "copy" => phase = "copy"
        /\ todo' \subseteq todo /\ (before' = before \/ before' = Snapshot)
    BY <1>1 DEF CopyExcluded, CopyUnaffected, SnapshotBefore, LeaveAlone, Approve, EndSync, Skip,
       userVars, commandVars, walkVars, vars
  <2>2. DOMAIN changes' \subseteq Seq(Names) \ {<<>>}
    BY <2>1 DEF TreesHold
  <2>3. QED  BY <2>1, <2>2, TreesQuiet
<1>2. CASE User
  BY <1>2, TreesUser DEF User
<1>3. CASE Clear \/ Transfer \/ RemoveDeleted
  <2>1. \E p : Touched(p) /\ phase # "copy" /\ phase' # "copy" /\ UNCHANGED <<copy, mine, before, changes>>
    <3>1. CASE Clear
      <4>1. PICK p : /\ Touched(p) /\ phase = "apply" /\ UNCHANGED <<copy, mine, before, changes>>
                     /\ phase' = "failed" \/ phase' = "transfer"
        BY <3>1, ClearEffect
      <4>2. QED  BY <4>1
    <3>2. CASE Transfer
      <4>1. /\ Touched(moving.path) /\ phase = "transfer" /\ UNCHANGED <<copy, mine, before, changes>>
            /\ phase' = "failed" \/ phase' = "apply"
        BY <3>2, TransferEffect
      <4>2. QED  BY <4>1
    <3>3. CASE RemoveDeleted
      <4>1. PICK p : /\ Touched(p) /\ phase = "apply" /\ UNCHANGED <<phase, copy, mine, before, changes>>
        BY <3>3, RemoveEffect
      <4>2. QED  BY <4>1
    <3>4. QED  BY <1>3, <3>1, <3>2, <3>3
  <2>2. QED  BY <2>1, TreesTouch
<1>4. QED
  BY <1>1, <1>2, <1>3, TreesCollect, TreesCommand, TreesCopy DEF Next, Materialize, SyncBack

-----------------------------------------------------------------------------
(* The copy                                                                 *)

LEMMA Fixed ==
  /\ \A p : /\ ShouldExclude(p, TRUE)' <=> ShouldExclude(p, TRUE)
            /\ ShouldExclude(p, FALSE)' <=> ShouldExclude(p, FALSE)
  /\ \A p : /\ Wanted(p, TRUE)' <=> Wanted(p, TRUE)
            /\ Wanted(p, FALSE)' <=> Wanted(p, FALSE)
  /\ \A p : Beneath(p)' <=> Beneath(p)
<1>1. \A p : /\ ShouldExclude(p, TRUE)' <=> ShouldExclude(p, TRUE)
             /\ ShouldExclude(p, FALSE)' <=> ShouldExclude(p, FALSE)
  BY DEF ShouldExclude, IgnoredByUser, ExcludedByDefault
<1>2. \A p : /\ Wanted(p, TRUE)' <=> Wanted(p, TRUE)
             /\ Wanted(p, FALSE)' <=> Wanted(p, FALSE)
  BY DEF Wanted, ShouldExclude, IgnoredByUser, ExcludedByDefault
<1>3. \A p : Beneath(p)' <=> Beneath(p)
  BY DEF Beneath
<1>4. QED  BY <1>1, <1>2, <1>3

LEMMA WantedParts ==
  ASSUME NEW p \in Seq(Names), p # <<>>, NEW b \in BOOLEAN
  PROVE  Wanted(p, b) <=> /\ \A n \in 1 .. Len(p) - 1 : ~ShouldExclude(Upto(p, n), TRUE)
                          /\ ~ShouldExclude(p, b)
<1>1. Len(p) \in Nat \ {0} /\ Upto(p, Len(p)) = p
  BY EmptySeq, UptoAll
<1>2. \A n \in 1 .. Len(p) - 1 : (b \/ n < Len(p)) = TRUE
  BY <1>1
<1>3. (b \/ Len(p) < Len(p)) = b
  BY <1>1
<1>4. \A n \in 1 .. Len(p) - 1 : ShouldExclude(Upto(p, n), b \/ n < Len(p)) <=> ShouldExclude(Upto(p, n), TRUE)
  BY <1>2
<1>5. ShouldExclude(Upto(p, Len(p)), b \/ Len(p) < Len(p)) <=> ShouldExclude(p, b)
  BY <1>1, <1>3
<1>6. 1 .. Len(p) = (1 .. Len(p) - 1) \cup {Len(p)}
  BY <1>1
<1>7. Wanted(p, b) <=> \A n \in 1 .. Len(p) : ~ShouldExclude(Upto(p, n), b \/ n < Len(p))
  BY DEF Wanted, Upto
<1>8. QED  BY <1>4, <1>5, <1>6, <1>7

LEMMA NodeFixed == \A p, type : WantedNode(p, type)' <=> WantedNode(p, type)
BY Fixed DEF WantedNode

LEMMA WantedNodeParts ==
  ASSUME NEW p \in Seq(Names), p # <<>>, NEW type
  PROVE  WantedNode(p, type) <=> /\ \A n \in 1 .. Len(p) - 1 : ~ShouldExclude(Upto(p, n), TRUE)
                                 /\ ~ExcludedNode(p, type)
<1>1. /\ Wanted(p, TRUE) <=> /\ \A n \in 1 .. Len(p) - 1 : ~ShouldExclude(Upto(p, n), TRUE)
                             /\ ~ShouldExclude(p, TRUE)
      /\ Wanted(p, FALSE) <=> /\ \A n \in 1 .. Len(p) - 1 : ~ShouldExclude(Upto(p, n), TRUE)
                              /\ ~ShouldExclude(p, FALSE)
  BY WantedParts
<1>2. QED  BY <1>1 DEF WantedNode, ExcludedNode

LEMMA ExcludedAs == \A p, type : ShouldExclude(p, type = "dir") <=> ExcludedNode(p, type)
<1> SUFFICES ASSUME NEW p, NEW type
             PROVE  ShouldExclude(p, type = "dir") <=> ExcludedNode(p, type)
  OBVIOUS
<1>1. CASE type = "dir"
  <2>1. (type = "dir") = TRUE
    BY <1>1
  <2>2. QED  BY <1>1, <2>1 DEF ExcludedNode
<1>2. CASE type # "dir"
  <2>1. (type = "dir") = FALSE
    BY <1>2
  <2>2. QED  BY <1>2, <2>1 DEF ExcludedNode
<1>3. QED  BY <1>1, <1>2

LEMMA EntriesAre ==
  ASSUME NEW d, NEW e \in Entries(d)
  PROVE  /\ e.path \in DOMAIN source /\ e.path # <<>> /\ Front(e.path) = d
         /\ e.type = source[e.path].type
BY DEF Entries, Children

(* What lies beneath a directory lies beneath one of its entries.           *)
LEMMA EntryAbove ==
  ASSUME IsTree(source), NEW d \in DOMAIN source, NEW p \in DOMAIN source, IsPrefix(d, p), p # d
  PROVE  \E e \in Entries(d) : IsPrefix(e.path, p)
<1>1. d \in Seq(Names) /\ p \in Seq(Names) /\ Len(d) \in Nat /\ Len(p) \in Nat
  BY TreeOf, LenProperties
<1>2. Len(d) <= Len(p) /\ d = Upto(p, Len(d))
  BY <1>1, PrefixIsUpto
<1>3. Len(d) < Len(p)
  BY <1>1, <1>2, UptoAll
<1> DEFINE k == Len(d) + 1
           c == Upto(p, k)
<1>4. k \in 0 .. Len(p) /\ k # 0
  BY <1>1, <1>3
<1>5. c \in Seq(Names) /\ Len(c) = k /\ c # <<>>
  BY <1>1, <1>4, UptoOf, EmptySeq
<1>6. c \in DOMAIN source
  <2>1. CASE k = Len(p)
    BY <1>1, <2>1, UptoAll
  <2>2. CASE k # Len(p)
    <3>1. k \in 0 .. Len(p) - 1
      BY <1>1, <1>4, <2>2
    <3>2. QED  BY <3>1, TreeOf DEF Is
  <2>3. QED  BY <2>1, <2>2
<1>7. Front(c) = d
  <2>1. Len(d) \in 0 .. k /\ k - 1 = Len(d)
    BY <1>1
  <2>2. Front(c) = Upto(c, Len(d))
    BY <1>5, <2>1, FrontIsUpto
  <2>3. QED  BY <1>1, <1>2, <1>4, <2>1, <2>2, UptoUpto
<1>8. IsPrefix(c, p)
  BY <1>1, <1>4, <1>5, PrefixIsUpto
<1>9. [path |-> c, type |-> source[c].type] \in Entries(d)
  BY <1>5, <1>6, <1>7 DEF Entries, Children
<1>10. QED  BY <1>8, <1>9

LEMMA EntriesHold ==
  ASSUME IsTree(source), NEW d \in DOMAIN source,
         \A n \in 1 .. Len(d) : ~ShouldExclude(Upto(d, n), TRUE),
         NEW e \in Entries(d)
  PROVE  EntryHolds(e)
<1> DEFINE p == e.path
<1>1. p \in DOMAIN source /\ p # <<>> /\ Front(p) = d /\ e.type = source[p].type
  BY EntriesAre
<1>2. p \in Seq(Names) /\ e.type \in Types /\ Len(p) \in Nat \ {0}
  BY <1>1, TreeOf, EmptySeq
<1>3. Len(p) - 1 \in 0 .. Len(p) /\ d = Upto(p, Len(p) - 1) /\ Len(d) = Len(p) - 1
  BY <1>1, <1>2, FrontIsUpto, UptoOf
<1>4. \A n \in 1 .. Len(p) - 1 : ~ShouldExclude(Upto(p, n), TRUE)
  <2> SUFFICES ASSUME NEW n \in 1 .. Len(p) - 1
               PROVE  ~ShouldExclude(Upto(p, n), TRUE)
    OBVIOUS
  <2>1. n \in 1 .. Len(d) /\ n \in 0 .. Len(p) - 1
    BY <1>2, <1>3
  <2>2. Upto(d, n) = Upto(p, n)
    BY <1>2, <1>3, <2>1, UptoUpto
  <2>3. QED  BY <2>1, <2>2
<1>5. QED  BY <1>1, <1>2, <1>4 DEF EntryHolds

(* Beneath an excluded entry nothing is wanted.                             *)
LEMMA NotBeneathExcluded ==
  ASSUME IsTree(source), NEW e, EntryHolds(e), NEW p \in DOMAIN source, IsPrefix(e.path, p),
         WantedNode(p, source[p].type)
  PROVE  ~ExcludedNode(e.path, e.type)
<1> DEFINE q == e.path
<1>1. p \in Seq(Names) /\ q \in Seq(Names) /\ q # <<>> /\ Len(p) \in Nat /\ Len(q) \in Nat \ {0}
  BY TreeOf, EmptySeq, LenProperties DEF EntryHolds
<1>2. Len(q) <= Len(p) /\ q = Upto(p, Len(q))
  BY <1>1, PrefixIsUpto
<1>3. p # <<>>
  BY <1>1, <1>2, EmptySeq
<1>4. CASE Len(q) = Len(p)
  <2>1. q = p
    BY <1>1, <1>2, <1>4, UptoAll
  <2>2. source[p].type = e.type
    BY <2>1 DEF EntryHolds
  <2>3. QED  BY <1>1, <1>3, <2>1, <2>2, WantedNodeParts
<1>5. CASE Len(q) # Len(p)
  <2>1. Len(q) \in 0 .. Len(p) - 1 /\ Len(q) \in 1 .. Len(p) - 1
    BY <1>1, <1>2, <1>5
  <2>2. Is(source, q, "dir")
    BY <1>2, <2>1, TreeOf
  <2>3. e.type = "dir"
    BY <2>2 DEF EntryHolds, Is
  <2>4. ~ShouldExclude(q, TRUE)
    BY <1>1, <1>2, <1>3, <2>1, WantedNodeParts
  <2>5. QED  BY <2>3, <2>4 DEF ExcludedNode
<1>6. QED  BY <1>4, <1>5

LEMMA CopyInit == Init => CopyHolds
<1> SUFFICES ASSUME Init  PROVE CopyHolds
  OBVIOUS
<1>1. /\ phase = "copy" /\ source = mine /\ todo = Entries(<<>>) /\ saved = {}
      /\ commandLeft = MaxCommand
  BY DEF Init
<1> ~hidden /\ ~raced /\ hidden \in BOOLEAN /\ raced \in BOOLEAN
  BY Zenon DEF Init
<1> copy = [q \in {<<>>} |-> Dir]
  BY Zenon DEF Init
<1>2. IsTree(source) /\ MaxCommand \in Nat
  BY ReplicaAssumption DEF Init
<1>3. Is(source, <<>>, "dir") /\ <<>> \in DOMAIN source /\ <<>> \in Seq(Names) /\ Len(<<>>) = 0
  BY <1>2, TreeOf, EmptySeq DEF Is
<1>4. \A e \in todo : EntryHolds(e)
  <2>1. \A n \in 1 .. Len(<<>>) : ~ShouldExclude(Upto(<<>>, n), TRUE)
    BY <1>3
  <2>2. QED  BY <1>1, <1>2, <1>3, <2>1, EntriesHold
<1>5. \A p \in DOMAIN copy : p = <<>> /\ copy[p] = Dir
  BY <1>1
<1>6. Wanted(<<>>, TRUE)
  BY <1>3 DEF Wanted
<1>7. \A p \in DOMAIN copy : p \in DOMAIN mine /\ SameNode(p) /\ WantedNode(p, mine[p].type)
  BY <1>1, <1>3, <1>5, <1>6, Kinds DEF SameNode, WantedNode, Is
<1>8. \A p \in DOMAIN mine : p \in DOMAIN copy \/ \E e \in todo : IsPrefix(e.path, p)
  <2> SUFFICES ASSUME NEW p \in DOMAIN mine, p # <<>>
               PROVE  \E e \in todo : IsPrefix(e.path, p)
    BY <1>1
  <2>1. p \in Seq(Names) /\ Len(p) \in Nat
    BY <1>1, <1>2, TreeOf, LenProperties
  <2>2. IsPrefix(<<>>, p)
    <3>1. Upto(p, Len(<<>>)) = <<>> /\ Len(<<>>) <= Len(p)
      BY <1>3, <2>1, UptoAll
    <3>2. QED  BY <1>3, <2>1, <3>1, PrefixIsUpto
  <2>3. QED  BY <1>1, <1>2, <1>3, <2>2, EntryAbove
<1>9. CopyFilters
  BY <1>1, <1>7, <1>8 DEF CopyFilters
<1>10. CopyForeign
  BY <1>5, Kinds DEF CopyForeign
<1>11. SourceForeign /\ host = Host
  BY ReplicaAssumption DEF Init, SourceForeign
<1>12. QED  BY <1>1, <1>2, <1>4, <1>9, <1>10, <1>11 DEF CopyHolds

(* Once the command has run, the copy is of no more interest to the filter. *)
LEMMA CopyLater ==
  ASSUME CopyHolds, UNCHANGED <<commandLeft, hidden, raced>>, phase' \notin {"copy", "run"}
  PROVE  CopyHolds'
BY DEF CopyHolds

LEMMA EntryKept ==
  ASSUME NEW e, EntryHolds(e), source' = source
  PROVE  EntryHolds(e)'
BY Fixed DEF EntryHolds, Upto

LEMMA CopyExcludedHolds == ASSUME TreesHold, CopyHolds, CopyExcluded  PROVE CopyHolds'
<1>1. PICK e \in todo : ExcludedNode(e.path, e.type) /\ todo' = todo \ {e}
  BY ExcludedAs DEF CopyExcluded
<1>2. /\ phase = "copy"
      /\ UNCHANGED <<phase, copy, source, host, mine, saved, commandLeft, hidden, raced>>
  BY DEF CopyExcluded, CopyUnaffected, walkVars
<1>3. /\ source = mine /\ IsTree(source) /\ CopyFilters /\ commandLeft = MaxCommand
      /\ \A f \in todo : EntryHolds(f)
  BY <1>2 DEF CopyHolds, TreesHold, TreesStand
<1>4. \A f \in todo' : EntryHolds(f)'
  BY <1>1, <1>2, <1>3, EntryKept
<1>5. \A p \in DOMAIN mine' \ saved' :
        WantedNode(p, mine'[p].type) => p \in DOMAIN copy' \/ \E f \in todo' : IsPrefix(f.path, p)
  <2> SUFFICES ASSUME NEW p \in DOMAIN mine, p \notin saved, WantedNode(p, mine[p].type),
                      p \notin DOMAIN copy
               PROVE  \E f \in todo' : IsPrefix(f.path, p)
    BY <1>2
  <2>1. PICK f \in todo : IsPrefix(f.path, p)
    BY <1>3 DEF CopyFilters
  <2>2. f # e
    BY <1>1, <1>3, <2>1, NotBeneathExcluded
  <2>3. QED  BY <1>1, <2>1, <2>2
<1>6. \A p \in DOMAIN copy' \ saved' : p \in DOMAIN mine' /\ SameNode(p)' /\ WantedNode(p, mine'[p].type)
  BY <1>2, <1>3 DEF CopyFilters, SameNode
<1>7. CopyFilters'
  BY <1>5, <1>6, NodeFixed DEF CopyFilters
<1>8. SourceForeign' /\ CopyForeign'
  BY <1>2 DEF CopyHolds, SourceForeign, CopyForeign, IsForeign
<1>9. QED  BY <1>2, <1>3, <1>4, <1>7, <1>8 DEF CopyHolds

(* What an entry is copied as                                               *)
LEMMA CopyOfNode ==
  ASSUME NEW e, EntryHolds(e), e.path \in DOMAIN source
  PROVE  LET c == CopyOf(e.path, e.type) IN
           /\ c.type = source[e.path].type
           /\ c.type = "file" => c.text = source[e.path].text /\ c.stamp = 0
           /\ c.type = "link" => c.to = source[e.path].to
<1>1. e.type = source[e.path].type /\ e.type \in Types
  BY DEF EntryHolds
<1>2. CASE e.type = "dir"
  BY <1>1, <1>2, Kinds DEF CopyOf
<1>3. CASE e.type = "file"
  BY <1>1, <1>3, Kinds DEF CopyOf
<1>4. CASE e.type = "link"
  BY <1>1, <1>4 DEF CopyOf
<1>5. QED  BY <1>1, <1>2, <1>3, <1>4 DEF Types

LEMMA CopyEntryHolds == ASSUME TreesHold, CopyHolds, CopyEntry  PROVE CopyHolds'
<1>1. PICK e \in todo :
      /\ ~ExcludedNode(e.path, e.type)
      /\ \/ e.path \notin DOMAIN source /\ phase' = "failed"
         \/ /\ e.path \in DOMAIN source /\ phase' = phase
            /\ copy' = Put(copy, e.path, CopyOf(e.path, e.type))
            /\ todo' = (todo \ {e}) \cup (IF e.type = "dir" THEN Entries(e.path) ELSE {})
  BY ExcludedAs DEF CopyEntry
<1>2. phase = "copy" /\ UNCHANGED <<source, host, mine, saved, commandLeft, hidden, raced>>
  BY DEF CopyEntry, CopyUnaffected, walkVars
<1>3. /\ source = mine /\ IsTree(source) /\ CopyFilters /\ commandLeft = MaxCommand
      /\ \A f \in todo : EntryHolds(f)
      /\ SourceForeign /\ CopyForeign
  BY <1>2 DEF CopyHolds, TreesHold, TreesStand
<1>4. CASE phase' = "failed"
  BY <1>2, <1>4, CopyLater
<1>5. CASE phase' # "failed"
  <2> DEFINE d == e.path
             c == CopyOf(e.path, e.type)
  <2>1. /\ d \in DOMAIN source /\ phase' = "copy" /\ copy' = Put(copy, d, c)
        /\ todo' = (todo \ {e}) \cup (IF e.type = "dir" THEN Entries(d) ELSE {})
    BY <1>1, <1>2, <1>5
  <2>2. /\ EntryHolds(e) /\ d \in Seq(Names) /\ d # <<>> /\ e.type = source[d].type
        /\ \A n \in 1 .. Len(d) - 1 : ~ShouldExclude(Upto(d, n), TRUE)
        /\ Len(d) \in Nat \ {0} /\ Upto(d, Len(d)) = d
    BY <1>3, <2>1, EmptySeq, UptoAll DEF EntryHolds
  <2>3. WantedNode(d, e.type)
    BY <1>1, <2>2, WantedNodeParts
  <2>4. /\ c.type = source[d].type
        /\ c.type = "file" => c.text = source[d].text /\ c.stamp = 0
        /\ c.type = "link" => c.to = source[d].to
    BY <1>3, <2>1, <2>2, CopyOfNode
  <2>5. \A q : q \in DOMAIN copy' <=> q \in DOMAIN copy \/ q = d
    BY <2>1, PutNode
  <2>6. copy'[d] = c /\ \A q \in DOMAIN copy : q # d => copy'[q] = copy[q]
    BY <2>1, PutNode
  <2>7. \A f \in todo' : EntryHolds(f)'
    <3> SUFFICES ASSUME NEW f \in todo'  PROVE EntryHolds(f)
      BY <1>2, EntryKept
    <3>1. CASE f \in todo
      BY <1>3, <3>1
    <3>2. CASE f \notin todo
      <4>1. e.type = "dir" /\ f \in Entries(d)
        BY <2>1, <3>2
      <4>2. \A n \in 1 .. Len(d) : ~ShouldExclude(Upto(d, n), TRUE)
        <5>1. ~ShouldExclude(d, TRUE)
          BY <1>1, <4>1 DEF ExcludedNode
        <5>2. 1 .. Len(d) = (1 .. Len(d) - 1) \cup {Len(d)}
          BY <2>2
        <5>3. QED  BY <2>2, <5>1, <5>2
      <4>3. QED  BY <1>3, <2>1, <4>1, <4>2, EntriesHold
    <3>3. QED  BY <3>1, <3>2
  <2>8. \A q \in DOMAIN copy' \ saved' :
          q \in DOMAIN mine' /\ SameNode(q)' /\ WantedNode(q, mine'[q].type)
    <3> SUFFICES ASSUME NEW q \in DOMAIN copy', q \notin saved
                 PROVE  q \in DOMAIN mine /\ SameNode(q)' /\ WantedNode(q, mine[q].type)
      BY <1>2
    <3>1. CASE q = d
      BY <1>2, <1>3, <2>1, <2>2, <2>3, <2>4, <2>6, <3>1 DEF SameNode
    <3>2. CASE q # d
      BY <1>2, <1>3, <2>5, <2>6, <3>2 DEF CopyFilters, SameNode
    <3>3. QED  BY <3>1, <3>2
  <2>9. \A q \in DOMAIN mine' \ saved' :
          WantedNode(q, mine'[q].type) => q \in DOMAIN copy' \/ \E f \in todo' : IsPrefix(f.path, q)
    <3> SUFFICES ASSUME NEW q \in DOMAIN mine, q \notin saved, WantedNode(q, mine[q].type),
                        q \notin DOMAIN copy'
                 PROVE  \E f \in todo' : IsPrefix(f.path, q)
      BY <1>2
    <3>1. PICK f \in todo : IsPrefix(f.path, q)
      BY <1>3, <2>5 DEF CopyFilters
    <3>2. CASE f # e
      BY <2>1, <3>1, <3>2
    <3>3. CASE f = e
      <4>1. q # d /\ q \in DOMAIN source /\ IsPrefix(d, q)
        BY <1>3, <2>5, <3>1, <3>3
      <4>2. PICK g \in Entries(d) : IsPrefix(g.path, q)
        BY <1>3, <2>1, <4>1, EntryAbove
      <4>3. e.type = "dir"
        <5>1. q \in Seq(Names) /\ Len(q) \in Nat /\ Len(d) <= Len(q) /\ d = Upto(q, Len(d))
          BY <1>3, <2>2, <4>1, TreeOf, LenProperties, PrefixIsUpto
        <5>2. Len(d) \in 0 .. Len(q) - 1
          BY <2>2, <4>1, <5>1, UptoAll
        <5>3. Is(source, Upto(q, Len(d)), "dir")
          BY <1>3, <4>1, <5>2, TreeOf
        <5>4. QED  BY <2>2, <5>1, <5>3 DEF Is
      <4>4. QED  BY <2>1, <4>2, <4>3
    <3>4. QED  BY <3>2, <3>3
  <2>10. CopyFilters'
    BY <2>8, <2>9, NodeFixed DEF CopyFilters
  <2>11. CopyForeign'
    <3>1. c.type = "file" => c.stamp = 0 /\ c.text # "command"
      BY <1>3, <2>1, <2>4 DEF SourceForeign, IsForeign
    <3>2. QED  BY <1>3, <2>5, <2>6, <3>1 DEF CopyForeign
  <2>12. SourceForeign'
    BY <1>2, <1>3 DEF SourceForeign, IsForeign
  <2>13. QED  BY <1>2, <1>3, <2>1, <2>7, <2>10, <2>11, <2>12 DEF CopyHolds
<1>6. QED  BY <1>4, <1>5

(* The entries are still what they were, and the user's own is a file.      *)
LEMMA EntriesSpared ==
  ASSUME NEW p \in Paths, Save(p) \/ RemoveOwn(p), NEW e, EntryHolds(e)
  PROVE  EntryHolds(e)'
<1>1. /\ e.path \in Seq(Names) \ {<<>>} /\ e.type \in Types
      /\ \A n \in 1 .. Len(e.path) - 1 : ~ShouldExclude(Upto(e.path, n), TRUE)
  BY DEF EntryHolds
<1>2. IF e.path \in DOMAIN source' THEN source'[e.path].type = e.type ELSE e.type = "file"
  <2>1. CASE e.path # p
    BY <2>1, UserSpares DEF EntryHolds
  <2>2. CASE e.path = p
    <3>1. e.type = "file"
      BY <2>2, UserEffect DEF EntryHolds, Is, CanMake
    <3>2. p \in DOMAIN source' => source'[p].type = "file"
      BY UserNode, Kinds
    <3>3. QED  BY <2>2, <3>1, <3>2
  <2>3. QED  BY <2>1, <2>2
<1>3. QED  BY <1>1, <1>2, Fixed DEF EntryHolds, Upto

LEMMA FiltersSpared ==
  ASSUME CopyFilters, NEW p \in Paths, Save(p) \/ RemoveOwn(p)
  PROVE  CopyFilters'
<1>1. UNCHANGED <<copy, todo>> /\ saved' = saved \cup {p}
  BY UserEffect
<1>2. \A q : q \notin saved' => q # p /\ q \notin saved
  BY <1>1
<1>3. \A q \in DOMAIN copy' \ saved' : q \in DOMAIN mine' /\ SameNode(q)' /\ WantedNode(q, mine'[q].type)
  BY <1>1, <1>2, UserSpares DEF CopyFilters, SameNode
<1>4. \A q \in DOMAIN mine' \ saved' :
        WantedNode(q, mine'[q].type) => q \in DOMAIN copy' \/ \E f \in todo' : IsPrefix(f.path, q)
  BY <1>1, <1>2, UserSpares DEF CopyFilters
<1>5. QED  BY <1>3, <1>4, NodeFixed DEF CopyFilters

LEMMA CopyUser ==
  ASSUME CopyHolds, NEW p \in Paths, Save(p) \/ RemoveOwn(p)
  PROVE  CopyHolds'
<1>1. UNCHANGED <<phase, copy, host, todo, commandLeft, hidden, raced>>
  BY UserEffect
<1>2. CopyFilters => CopyFilters'
  BY FiltersSpared
<1>3. CASE phase = "copy"
  <2>1. SourceForeign'
    <3>1. SourceForeign
      BY <1>3 DEF CopyHolds
    <3>2. \A q \in DOMAIN source' : q # p => q \in DOMAIN source /\ source'[q] = source[q]
      BY UserSpares
    <3>3. IsForeign(File("user", 2)) /\ File("user", 2).text # Outside
      BY Kinds DEF IsForeign, Outside
    <3> SUFFICES ASSUME NEW q \in DOMAIN source'
                 PROVE  IsForeign(source'[q]) /\ (source'[q].type = "file" => source'[q].text # Outside)
      BY DEF SourceForeign, IsForeign
    <3>4. CASE q # p
      BY <3>1, <3>2, <3>4 DEF SourceForeign
    <3>5. CASE q = p
      BY <3>3, <3>5, UserNode
    <3>6. QED  BY <3>4, <3>5
  <2>2. source' = mine'
    BY <1>3, UserEffect DEF CopyHolds
  <2>3. \A e \in todo' : EntryHolds(e)'
    BY <1>1, <1>3, EntriesSpared DEF CopyHolds
  <2>4. CopyForeign'
    BY <1>1, <1>3 DEF CopyHolds, CopyForeign
  <2>5. QED  BY <1>1, <1>2, <1>3, <2>1, <2>2, <2>3, <2>4 DEF CopyHolds
<1>4. CASE phase # "copy"
  BY <1>1, <1>2, <1>4 DEF CopyHolds
<1>5. QED  BY <1>3, <1>4

LEMMA CopySnapshot == ASSUME CopyHolds, SnapshotBefore  PROVE CopyHolds'
<1>1. /\ phase = "copy" /\ phase' = "run" /\ todo = {}
      /\ UNCHANGED <<todo, copy, mine, saved, commandLeft, hidden, raced>>
  BY DEF SnapshotBefore, userVars, commandVars
<1>2. CopyFilters
  BY <1>1 DEF CopyHolds
<1>3. CopyFilters'
  <2>1. \A p : SameNode(p)' <=> SameNode(p)
    BY <1>1 DEF SameNode
  <2>2. QED  BY <1>1, <1>2, <2>1, NodeFixed DEF CopyFilters
<1>4. QED  BY <1>1, <1>3 DEF CopyHolds

LEMMA CopyCommand == ASSUME CopyHolds, Command  PROVE CopyHolds'
<1>1. /\ phase \in {"run", "ask", "apply", "transfer"} /\ commandLeft > 0
      /\ commandLeft' = commandLeft - 1 /\ UNCHANGED <<phase, todo>>
      /\ phase = "run" => raced' = raced
      /\ raced' \in BOOLEAN /\ hidden' \in BOOLEAN
  BY CommandEffect DEF CopyHolds
<1>2. commandLeft' \in Nat /\ commandLeft' <= MaxCommand /\ commandLeft' # MaxCommand
  BY <1>1, ReplicaAssumption DEF CopyHolds
<1>3. phase = "run" => ~raced'
  <2>1. phase = "run" => ~raced
    BY DEF CopyHolds
  <2>2. QED  BY Zenon, <1>1, <2>1
<1>4. phase' \in {"copy", "run"} => phase' = "run" /\ phase = "run"
  BY <1>1
<1>5. todo' = todo /\ (phase = "run" => todo = {})
  BY <1>1 DEF CopyHolds
<1>6. QED  BY <1>1, <1>2, <1>3, <1>4, <1>5 DEF CopyHolds

-----------------------------------------------------------------------------
(* What a link leads to stays out of the files                              *)

NoOutside(w) == \A p \in DOMAIN w : w[p].type = "file" => w[p].text # Outside

LEMMA OutsideEntries ==
  ASSUME NEW w
  PROVE  NoOutside(w) <=> \A p : Entry(w, p).type = "file" => Entry(w, p).text # Outside
<1>1. ASSUME NoOutside(w), NEW p, Entry(w, p).type = "file"  PROVE Entry(w, p).text # Outside
  BY <1>1, Kinds DEF NoOutside, Entry
<1>2. ASSUME \A p : Entry(w, p).type = "file" => Entry(w, p).text # Outside,
             NEW p \in DOMAIN w, w[p].type = "file"
      PROVE  w[p].text # Outside
  <2>1. Entry(w, p) = w[p]
    BY <1>2 DEF Entry
  <2>2. QED  BY <1>2, <2>1
<1>3. QED  BY <1>1, <1>2 DEF NoOutside

LEMMA NodesAre ==
  NodesHold <=>
    /\ NoOutside(copy)
    /\ ~raced /\ "copy" \notin crossed => NoOutside(source)
    /\ phase = "transfer" /\ ~raced /\ "copy" \notin crossed =>
         /\ moving.path \in DOMAIN copy /\ copy[moving.path].type = moving.type
         /\ moving.type \in {"file", "link"}
BY DEF NodesHold, NoOutside

LEMMA NodesPrimed ==
  NodesHold' <=>
    /\ NoOutside(copy')
    /\ ~raced' /\ "copy" \notin crossed' => NoOutside(source')
    /\ phase' = "transfer" /\ ~raced' /\ "copy" \notin crossed' =>
         /\ moving'.path \in DOMAIN copy' /\ copy'[moving'.path].type = moving'.type
         /\ moving'.type \in {"file", "link"}
BY DEF NodesHold, NoOutside

LEMMA NodesInit == Init => NodesHold
<1> SUFFICES ASSUME Init  PROVE NodesHold
  OBVIOUS
<1>1. phase = "copy" /\ copy = [q \in {<<>>} |-> Dir] /\ source \in Workspaces
  BY Zenon DEF Init
<1>2. NoOutside(source)
  BY <1>1, ReplicaAssumption DEF NoOutside
<1>3. NoOutside(copy)
  BY <1>1, Kinds DEF NoOutside
<1>4. QED  BY <1>1, <1>2, <1>3, NodesAre

LEMMA NodesQuiet ==
  ASSUME NodesHold, UNCHANGED <<copy, source, moving, raced>>, crossed \subseteq crossed',
         phase' = "transfer" => phase = "transfer"
  PROVE  NodesHold'
BY NodesAre, NodesPrimed

LEMMA NodesCopy == ASSUME NodesHold, CopyHolds, CopyEntry  PROVE NodesHold'
<1>1. /\ phase = "copy" /\ phase' \in {"copy", "failed"}
      /\ UNCHANGED <<source, moving, raced, crossed>>
  BY DEF CopyEntry, CopyUnaffected, walkVars
<1>2. CASE copy' = copy
  BY <1>1, <1>2, NodesQuiet
<1>3. CASE copy' # copy
  <2>1. PICK e \in todo : e.path \in DOMAIN source /\ copy' = Put(copy, e.path, CopyOf(e.path, e.type))
    BY <1>3 DEF CopyEntry
  <2> DEFINE d == e.path
             c == CopyOf(e.path, e.type)
  <2>2. EntryHolds(e) /\ SourceForeign
    BY <1>1 DEF CopyHolds
  <2>3. c.type = "file" => c.text # Outside
    BY <2>1, <2>2, CopyOfNode DEF SourceForeign
  <2>4. \A q : q \in DOMAIN copy' <=> q \in DOMAIN copy \/ q = d
    BY <2>1, PutNode
  <2>5. copy'[d] = c /\ \A q \in DOMAIN copy : q # d => copy'[q] = copy[q]
    BY <2>1, PutNode
  <2> HIDE DEF c
  <2>6. NoOutside(copy')
    BY <2>3, <2>4, <2>5, NodesAre DEF NoOutside
  <2>7. QED  BY <1>1, <2>6, NodesAre, NodesPrimed
<1>4. QED  BY <1>2, <1>3

LEMMA NodesCommand == ASSUME NodesHold, Command  PROVE NodesHold'
<1>1. /\ UNCHANGED <<phase, source, moving, crossed>>
      /\ (raced => raced') /\ (phase # "run" => raced')
  BY CommandEffect
<1>2. PICK p \in Paths :
        \/ \E node : Written(node) /\ copy' = Put(copy, p, node)
        \/ copy' = Without(copy, p)
  BY CommandEffect
<1>3. NoOutside(copy')
  <2>1. CASE copy' = Without(copy, p)
    BY <2>1, WithoutNode, NodesAre DEF NoOutside
  <2>2. ASSUME NEW node, Written(node), copy' = Put(copy, p, node)
        PROVE  NoOutside(copy')
    <3>1. node.type = "file" => node.text # Outside
      BY <2>2, Kinds DEF Written, Outside
    <3>2. \A q : q \in DOMAIN copy' <=> q \in DOMAIN copy \/ q = p
      BY <2>2, PutNode
    <3>3. copy'[p] = node /\ \A q \in DOMAIN copy : q # p => copy'[q] = copy[q]
      BY <2>2, PutNode
    <3>4. QED  BY <3>1, <3>2, <3>3, NodesAre DEF NoOutside
  <2>3. QED  BY <1>2, <2>1, <2>2
<1>4. phase' = "transfer" => raced'
  BY <1>1
<1>5. ~raced' => ~raced
  BY <1>1
<1>6. QED  BY <1>1, <1>3, <1>4, <1>5, NodesAre, NodesPrimed

LEMMA NodesUser ==
  ASSUME NodesHold, NEW p \in Paths, Save(p) \/ RemoveOwn(p)
  PROVE  NodesHold'
<1>1. UNCHANGED <<phase, copy, moving, raced, crossed>>
  BY UserEffect
<1>2. ASSUME NoOutside(source)  PROVE NoOutside(source')
  <2> SUFFICES ASSUME NEW q \in DOMAIN source', source'[q].type = "file"
               PROVE  source'[q].text # Outside
    BY DEF NoOutside
  <2>1. CASE q # p
    BY <1>2, <2>1, UserSpares DEF NoOutside
  <2>2. CASE q = p
    BY <2>2, UserNode, Kinds DEF Outside
  <2>3. QED  BY <2>1, <2>2
<1>3. QED  BY <1>1, <1>2, NodesAre, NodesPrimed

(* A step that adds no file of which the text is from outside               *)
LEMMA NodesKept ==
  ASSUME NodesHold, UNCHANGED <<copy, raced>>, crossed \subseteq crossed',
         ~raced /\ "copy" \notin crossed' =>
           \A q : \/ Entry(source', q) \in {Nothing, Entry(source, q)}
                  \/ Entry(source', q).type = "file" => Entry(source', q).text # Outside,
         phase' = "transfer" /\ ~raced /\ "copy" \notin crossed' =>
           /\ moving'.path \in DOMAIN copy /\ copy[moving'.path].type = moving'.type
           /\ moving'.type \in {"file", "link"}
  PROVE  NodesHold'
<1>1. ASSUME ~raced, "copy" \notin crossed'  PROVE NoOutside(source')
  <2>1. \A q : Entry(source, q).type = "file" => Entry(source, q).text # Outside
    BY <1>1, NodesAre, OutsideEntries
  <2>2. \A q : \/ Entry(source', q) \in {Nothing, Entry(source, q)}
               \/ Entry(source', q).type = "file" => Entry(source', q).text # Outside
    BY <1>1
  <2>3. \A q : Entry(source', q).type = "file" => Entry(source', q).text # Outside
    BY <2>1, <2>2, Kinds
  <2>4. QED  BY <2>3, OutsideEntries
<1>2. QED  BY <1>1, NodesAre, NodesPrimed

LEMMA ClearFiles ==
  ASSUME TreesHold, Clear
  PROVE  \A q : Entry(source', q) \in {Nothing, Entry(source, q)}
<1>1. PICK p \in Waiting :
        IF ParentFails(p) THEN source' = source ELSE source' = Cleared(p, "source")
  BY DEF Clear
<1>2. p \in Seq(Names) /\ p # <<>> /\ TreesStand
  BY <1>1 DEF Waiting, TreesHold
<1>3. CASE ~ParentFails(p)
  <2>1. Parents(p, "source") \cap DOMAIN source = {}
    BY <1>3, TreeIs DEF ParentFails
  <2>2. \A q : Entry(source', q) = IF q \in Old(p, "source") THEN Nothing ELSE Entry(source, q)
    BY <1>1, <1>2, <1>3, <2>1, TreeIs, ClearedIs DEF Trees
  <2>3. QED  BY <2>2
<1>4. QED  BY <1>1, <1>3

LEMMA NodesClear == ASSUME TreesHold, NodesHold, Clear  PROVE NodesHold'
<1>1. PICK p \in DOMAIN changes :
        /\ p \in Seq(Names) /\ p # <<>>
        /\ UNCHANGED <<copy, raced>>
        /\ crossed' = crossed \cup {t \in {"copy", "source"} : OnWay(t, p)}
        /\ \/ phase' = "failed" /\ UNCHANGED <<source, moving>>
           \/ \E type \in TypesOf(p) \cap {"file", "link"} :
                phase' = "transfer" /\ moving' = [path |-> p, type |-> type]
  BY ClearEffect
<1>2. \A q : Entry(source', q) \in {Nothing, Entry(source, q)}
  BY ClearFiles
<1>3. ASSUME phase' = "transfer", "copy" \notin crossed'
      PROVE  /\ moving'.path \in DOMAIN copy /\ copy[moving'.path].type = moving'.type
             /\ moving'.type \in {"file", "link"}
  <2>1. ~OnWay("copy", p)
    BY <1>1, <1>3
  <2>2. PICK type \in TypesOf(p) \cap {"file", "link"} : moving' = [path |-> p, type |-> type]
    BY <1>1, <1>3
  <2>3. PICK l \in Place("copy", p) : Exists(l) /\ At(l).type = type
    BY <2>2 DEF TypesOf
  <2>4. l.tree = "copy" /\ l.path = p
    BY <1>1, <2>1, <2>3, StraightPlaceIs
  <2>5. p \in DOMAIN copy /\ copy[p].type = type
    BY <2>3, <2>4, TreeIs DEF Exists, At
  <2>6. QED  BY <2>2, <2>5
<1>4. QED  BY <1>1, <1>2, <1>3, NodesKept

(* What is brought back is a link, or has the text of a file of the copy.   *)
LEMMA TransferredText ==
  ASSUME NEW p \in Seq(Names), ~OnWay("copy", p), p \in DOMAIN copy, NEW type,
         copy[p].type = type, type \in {"file", "link"}, p # <<>>, NEW node \in Transferred(p, type)
  PROVE  node.type = type /\ (type = "file" => node.text = copy[p].text)
<1>1. CASE type = "link"
  <2>1. PICK l \in Place("copy", p) : At(l).type = "link" /\ node = At(l)
    BY <1>1 DEF Transferred
  <2>2. QED  BY <1>1, <2>1
<1>2. CASE type = "file"
  <2>1. PICK l \in Followed("copy", p) : node = File(At(l).text, 0)
    BY <1>2 DEF Transferred
  <2>2. ~Is(Tree("copy"), p, "link")
    BY <1>2, TreeIs DEF Is
  <2>3. NoLinks("copy", p)
    BY <2>2, WayFollowed
  <2>4. Followed("copy", p) \subseteq {[tree |-> "copy", path |-> p]}
    BY <2>3, StraightFollowed
  <2>5. l = [tree |-> "copy", path |-> p]
    BY <2>1, <2>4
  <2>6. At(l) = copy[p]
    BY <2>5, TreeIs DEF At
  <2>7. QED  BY <1>2, <2>1, <2>6, Kinds
<1>3. QED  BY <1>1, <1>2

LEMMA NodesTransfer == ASSUME TreesHold, SyncHolds, NodesHold, Transfer  PROVE NodesHold'
<1> DEFINE p == moving.path
<1>1. /\ p \in Seq(Names) /\ p # <<>>
      /\ phase = "transfer" /\ UNCHANGED <<copy, raced>>
      /\ crossed' = crossed \cup {t \in {"copy", "source"} : OnWay(t, p)}
      /\ \/ phase' = "failed" /\ UNCHANGED <<source, moving>>
         \/ /\ phase' = "apply"
            /\ \E node \in Transferred(p, moving.type) : \E l \in Free(p, moving.type) :
                 source' = IF l.tree = "source" THEN Put(source, l.path, node) ELSE source
  BY TransferEffect
<1>2. CASE phase' = "failed" /\ UNCHANGED <<source, moving>>
  BY <1>1, <1>2, NodesQuiet
<1>3. CASE phase' = "apply"
  <2>1. PICK node \in Transferred(p, moving.type) : \E l \in Free(p, moving.type) :
          source' = IF l.tree = "source" THEN Put(source, l.path, node) ELSE source
    BY <1>1, <1>3
  <2>2. PICK l \in Free(p, moving.type) :
          source' = IF l.tree = "source" THEN Put(source, l.path, node) ELSE source
    BY <2>1
  <2>3. ASSUME ~raced, "copy" \notin crossed'
        PROVE  \A q : \/ Entry(source', q) \in {Nothing, Entry(source, q)}
                      \/ Entry(source', q).type = "file" => Entry(source', q).text # Outside
    <3>1. /\ ~OnWay("copy", p) /\ p \in DOMAIN copy /\ copy[p].type = moving.type
          /\ moving.type \in {"file", "link"}
      BY <1>1, <2>3 DEF NodesHold
    <3>2. node.type = moving.type /\ (moving.type = "file" => node.text = copy[p].text)
      BY <1>1, <3>1, TransferredText
    <3>3. node.type = "file" => node.text # Outside
      BY <3>1, <3>2 DEF NodesHold
    <3>4. \A q : Entry(source', q) = Entry(source, q) \/ Entry(source', q) = node
      BY <2>2, <3>1, <3>2, PutEntry
    <3>5. QED  BY <3>3, <3>4
  <2>4. QED  BY <1>1, <1>3, <2>3, NodesKept
<1>4. QED  BY <1>1, <1>2, <1>3

LEMMA RemoveFiles ==
  ASSUME RemoveDeleted  PROVE \A q : Entry(source', q) \in {Nothing, Entry(source, q)}
<1>1. PICK p : source' = source \/ source' = Less(source, Old(p, "source"))
  BY DEF RemoveDeleted
<1>2. QED  BY <1>1, LessEntry

LEMMA NodesRemove == ASSUME TreesHold, NodesHold, RemoveDeleted  PROVE NodesHold'
<1>1. /\ phase = "apply" /\ UNCHANGED <<phase, copy, raced>> /\ crossed \subseteq crossed'
  BY RemoveEffect
<1>2. QED  BY <1>1, RemoveFiles, NodesKept

LEMMA NodesStep == ASSUME TreesHold, SyncHolds, CopyHolds, NodesHold, [Next]_vars  PROVE NodesHold'
<1>1. crossed \subseteq crossed'
  BY CrossedGrows
<1>2. CASE CopyExcluded \/ SnapshotBefore \/ SnapshotAfter \/ LeaveAlone \/ Approve \/ EndSync \/ Skip
           \/ UNCHANGED vars
  <2>1. UNCHANGED <<copy, source, moving, raced>> /\ (phase' = "transfer" => phase = "transfer")
    BY <1>2 DEF CopyExcluded, CopyUnaffected, SnapshotBefore, SnapshotAfter, LeaveAlone, Approve,
       EndSync, Skip, userVars, commandVars, vars
  <2>2. QED  BY <1>1, <2>1, NodesQuiet
<1>3. CASE User
  BY <1>3, NodesUser DEF User
<1>4. QED
  BY <1>2, <1>3, NodesCopy, NodesCommand, NodesClear, NodesTransfer, NodesRemove
  DEF Next, Materialize, SyncBack

-----------------------------------------------------------------------------
(* The snapshots                                                            *)

Taken == {"run", "ask", "apply", "transfer", "done"}

(* No root is a link to a directory, nor lies beyond a link.                *)
RootsStraight ==
  \A r \in Roots : ~OnWay("copy", r) /\ ~(Is(copy, r, "link") /\ FollowedDir("copy", r) # {})

LEMMA RootsAreStraight == ASSUME CrossRoots, "copy" \notin crossed'  PROVE RootsStraight
BY DEF CrossRoots, RootsStraight

LEMMA FingerprintFixed == ASSUME mode' = mode  PROVE \A n : Fingerprint(n)' = Fingerprint(n)
BY DEF Fingerprint

(* Equal fingerprints are of equal stamps and, by hashes, of equal texts.   *)
LEMMA FingerprintsTell ==
  ASSUME NEW n, NEW m, Fingerprint(n) = Fingerprint(m)
  PROVE  n.stamp = m.stamp /\ (mode = "full_hash" => n.text = m.text)
<1>1. \A a, b : <<a>> = <<b>> => a = b
  OBVIOUS
<1>2. \A a, b, c, d : <<a, b>> = <<c, d>> => a = c /\ b = d
  OBVIOUS
<1>3. CASE mode = "full_hash"
  BY <1>2, <1>3 DEF Fingerprint
<1>4. CASE mode # "full_hash"
  BY <1>1, <1>4 DEF Fingerprint
<1>5. QED  BY <1>3, <1>4

LEMMA FingerprintsAgree ==
  ASSUME NEW n, NEW m, n.text = m.text, n.stamp = m.stamp  PROVE Fingerprint(n) = Fingerprint(m)
BY DEF Fingerprint

(* What is left of a path behind one of its beginnings                      *)
LEMMA BeginningAndRest ==
  ASSUME NEW p \in Seq(Names), NEW q \in Seq(Names), IsPrefix(p, q)
  PROVE  p \o Onward(q, Len(p)) = q
<1>1. Len(p) \in Nat /\ Len(q) \in Nat /\ Len(p) \in 0 .. Len(q) /\ p = Upto(q, Len(p))
  BY PrefixIsUpto, LenProperties
<1> DEFINE k == Len(p)
           o == Onward(q, k)
<1>2. o \in Seq(Names) /\ Len(o) = Len(q) - k /\ \A i \in 1 .. (Len(q) - k) : o[i] = q[k + i]
  BY <1>1, OnwardOf
<1>3. \A i \in 1 .. k : p[i] = q[i]
  <2>1. \A i \in 1 .. k : Upto(q, k)[i] = q[i]
    BY <1>1, UptoOf
  <2>2. QED  BY <1>1, <2>1
<1> HIDE DEF o
<1>4. /\ p \o o \in Seq(Names) /\ Len(p \o o) = k + Len(o)
      /\ \A i \in 1 .. (k + Len(o)) : (p \o o)[i] = IF i <= k THEN p[i] ELSE o[i - k]
  BY <1>2, ConcatProperties
<1>5. Len(p \o o) = Len(q)
  BY <1>1, <1>2, <1>4
<1>6. ASSUME NEW i \in 1 .. Len(q)  PROVE (p \o o)[i] = q[i]
  <2>1. i \in 1 .. (k + Len(o))
    BY <1>1, <1>2
  <2>2. CASE i <= k
    <3>1. i \in 1 .. k
      BY <1>1, <2>2
    <3>2. QED  BY <1>3, <1>4, <2>1, <2>2, <3>1
  <2>3. CASE ~(i <= k)
    <3>1. i - k \in 1 .. (Len(q) - k) /\ k + (i - k) = i
      BY <1>1, <2>3
    <3>2. o[i - k] = q[i]
      BY <1>2, <3>1
    <3>3. QED  BY <1>4, <2>1, <2>3, <3>2
  <2>4. QED  BY <2>2, <2>3
<1>7. QED  BY <1>4, <1>5, <1>6, SeqEqual DEF o

(* A recorded file is a file of the copy, beneath a root, or what a link    *)
(* that is a root leads to.                                                 *)
LEMMA RecordedParts ==
  ASSUME TreesStand, RootsStraight, NEW f \in Recorded
  PROVE  /\ f.node.type = "file" /\ f.path \in DOMAIN copy
         /\ \/ copy[f.path] = f.node /\ Beneath(f.path)
            \/ /\ RootLink(f.path)
               /\ \E t \in Trees : \E q \in DOMAIN Tree(t) : f.node = Tree(t)[q]
<1>1. PICK r \in Roots : f \in Found(r)
  BY DEF Recorded
<1>2. PICK l \in Followed("copy", r) : \E q \in DOMAIN Tree(l.tree) :
        /\ IsPrefix(l.path, q) /\ Is(Tree(l.tree), q, "file")
        /\ f.path = r \o Onward(q, Len(l.path)) /\ f.node = Tree(l.tree)[q]
  BY <1>1, FoundIs
<1>3. PICK q \in DOMAIN Tree(l.tree) :
        /\ IsPrefix(l.path, q) /\ Is(Tree(l.tree), q, "file")
        /\ f.path = r \o Onward(q, Len(l.path)) /\ f.node = Tree(l.tree)[q]
  BY <1>2
<1>4. r \in Seq(Names) /\ "copy" \in Trees
  BY ReplicaAssumption DEF Trees
<1>5. l.tree \in Trees /\ IsTree(Tree(l.tree)) /\ l.path \in Seq(Names) /\ l.path \in DOMAIN Tree(l.tree)
  BY <1>4, FollowedIs
<1>6. q \in Seq(Names) /\ Len(q) \in Nat /\ Len(l.path) \in Nat
  BY <1>5, TreeOf, LenProperties
<1>7. f.node.type = "file"
  BY <1>3 DEF Is
<1>8. CASE Is(copy, r, "link")
  <2>1. At(l).type # "dir"
    BY <1>1, <1>8 DEF RootsStraight, FollowedDir
  <2>2. Len(l.path) <= Len(q) /\ l.path = Upto(q, Len(l.path))
    BY <1>3, <1>5, <1>6, PrefixIsUpto
  <2>3. ~(Len(l.path) < Len(q))
    <3> SUFFICES ASSUME Len(l.path) < Len(q)  PROVE FALSE
      OBVIOUS
    <3>1. Len(l.path) \in 0 .. Len(q) - 1
      BY <1>6
    <3>2. Is(Tree(l.tree), Upto(q, Len(l.path)), "dir")
      BY <1>5, <3>1, TreeOf
    <3>3. Is(Tree(l.tree), l.path, "dir")
      BY <2>2, <3>2
    <3>4. QED  BY <2>1, <3>3 DEF At, Is
  <2>4. Len(l.path) = Len(q)
    BY <1>6, <2>2, <2>3
  <2>5. Onward(q, Len(l.path)) = <<>>
    BY <1>6, <2>4, OnwardEnds
  <2>6. r \o <<>> = r
    BY <1>4, ConcatEmptySeq
  <2>7. f.path = r
    BY <1>3, <2>5, <2>6
  <2>8. r \in DOMAIN copy
    BY <1>8 DEF Is
  <2>9. QED  BY <1>3, <1>5, <1>7, <1>8, <2>7, <2>8 DEF RootLink
<1>9. CASE ~Is(copy, r, "link")
  <2>1. ~OnWay("copy", r) /\ ~Is(Tree("copy"), r, "link")
    BY <1>9, TreeIs DEF RootsStraight
  <2>2. NoLinks("copy", r)
    BY <1>4, <2>1, WayFollowed
  <2>3. l = [tree |-> "copy", path |-> r]
    BY <1>4, <2>2, StraightFollowed
  <2>4. l.path = r /\ Tree(l.tree) = copy
    BY <2>3, TreeIs
  <2>5. f.path = q
    BY <1>3, <1>4, <1>6, <2>4, BeginningAndRest
  <2>6. Beneath(q)
    BY <1>3, <2>4 DEF Beneath
  <2>7. QED  BY <1>3, <1>7, <2>4, <2>5, <2>6
<1>10. QED  BY <1>8, <1>9

(* A file of the copy beneath a root is recorded as it is.                  *)
LEMMA FilesRecorded ==
  ASSUME TreesStand, RootsStraight, NEW p, Is(copy, p, "file"), Beneath(p)
  PROVE  p \in DOMAIN Snapshot /\ Snapshot[p] = Fingerprint(copy[p])
<1>1. PICK r \in Roots : IsPrefix(r, p)
  BY DEF Beneath
<1>2. IsTree(copy) /\ p \in DOMAIN copy /\ copy[p].type = "file"
  BY DEF TreesStand, Is
<1>3. p \in Seq(Names) /\ r \in Seq(Names) /\ Len(p) \in Nat /\ Len(r) \in Nat
  BY <1>2, TreeOf, ReplicaAssumption, LenProperties
<1>4. Len(r) <= Len(p) /\ r = Upto(p, Len(r))
  BY <1>1, <1>3, PrefixIsUpto
<1>5. ASSUME NEW n \in 0 .. Len(r)
      PROVE  Upto(r, n) = Upto(p, n) /\ Upto(p, n) \in DOMAIN copy /\ ~Is(copy, Upto(p, n), "link")
  <2>1. n \in 0 .. Len(p) /\ Len(r) \in 0 .. Len(p)
    BY <1>3, <1>4
  <2>2. Upto(r, n) = Upto(p, n)
    BY <1>3, <1>4, <2>1, UptoUpto
  <2>3. CASE n = Len(p)
    BY <1>2, <1>3, <2>2, <2>3, UptoAll DEF Is
  <2>4. CASE n # Len(p)
    <3>1. n \in 0 .. Len(p) - 1
      BY <1>3, <2>1, <2>4
    <3>2. Is(copy, Upto(p, n), "dir")
      BY <1>2, <3>1, TreeOf
    <3>3. QED  BY <2>2, <3>2 DEF Is
  <2>5. QED  BY <2>3, <2>4
<1>6. r \in DOMAIN copy
  <2>1. Len(r) \in 0 .. Len(r)
    BY <1>3
  <2>2. QED  BY <1>4, <1>5, <2>1
<1>7. NoLinks("copy", r)
  <2>1. \A n \in 1 .. Len(r) : n \in 0 .. Len(r)
    BY <1>3
  <2>2. QED  BY <1>5, <2>1, TreeIs DEF NoLinks
<1>8. [tree |-> "copy", path |-> r] \in Followed("copy", r)
  BY <1>2, <1>6, <1>7, TreeIs, StraightFound
<1> DEFINE l == [tree |-> "copy", path |-> r]
<1>9. Tree(l.tree) = copy /\ l.path = r
  BY TreeIs
<1> HIDE DEF l
<1>10. [path |-> r \o Onward(p, Len(l.path)), node |-> Tree(l.tree)[p]] \in Found(r)
  BY <1>1, <1>2, <1>8, <1>9, IsFound DEF l, Is
<1>11. [path |-> p, node |-> copy[p]] \in Recorded
  BY <1>1, <1>3, <1>9, <1>10, BeginningAndRest DEF Recorded
<1>12. p \in DOMAIN Snapshot
  BY <1>11, SnapshotOf
<1>13. PICK f \in Recorded : f.path = p /\ Snapshot[p] = Fingerprint(f.node)
  BY <1>12, SnapshotOf
<1>14. copy[p] = f.node
  BY <1>2, <1>13, RecordedParts DEF RootLink, Is
<1>15. QED  BY <1>12, <1>13, <1>14

LEMMA SnapshotHas ==
  ASSUME TreesStand, RootsStraight, NEW p \in DOMAIN Snapshot
  PROVE  p \in DOMAIN copy /\ copy[p].type \in {"file", "link"} /\ (Is(copy, p, "file") \/ RootLink(p))
<1>1. PICK f \in Recorded : f.path = p
  BY SnapshotOf
<1>2. QED  BY <1>1, RecordedParts DEF RootLink, Is

-----------------------------------------------------------------------------
(* The snapshot before the command                                          *)

LEMMA BeforeTaken ==
  ASSUME TreesHold, CopyHolds, SnapshotBefore, mode' = mode
  PROVE  BeforeHolds'
<1>1. /\ phase = "copy" /\ todo = {} /\ before' = Snapshot
      /\ UNCHANGED <<copy, mine, saved, hidden>> /\ CrossRoots
  BY DEF SnapshotBefore, userVars, commandVars
<1>2. /\ CopyFilters /\ SourceForeign /\ CopyForeign /\ host = Host /\ TreesStand
  BY <1>1 DEF CopyHolds, TreesHold
<1> SUFFICES ASSUME RootsStraight  PROVE BeforeHolds'
  BY <1>1, RootsAreStraight DEF BeforeHolds
<1>3. \A t \in Trees : \A q \in DOMAIN Tree(t) : IsForeign(Tree(t)[q])
  <2>1. \A q \in DOMAIN source : IsForeign(source[q])
    BY <1>2 DEF SourceForeign
  <2>2. \A q \in DOMAIN copy : IsForeign(copy[q])
    BY <1>2 DEF CopyForeign, IsForeign
  <2>3. \A q \in DOMAIN host : IsForeign(host[q])
    BY <1>2, ReplicaAssumption
  <2>4. QED  BY <2>1, <2>2, <2>3, TreeIs DEF Trees
<1>4. ASSUME NEW p \in DOMAIN before', p \notin saved'
      PROVE  \/ Is(mine', p, "file") /\ before'[p] = Fingerprint(File(mine'[p].text, 0))
             \/ \E node : node.type = "file" /\ IsForeign(node) /\ before'[p] = Fingerprint(node)
                          /\ ~Is(mine', p, "file")
  <2>1. PICK f \in Recorded : f.path = p /\ before'[p] = Fingerprint(f.node)
    BY <1>1, <1>4, SnapshotOf
  <2>2. p \in DOMAIN copy /\ p \in DOMAIN mine /\ SameNode(p) /\ f.node.type = "file"
    BY <1>1, <1>2, <1>4, <2>1, RecordedParts DEF CopyFilters
  <2>3. CASE copy[p] = f.node
    <3>1. copy[p].stamp = 0 /\ copy[p].text = mine[p].text /\ mine[p].type = "file"
      BY <1>2, <2>2, <2>3 DEF SameNode, CopyForeign
    <3>2. Fingerprint(copy[p]) = Fingerprint(File(mine[p].text, 0))
      BY <3>1, FingerprintsAgree, Kinds
    <3>3. QED  BY <1>1, <2>1, <2>2, <2>3, <3>1, <3>2 DEF Is
  <2>4. CASE RootLink(p) /\ \E t \in Trees : \E q \in DOMAIN Tree(t) : f.node = Tree(t)[q]
    <3>1. IsForeign(f.node)
      BY <1>3, <2>4
    <3>2. ~Is(mine, p, "file")
      BY <2>2, <2>4 DEF RootLink, SameNode, Is
    <3>3. QED  BY <1>1, <2>1, <2>2, <3>1, <3>2
  <2>5. QED  BY <1>2, <2>1, <2>3, <2>4, RecordedParts
<1>5. ASSUME NEW p \in DOMAIN mine, p \notin saved, Is(mine, p, "file"), Wanted(p, FALSE), Beneath(p)
      PROVE  p \in DOMAIN before'
  <2>1. WantedNode(p, mine[p].type)
    BY <1>5 DEF WantedNode, Is
  <2>2. p \in DOMAIN copy
    BY <1>1, <1>2, <1>5, <2>1 DEF CopyFilters
  <2>3. Is(copy, p, "file")
    BY <1>2, <1>5, <2>2 DEF CopyFilters, SameNode, Is
  <2>4. QED  BY <1>1, <1>2, <1>5, <2>3, FilesRecorded
<1>6. ASSUME NEW p \in DOMAIN copy, p \notin saved, copy[p].type = "file"
      PROVE  OldFile(p)'
  BY <1>1, <1>2, <1>6 DEF CopyFilters, SameNode, CopyForeign, OldFile, Is
<1>7. \A p \in DOMAIN mine' \ saved' :
        (Is(mine, p, "file") /\ Wanted(p, FALSE) /\ Beneath(p))' => p \in DOMAIN before'
  BY <1>1, <1>5, Fixed DEF Is
<1>8. ASSUME NEW p \in DOMAIN before'  PROVE Beneath(p)
  <2>1. PICK f \in Recorded : f.path = p
    BY <1>1, SnapshotOf
  <2>2. Roots \subseteq Seq(Names)
    BY ReplicaAssumption
  <2>3. RootLink(p) => Beneath(p)
    BY <2>2, PrefixOfSelf DEF RootLink, Beneath
  <2>4. QED  BY <1>2, <2>1, <2>3, RecordedParts
<1>9. QED
  BY <1>1, <1>4, <1>6, <1>7, <1>8, Fixed, FingerprintFixed DEF BeforeHolds, Is, IsForeign

LEMMA BeforeQuiet ==
  ASSUME BeforeHolds, UNCHANGED <<mode, before, mine, saved, copy, hidden>>, crossed \subseteq crossed',
         phase' \in Taken => phase \in Taken
  PROVE  BeforeHolds'
<1>1. \A n : Fingerprint(n)' = Fingerprint(n)
  BY FingerprintFixed
<1>2. \A p : (OldFile(p)' <=> OldFile(p)) /\ (NewFile(p)' <=> NewFile(p)) /\ (Is(mine, p, "file")' <=> Is(mine, p, "file"))
  BY DEF OldFile, NewFile, Is
<1>3. \A n : IsForeign(n)' <=> IsForeign(n)
  BY DEF IsForeign
<1>4. QED  BY <1>1, <1>2, <1>3, Fixed DEF BeforeHolds, Taken

LEMMA BeforeUser ==
  ASSUME BeforeHolds, mode' = mode, NEW p \in Paths, Save(p) \/ RemoveOwn(p)
  PROVE  BeforeHolds'
<1>1. UNCHANGED <<phase, before, copy, hidden, crossed>> /\ saved' = saved \cup {p}
  BY UserEffect
<1>2. \A q : q \notin saved' => /\ q # p /\ q \notin saved
                                /\ Is(mine', q, "file") <=> Is(mine, q, "file")
                                /\ q \in DOMAIN mine' <=> q \in DOMAIN mine
                                /\ q \in DOMAIN mine => mine'[q] = mine[q]
  BY <1>1, UserSpares DEF Is
<1>3. \A q : q \notin saved' => (OldFile(q) => OldFile(q)') /\ (NewFile(q) => NewFile(q)')
  BY <1>1, <1>2 DEF OldFile, NewFile, Is
<1>4. \A n : Fingerprint(n)' = Fingerprint(n) /\ (IsForeign(n)' <=> IsForeign(n))
  BY FingerprintFixed DEF IsForeign
<1> SUFFICES ASSUME phase \in Taken, "copy" \notin crossed  PROVE BeforeHolds'
  BY <1>1 DEF BeforeHolds, Taken
<1>5. \A q \in DOMAIN before' \ saved' :
         \/ Is(mine', q, "file") /\ before'[q] = Fingerprint(File(mine'[q].text, 0))
         \/ \E node : node.type = "file" /\ IsForeign(node) /\ before'[q] = Fingerprint(node)
                      /\ ~Is(mine', q, "file")
  <2> SUFFICES ASSUME NEW q \in DOMAIN before, q \notin saved'
               PROVE  \/ Is(mine', q, "file") /\ before[q] = Fingerprint(File(mine'[q].text, 0))
                      \/ \E node : node.type = "file" /\ IsForeign(node) /\ before[q] = Fingerprint(node)
                                   /\ ~Is(mine', q, "file")
    BY <1>1
  <2>1. q \in DOMAIN before \ saved
    BY <1>2
  <2>2. \/ Is(mine, q, "file") /\ before[q] = Fingerprint(File(mine[q].text, 0))
        \/ \E node : node.type = "file" /\ IsForeign(node) /\ before[q] = Fingerprint(node)
                     /\ ~Is(mine, q, "file")
    BY <2>1 DEF BeforeHolds, Taken
  <2>3. QED  BY <1>2, <2>2 DEF Is
<1>6. \A q \in DOMAIN mine' \ saved' :
        Is(mine', q, "file") /\ Wanted(q, FALSE) /\ Beneath(q) => q \in DOMAIN before'
  BY <1>1, <1>2 DEF BeforeHolds, Taken
<1>7. \A q \in DOMAIN copy' \ saved' : copy'[q].type = "file" => OldFile(q)' \/ NewFile(q)'
  BY <1>1, <1>2, <1>3 DEF BeforeHolds, Taken
<1>8. \A q \in DOMAIN before' : Beneath(q)
  BY <1>1 DEF BeforeHolds, Taken
<1>9. QED  BY <1>4, <1>5, <1>6, <1>7, <1>8, Fixed, IsPrimed DEF BeforeHolds

LEMMA BeforeCommand == ASSUME BeforeHolds, Command, mode' = mode  PROVE BeforeHolds'
<1>1. UNCHANGED <<phase, before, mine, saved, crossed>> /\ (hidden => hidden')
  BY CommandEffect
<1>2. PICK p \in Paths :
        \/ \E node : Written(node) /\ copy' = Put(copy, p, node)
        \/ copy' = Without(copy, p)
  BY CommandEffect
<1>3. \A q : (OldFile(q) /\ q \in DOMAIN copy /\ copy'[q] = copy[q] => OldFile(q)')
             /\ (NewFile(q) /\ copy'[q] = copy[q] => NewFile(q)')
  BY <1>1 DEF OldFile, NewFile, Is
<1> SUFFICES ASSUME phase \in Taken, "copy" \notin crossed  PROVE BeforeHolds'
  BY <1>1 DEF BeforeHolds, Taken
<1>4. \A q \in DOMAIN copy \ saved : copy[q].type = "file" => OldFile(q) \/ NewFile(q)
  BY DEF BeforeHolds, Taken
<1>5. ASSUME NEW q \in DOMAIN copy', q \notin saved, copy'[q].type = "file"
      PROVE  OldFile(q)' \/ NewFile(q)'
  <2>1. CASE q \in DOMAIN copy /\ copy'[q] = copy[q]
    BY <1>3, <1>4, <1>5, <2>1
  <2>2. CASE ~(q \in DOMAIN copy /\ copy'[q] = copy[q])
    <3>1. copy' # Without(copy, p)
      BY <1>5, <2>2, WithoutNode
    <3>2. PICK node : Written(node) /\ copy' = Put(copy, p, node)
      BY <1>2, <3>1
    <3>3. q = p
      BY <1>5, <2>2, <3>2, PutNode
    <3>4. copy'[q] = node
      BY <3>2, <3>3, PutNode
    <3>5. node.text = "command" /\ (node.stamp = 1 \/ hidden')
      BY <1>5, <3>2, <3>4, Kinds DEF Written
    <3>6. QED  BY <3>4, <3>5 DEF NewFile
  <2>3. QED  BY <2>1, <2>2
<1>6. \A q \in DOMAIN copy' \ saved' : copy'[q].type = "file" => OldFile(q)' \/ NewFile(q)'
  BY <1>1, <1>5
<1>7. \A n : Fingerprint(n)' = Fingerprint(n) /\ (IsForeign(n)' <=> IsForeign(n))
  BY FingerprintFixed DEF IsForeign
<1>8. \A q : Is(mine, q, "file")' <=> Is(mine, q, "file")
  BY <1>1 DEF Is
<1>9. QED  BY <1>1, <1>6, <1>7, <1>8, Fixed DEF BeforeHolds, Taken

LEMMA BeforeStep ==
  ASSUME TreesHold, SyncHolds, CopyHolds, BeforeHolds, [Next]_vars
  PROVE  BeforeHolds'
<1>1. crossed \subseteq crossed' /\ mode' = mode
  BY CrossedGrows DEF Next, vars
<1>2. CASE CopyExcluded \/ CopyEntry
  <2>1. phase' \in {"copy", "failed"}
    BY <1>2 DEF CopyExcluded, CopyEntry
  <2>2. QED  BY <2>1 DEF BeforeHolds
<1>3. CASE SnapshotAfter \/ LeaveAlone \/ Approve \/ EndSync \/ Skip \/ Clear \/ Transfer
           \/ RemoveDeleted
  <2>1. UNCHANGED <<before, mine, saved, copy, hidden>> /\ phase \in Taken
    BY <1>3 DEF SnapshotAfter, LeaveAlone, Approve, EndSync, Skip, Clear, Transfer, RemoveDeleted,
       userVars, commandVars, Taken
  <2>2. QED  BY <1>1, <2>1, BeforeQuiet
<1>4. CASE UNCHANGED vars
  BY <1>1, <1>4, BeforeQuiet DEF vars
<1>5. CASE User
  BY <1>1, <1>5, BeforeUser DEF User
<1>6. QED
  BY <1>1, <1>2, <1>3, <1>4, <1>5, BeforeTaken, BeforeCommand DEF Next, Materialize, SyncBack

-----------------------------------------------------------------------------
(* The changes                                                              *)

Syncing == {"ask", "apply", "transfer", "done"}

LEMMA DiffIs ==
  ASSUME NEW old, NEW new
  PROVE  /\ \A p : p \in DOMAIN Diff(old, new) <=>
                /\ p \in DOMAIN old \/ p \in DOMAIN new
                /\ p \in DOMAIN old /\ p \in DOMAIN new => old[p] # new[p]
         /\ \A p \in DOMAIN Diff(old, new) : Diff(old, new)[p] = "Deleted" <=> p \notin DOMAIN new
BY DEF Diff

LEMMA UnchangedIsSame ==
  ASSUME TreesHold, BeforeHolds, RootsStraight, phase = "run", "copy" \notin crossed,
         mode = "full_hash" \/ ~hidden,
         NEW p, p \in DOMAIN mine \/ p \in DOMAIN copy, p \notin saved,
         p \notin DOMAIN Diff(before, Snapshot), Wanted(p, FALSE), Beneath(p), ~RootLink(p)
  PROVE  SameFile(mine, copy, p)
<1>0. TreesStand
  BY DEF TreesHold
<1>1. /\ p \in DOMAIN before =>
           \/ Is(mine, p, "file") /\ before[p] = Fingerprint(File(mine[p].text, 0))
           \/ \E node : node.type = "file" /\ IsForeign(node) /\ before[p] = Fingerprint(node)
                        /\ ~Is(mine, p, "file")
      /\ Is(mine, p, "file") => p \in DOMAIN before
      /\ Is(copy, p, "file") => OldFile(p) \/ NewFile(p)
  BY DEF BeforeHolds, Is
<1>2. p \in DOMAIN before \/ p \in DOMAIN Snapshot =>
        p \in DOMAIN before /\ p \in DOMAIN Snapshot /\ before[p] = Snapshot[p]
  BY DiffIs
<1>3. CASE Is(copy, p, "file")
  <2>1. p \in DOMAIN before /\ before[p] = Fingerprint(copy[p])
    BY <1>0, <1>2, <1>3, FilesRecorded
  <2>2. CASE Is(mine, p, "file") /\ before[p] = Fingerprint(File(mine[p].text, 0))
    <3> DEFINE f == File(mine[p].text, 0)
    <3>1. Fingerprint(f) = Fingerprint(copy[p])
      BY <2>1, <2>2
    <3>2. f.stamp = 0 /\ f.text = mine[p].text
      BY Kinds
    <3> HIDE DEF f
    <3>3. copy[p].stamp = 0 /\ (mode = "full_hash" => copy[p].text = mine[p].text)
      BY <3>1, <3>2, FingerprintsTell
    <3>4. mode = "full_hash" \/ OldFile(p)
      BY <1>1, <1>3, <3>3 DEF NewFile
    <3>5. copy[p].text = mine[p].text
      BY <3>3, <3>4 DEF OldFile
    <3>6. QED  BY <1>3, <2>2, <3>5 DEF SameFile
  <2>3. ASSUME NEW node, node.type = "file", IsForeign(node), before[p] = Fingerprint(node),
               ~Is(mine, p, "file")
        PROVE  FALSE
    <3>1. NewFile(p)
      BY <1>1, <1>3, <2>3 DEF OldFile
    <3>2. node.stamp = copy[p].stamp /\ (mode = "full_hash" => node.text = copy[p].text)
      BY <2>1, <2>3, FingerprintsTell
    <3>3. node.text # "command" /\ node.stamp # 1
      BY <2>3 DEF IsForeign
    <3>4. QED  BY <3>1, <3>2, <3>3 DEF NewFile
  <2>4. QED  BY <1>1, <2>1, <2>2, <2>3
<1>4. CASE ~Is(copy, p, "file") /\ Is(mine, p, "file")
  <2>1. p \in DOMAIN Snapshot
    BY <1>1, <1>2, <1>4
  <2>2. QED  BY <1>0, <1>4, <2>1, SnapshotHas
<1>5. QED  BY <1>3, <1>4 DEF SameFile

LEMMA ChangesTaken ==
  ASSUME TreesHold, SyncHolds, BeforeHolds, SnapshotAfter, mode' = mode, crossed \subseteq crossed'
  PROVE  ChangesHold'
<1> DEFINE diff == Diff(before, Snapshot)
<1>1. /\ phase = "run" /\ changes' = [p \in Collected(diff) |-> diff[p]] /\ CrossRoots
      /\ UNCHANGED <<source, copy, mine, saved, hidden, raced, applied>> /\ applied = {}
  BY DEF SnapshotAfter, userVars, commandVars, SyncHolds, Early
<1> SUFFICES ASSUME crossed' = {}  PROVE ChangesHold'
  BY DEF ChangesHold
<1>2. RootsStraight /\ "copy" \notin crossed /\ TreesStand
  BY <1>1, RootsAreStraight DEF TreesHold
<1>3. /\ \A p : p \in DOMAIN changes' <=> p \in DOMAIN diff /\ p # <<>> /\ ~ShouldExclude(p, FALSE)
      /\ \A p \in DOMAIN changes' : changes'[p] = diff[p]
  BY <1>1 DEF Collected
<1>4. ASSUME NEW p \in DOMAIN changes'
      PROVE  IF changes'[p] = "Deleted" THEN ~Is(copy, p, "file")
             ELSE p \in DOMAIN copy /\ copy[p].type \in {"file", "link"}
  <2>1. p \in DOMAIN diff /\ changes'[p] = diff[p]
    BY <1>3, <1>4
  <2>2. changes'[p] = "Deleted" <=> p \notin DOMAIN Snapshot
    BY <2>1, DiffIs
  <2>3. p \in DOMAIN before \/ p \in DOMAIN Snapshot
    BY <2>1, DiffIs
  <2>4. CASE p \in DOMAIN Snapshot
    BY <1>2, <2>2, <2>4, SnapshotHas
  <2>5. CASE p \notin DOMAIN Snapshot
    <3>1. Beneath(p)
      BY <1>1, <1>2, <2>3, <2>5 DEF BeforeHolds
    <3>2. ~Is(copy, p, "file")
      BY <1>2, <2>5, <3>1, FilesRecorded
    <3>3. QED  BY <2>2, <2>5, <3>2
  <2>6. QED  BY <2>4, <2>5
<1>5. ASSUME mode = "full_hash" \/ ~hidden,
             NEW p, p \in DOMAIN mine \/ p \in DOMAIN copy, p \notin saved,
             p \notin DOMAIN changes', Wanted(p, FALSE), Beneath(p), ~RootLink(p)
      PROVE  SameFile(mine, copy, p)
  <2>1. CASE p = <<>>
    <3>1. ~Is(mine, <<>>, "file") /\ Is(copy, <<>>, "dir")
      BY <1>2, TreeOf DEF TreesHold, TreesStand
    <3>2. QED  BY <2>1, <3>1 DEF SameFile, Is
  <2>2. CASE p # <<>>
    <3>1. p \in Seq(Names)
      BY <1>2, <1>5, TreeOf DEF TreesHold, TreesStand
    <3>2. FALSE \in BOOLEAN
      OBVIOUS
    <3>3. ~ShouldExclude(p, FALSE)
      BY <1>5, <2>2, <3>1, <3>2, WantedParts
    <3>4. p \notin DOMAIN diff
      BY <1>3, <1>5, <2>2, <3>3
    <3>5. QED  BY <1>1, <1>2, <1>5, <3>4, UnchangedIsSame
  <2>3. QED  BY <2>1, <2>2
<1> HIDE DEF diff
<1>6. \A p : (RootLink(p)' <=> RootLink(p)) /\ (SameFile(mine, copy, p)' <=> SameFile(mine, copy, p))
             /\ (Is(copy, p, "file")' <=> Is(copy, p, "file"))
  BY <1>1 DEF RootLink, SameFile, Is
<1>7. QED
  BY <1>1, <1>4, <1>5, <1>6, Fixed DEF ChangesHold

LEMMA SameFileFixed ==
  ASSUME UNCHANGED <<mine, copy>>
  PROVE  \A p : /\ SameFile(mine, copy, p)' <=> SameFile(mine, copy, p)
                /\ SameFile(source, copy, p)' <=> SameFile(source', copy, p)
                /\ RootLink(p)' <=> RootLink(p)
                /\ Is(copy, p, "file")' <=> Is(copy, p, "file")
BY DEF SameFile, RootLink, Is

(* Whether files are the same depends on the entries.                       *)
LEMMA SameEntries ==
  ASSUME NEW t, NEW u, NEW w, NEW p, Entry(t, p) = Entry(u, p)
  PROVE  SameFile(t, w, p) <=> SameFile(u, w, p)
<1>1. \A v : Is(v, p, "file") <=> Entry(v, p).type = "file"
  BY Kinds DEF Is, Entry
<1>2. \A v : Is(v, p, "file") => Entry(v, p) = v[p]
  BY DEF Is, Entry
<1>3. QED  BY <1>1, <1>2 DEF SameFile

LEMMA ChangesQuiet ==
  ASSUME ChangesHold, UNCHANGED <<mode, changes, copy, mine, saved, hidden, raced, source, applied>>,
         crossed \subseteq crossed', phase' \in Syncing => phase \in Syncing
  PROVE  ChangesHold'
<1>1. crossed' = {} => crossed = {}
  OBVIOUS
<1>2. QED  BY <1>1, Fixed, SameFileFixed DEF ChangesHold, Syncing

LEMMA ChangesEarly == ASSUME phase' \notin Syncing  PROVE ChangesHold'
BY DEF ChangesHold, Syncing

LEMMA ChangesUser ==
  ASSUME ChangesHold, mode' = mode, NEW p \in Paths, Save(p) \/ RemoveOwn(p)
  PROVE  ChangesHold'
<1>1. UNCHANGED <<phase, changes, copy, applied, hidden, raced, crossed>> /\ saved' = saved \cup {p}
  BY UserEffect
<1>2. \A q : q \notin saved' => /\ q # p /\ q \notin saved
                                /\ SameFile(mine', copy, q) <=> SameFile(mine, copy, q)
                                /\ SameFile(source', copy, q) <=> SameFile(source, copy, q)
                                /\ q \in DOMAIN mine' <=> q \in DOMAIN mine
  BY <1>1, UserSpares DEF SameFile, Is
<1>3. \A q : /\ SameFile(mine, copy, q)' <=> SameFile(mine', copy, q)
             /\ SameFile(source, copy, q)' <=> SameFile(source', copy, q)
             /\ RootLink(q)' <=> RootLink(q)
             /\ Is(copy, q, "file")' <=> Is(copy, q, "file")
  BY <1>1 DEF SameFile, RootLink, Is
<1> SUFFICES ASSUME phase \in Syncing, ~raced, crossed = {}  PROVE ChangesHold'
  BY <1>1 DEF ChangesHold, Syncing
<1>4. /\ \A q \in DOMAIN changes :
           IF changes[q] = "Deleted" THEN ~Is(copy, q, "file")
           ELSE q \in DOMAIN copy /\ copy[q].type \in {"file", "link"}
      /\ mode = "full_hash" \/ ~hidden =>
           \A q \in (DOMAIN mine \cup DOMAIN copy) \ (saved \cup DOMAIN changes) :
             Wanted(q, FALSE) /\ Beneath(q) /\ ~RootLink(q) => SameFile(mine, copy, q)
      /\ \A q \in applied \ saved : SameFile(source, copy, q)
  BY DEF ChangesHold, Syncing
<1>5. mode = "full_hash" \/ ~hidden =>
        \A q \in (DOMAIN mine' \cup DOMAIN copy') \ (saved' \cup DOMAIN changes') :
          Wanted(q, FALSE) /\ Beneath(q) /\ ~RootLink(q) => SameFile(mine', copy, q)
  BY <1>1, <1>2, <1>4
<1>6. \A q \in applied' \ saved' : SameFile(source', copy, q)
  BY <1>1, <1>2, <1>4
<1>7. QED  BY <1>1, <1>3, <1>4, <1>5, <1>6, Fixed DEF ChangesHold

LEMMA ChangesCommand == ASSUME ChangesHold, Command  PROVE ChangesHold'
<1>1. phase' = phase /\ (phase # "run" => raced')
  BY CommandEffect
<1>2. QED  BY <1>1 DEF ChangesHold

(* An applied change makes its file the same in both trees; the others stay.*)
LEMMA ChangesApply ==
  ASSUME ChangesHold, UNCHANGED <<mode, changes, copy, mine, saved, hidden, raced>>,
         crossed \subseteq crossed', phase \in Syncing,
         NEW p, applied' \subseteq applied \cup {p},
         ~raced /\ crossed' = {} =>
           /\ \A q : q # p => Entry(source', q) = Entry(source, q)
           /\ p \in applied' => SameFile(source', copy, p)
  PROVE  ChangesHold'
<1> SUFFICES ASSUME ~raced, crossed' = {}  PROVE ChangesHold'
  BY DEF ChangesHold
<1>1. crossed = {} /\ \A q \in applied \ saved : SameFile(source, copy, q)
  BY DEF ChangesHold, Syncing
<1>2. \A q : q # p => (SameFile(source', copy, q) <=> SameFile(source, copy, q))
  BY SameEntries
<1>3. \A q \in applied' \ saved : SameFile(source', copy, q)
  BY <1>1, <1>2
<1>4. QED
  BY <1>1, <1>3, Fixed, SameFileFixed DEF ChangesHold, Syncing

LEMMA ChangesSkip ==
  ASSUME TreesHold, ChangesHold, Skip, mode' = mode, crossed \subseteq crossed'
  PROVE  ChangesHold'
<1>1. PICK p \in Waiting :
        /\ phase = "apply" /\ changes[p] # "Deleted" /\ TypesOf(p) \cap {"file", "link"} = {}
        /\ Cross(p, {"copy"}) /\ UNCHANGED <<phase, changes, copy, raced>>
  BY DEF Skip, userVars, commandVars
<1>2. p \in DOMAIN changes /\ p \in Seq(Names) /\ p # <<>> /\ IsTree(Tree("copy"))
  BY <1>1, TreeIs DEF Waiting, TreesHold, TreesStand
<1>3. ASSUME ~raced, crossed' = {}  PROVE FALSE
  <2>1. ~OnWay("copy", p) /\ crossed = {}
    BY <1>1, <1>3 DEF Cross
  <2>2. p \in DOMAIN copy /\ copy[p].type \in {"file", "link"}
    BY <1>1, <1>2, <1>3, <2>1 DEF ChangesHold
  <2> DEFINE l == [tree |-> "copy", path |-> p]
  <2>3. l \in Place("copy", p)
    BY <1>2, <2>1, <2>2, TreeIs, StraightPlace
  <2>4. Exists(l) /\ At(l) = copy[p]
    BY <2>2, TreeIs DEF Exists, At
  <2> HIDE DEF l
  <2>5. copy[p].type \in TypesOf(p)
    BY <2>3, <2>4 DEF TypesOf
  <2>6. QED  BY <1>1, <2>2, <2>5
<1>4. QED  BY <1>1, <1>3 DEF ChangesHold

LEMMA ChangesClear == ASSUME TreesHold, ChangesHold, Clear, mode' = mode  PROVE ChangesHold'
<1>1. PICK p \in DOMAIN changes :
        /\ p \notin applied /\ phase = "apply"
        /\ UNCHANGED <<changes, copy, hidden, raced, applied, mine, saved>>
        /\ crossed' = crossed \cup {t \in {"copy", "source"} : OnWay(t, p)}
        /\ Touched(p)
  BY ClearEffect
<1>2. crossed \subseteq crossed' /\ (crossed' = {} => ~OnWay("source", p))
  BY <1>1
<1>3. crossed' = {} => \A q : q # p => Entry(source', q) = Entry(source, q)
  BY <1>1, <1>2 DEF Touched
<1>4. QED  BY <1>1, <1>2, <1>3, ChangesApply DEF Syncing

LEMMA ChangesTransfer ==
  ASSUME TreesHold, SyncHolds, NodesHold, ChangesHold, Transfer, mode' = mode
  PROVE  ChangesHold'
<1> DEFINE p == moving.path
<1>1. /\ p \in Seq(Names) /\ p # <<>>
      /\ phase = "transfer" /\ UNCHANGED <<changes, copy, hidden, raced, mine, saved>>
      /\ crossed' = crossed \cup {t \in {"copy", "source"} : OnWay(t, p)}
      /\ Touched(p)
      /\ \/ phase' = "failed"
         \/ /\ phase' = "apply" /\ applied' = applied \cup {p}
            /\ \E node \in Transferred(p, moving.type) : \E l \in Free(p, moving.type) :
                 source' = IF l.tree = "source" THEN Put(source, l.path, node) ELSE source
  BY TransferEffect
<1>2. CASE phase' = "failed"
  BY <1>2, ChangesEarly DEF Syncing
<1>3. CASE phase' = "apply"
  <2>1. PICK node \in Transferred(p, moving.type) : \E l \in Free(p, moving.type) :
          source' = IF l.tree = "source" THEN Put(source, l.path, node) ELSE source
    BY <1>1, <1>3
  <2>2. PICK l \in Free(p, moving.type) :
          source' = IF l.tree = "source" THEN Put(source, l.path, node) ELSE source
    BY <2>1
  <2>3. ASSUME ~raced, crossed' = {}
        PROVE  /\ \A q : q # p => Entry(source', q) = Entry(source, q)
               /\ SameFile(source', copy, p)
    <3>1. ~OnWay("copy", p) /\ ~OnWay("source", p) /\ crossed = {}
      BY <1>1, <2>3
    <3>2. p \in DOMAIN copy /\ copy[p].type = moving.type /\ moving.type \in {"file", "link"}
      BY <1>1, <2>3, <3>1 DEF NodesHold
    <3>3. node.type = moving.type /\ (moving.type = "file" => node.text = copy[p].text)
      BY <1>1, <3>1, <3>2, TransferredText
    <3>4. l.tree = "source" /\ l.path = p
      BY <1>1, <3>1, StraightPlaceIs DEF Free
    <3>5. p \in DOMAIN source' /\ source'[p] = node
      BY <2>2, <3>4, PutNode
    <3>6. SameFile(source', copy, p)
      BY <3>2, <3>3, <3>5 DEF SameFile, Is
    <3>7. QED  BY <1>1, <3>1, <3>6 DEF Touched
  <2>4. applied' \subseteq applied \cup {p} /\ crossed \subseteq crossed' /\ phase \in Syncing
    BY <1>1, <1>3 DEF Syncing
  <2> HIDE DEF p
  <2>5. QED  BY <1>1, <2>3, <2>4, ChangesApply
<1>4. QED  BY <1>1, <1>2, <1>3

LEMMA ChangesRemove == ASSUME TreesHold, ChangesHold, RemoveDeleted, mode' = mode  PROVE ChangesHold'
<1>1. PICK p \in DOMAIN changes :
        /\ p \in Seq(Names) /\ p # <<>>
        /\ changes[p] = "Deleted" /\ applied' = applied \cup {p} /\ phase = "apply"
        /\ UNCHANGED <<changes, copy, hidden, raced, mine, saved>>
        /\ crossed' = crossed \cup {t \in {"source"} : OnWay(t, p)}
        /\ Touched(p)
        /\ IF Followed("source", p) = {} THEN source' = source
           ELSE source' = Less(source, Old(p, "source"))
  BY RemoveEffect
<1>2. ASSUME ~raced, crossed' = {}
      PROVE  /\ \A q : q # p => Entry(source', q) = Entry(source, q)
             /\ SameFile(source', copy, p)
  <2>1. ~OnWay("source", p) /\ crossed = {}
    BY <1>1, <1>2
  <2>2. ~Is(copy, p, "file")
    BY <1>1, <1>2, <2>1 DEF ChangesHold
  <2>3. ~Is(source', p, "file")
    <3>1. CASE ~Is(source, p, "file")
      BY <1>1, <3>1, LessNode DEF Is
    <3>2. CASE Is(source, p, "file")
      <4> DEFINE l == [tree |-> "source", path |-> p]
      <4>1. p \in DOMAIN Tree("source") /\ IsTree(Tree("source")) /\ ~Is(Tree("source"), p, "link")
        BY <3>2, TreeIs DEF Is, TreesHold, TreesStand
      <4>2. NoLinks("source", p)
        BY <1>1, <2>1, <4>1, WayFollowed
      <4>3. l \in Followed("source", p) /\ l \in Place("source", p)
        BY <1>1, <2>1, <4>1, <4>2, StraightFound, StraightPlace
      <4>4. Exists(l) /\ At(l).type # "dir" /\ l.tree = "source" /\ l.path = p
        BY <3>2, <4>1, TreeIs DEF Exists, At, Is
      <4> HIDE DEF l
      <4>5. p \in Old(p, "source")
        BY <4>3, <4>4 DEF Old
      <4>6. source' = Less(source, Old(p, "source"))
        BY <1>1, <4>3
      <4>7. QED  BY <4>5, <4>6, LessNode DEF Is
    <3>3. QED  BY <3>1, <3>2
  <2>4. QED  BY <1>1, <2>1, <2>2, <2>3 DEF SameFile, Touched
<1>3. QED  BY <1>1, <1>2, ChangesApply DEF Syncing

LEMMA ChangesStep ==
  ASSUME TreesHold, SyncHolds, NodesHold, BeforeHolds, ChangesHold, [Next]_vars
  PROVE  ChangesHold'
<1>1. crossed \subseteq crossed' /\ mode' = mode
  BY CrossedGrows DEF Next, vars
<1>2. CASE CopyExcluded \/ CopyEntry \/ SnapshotBefore
  <2>1. phase' \notin Syncing
    BY <1>2 DEF CopyExcluded, CopyEntry, SnapshotBefore, Syncing
  <2>2. QED  BY <2>1, ChangesEarly
<1>3. CASE LeaveAlone \/ Approve \/ EndSync
  <2>1. UNCHANGED <<changes, copy, mine, saved, hidden, raced, source, applied>> /\ phase \in Syncing
    BY <1>3 DEF LeaveAlone, Approve, EndSync, userVars, commandVars, Syncing
  <2>2. QED  BY <1>1, <2>1, ChangesQuiet
<1>4. CASE UNCHANGED vars
  BY <1>1, <1>4, ChangesQuiet DEF vars
<1>5. CASE User
  BY <1>1, <1>5, ChangesUser DEF User
<1>6. QED
  BY <1>1, <1>2, <1>3, <1>4, <1>5, ChangesTaken, ChangesCommand, ChangesSkip, ChangesClear,
     ChangesTransfer, ChangesRemove
  DEF Next, Materialize, SyncBack

-----------------------------------------------------------------------------
(* The invariant holds                                                      *)

LEMMA EndStep == ASSUME EndHolds, [Next]_vars  PROVE EndHolds'
<1>1. CASE EndSync
  BY <1>1 DEF EndSync, EndHolds, Waiting
<1>2. CASE LeaveAlone
  BY <1>2 DEF LeaveAlone, Tell, EndHolds
<1>3. CASE User
  <2>1. UNCHANGED <<phase, event, changes, applied>>
    BY <1>3, UserEffect DEF User
  <2>2. QED  BY <2>1 DEF EndHolds
<1>4. CASE Command
  <2>1. UNCHANGED <<phase, event, changes, applied>>
    BY <1>4, CommandEffect
  <2>2. QED  BY <2>1 DEF EndHolds
<1>5. CASE CopyExcluded \/ CopyEntry \/ SnapshotBefore \/ SnapshotAfter \/ Approve \/ Skip \/ Clear
           \/ Transfer \/ RemoveDeleted
  <2>1. phase' # "done"
    BY <1>5 DEF CopyExcluded, CopyEntry, SnapshotBefore, SnapshotAfter, Approve, Skip, Clear,
       Transfer, RemoveDeleted
  <2>2. QED  BY <2>1 DEF EndHolds
<1>6. CASE UNCHANGED vars
  BY <1>6 DEF vars, EndHolds
<1>7. QED
  BY <1>1, <1>2, <1>3, <1>4, <1>5, <1>6 DEF Next, Materialize, SyncBack

LEMMA CopyStep == ASSUME TreesHold, CopyHolds, [Next]_vars  PROVE CopyHolds'
<1>1. CASE SnapshotAfter \/ LeaveAlone \/ Approve \/ EndSync \/ Skip \/ Clear \/ Transfer
           \/ RemoveDeleted
  <2>1. UNCHANGED <<commandLeft, hidden, raced>> /\ phase' \notin {"copy", "run"}
    BY <1>1 DEF SnapshotAfter, LeaveAlone, Approve, EndSync, Skip, Clear, Transfer, RemoveDeleted,
       commandVars
  <2>2. QED  BY <2>1, CopyLater
<1>2. CASE User
  BY <1>2, CopyUser DEF User
<1>3. CASE UNCHANGED vars
  <2>1. UNCHANGED <<phase, source, copy, host, todo, mine, saved, commandLeft, hidden, raced>>
    BY <1>3 DEF vars
  <2>2. \A p : SameNode(p)' <=> SameNode(p)
    BY <2>1 DEF SameNode
  <2>3. CopyFilters' <=> CopyFilters
    BY <2>1, <2>2, NodeFixed DEF CopyFilters
  <2>4. (SourceForeign' <=> SourceForeign) /\ (CopyForeign' <=> CopyForeign)
    BY <2>1 DEF SourceForeign, CopyForeign, IsForeign
  <2>5. \A e \in todo' : EntryHolds(e) => EntryHolds(e)'
    BY <2>1, EntryKept
  <2>6. QED  BY <2>1, <2>3, <2>4, <2>5 DEF CopyHolds
<1>4. QED
  BY <1>1, <1>2, <1>3, CopyExcludedHolds, CopyEntryHolds, CopySnapshot, CopyCommand
  DEF Next, Materialize, SyncBack

LEMMA ReplicaInit == Init => ReplicaHolds
<1> SUFFICES ASSUME Init  PROVE ReplicaHolds
  OBVIOUS
<1>1. phase = "copy"
  BY DEF Init
<1>2. BeforeHolds /\ ChangesHold /\ EndHolds
  BY <1>1 DEF BeforeHolds, ChangesHold, EndHolds
<1>3. QED  BY <1>2, TreesInit, SyncInit, CopyInit, NodesInit DEF ReplicaHolds

LEMMA ReplicaStep == ASSUME ReplicaHolds, [Next]_vars  PROVE ReplicaHolds'
<1>1. TreesHold /\ SyncHolds /\ CopyHolds /\ NodesHold /\ BeforeHolds /\ ChangesHold /\ EndHolds
  BY DEF ReplicaHolds
<1>2. TreesHold' /\ SyncHolds' /\ CopyHolds' /\ NodesHold' /\ BeforeHolds' /\ ChangesHold' /\ EndHolds'
  BY <1>1, TreesStep, SyncStep, CopyStep, NodesStep, BeforeStep, ChangesStep, EndStep
<1>3. QED  BY <1>2 DEF ReplicaHolds

LEMMA ReplicaAlways == Spec => []ReplicaHolds
<1>1. ReplicaHolds /\ [Next]_vars => ReplicaHolds'
  BY ReplicaStep
<1>2. QED  BY <1>1, ReplicaInit, PTL DEF Spec

-----------------------------------------------------------------------------

(* For every workspace, every set of exclusions and whatever the user does  *)
(* meanwhile, materialize_replica_workspace copies what is not excluded,    *)
(* itself or by what it lies in, and nothing else, a link as a link.        *)
THEOREM CopyFiltersAll == Spec => []CopyIsFiltered
<1>1. ReplicaHolds => CopyIsFiltered
  <2> SUFFICES ASSUME ReplicaHolds, phase = "run", commandLeft = MaxCommand,
                      NEW p \in (DOMAIN mine \cup DOMAIN copy) \ saved
               PROVE  /\ p \in DOMAIN copy <=> p \in DOMAIN mine /\ Wanted(p, Is(mine, p, "dir"))
                      /\ p \in DOMAIN copy => SameNode(p)
    BY DEF CopyIsFiltered, SameNode
  <2>1. CopyFilters /\ todo = {}
    BY DEF ReplicaHolds, CopyHolds
  <2>2. p \in DOMAIN mine => (Wanted(p, Is(mine, p, "dir")) <=> WantedNode(p, mine[p].type))
    <3>1. CASE Is(mine, p, "dir")
      <4>1. Is(mine, p, "dir") = TRUE /\ mine[p].type = "dir"
        BY <3>1 DEF Is
      <4>2. QED  BY <4>1 DEF WantedNode
    <3>2. CASE p \in DOMAIN mine /\ mine[p].type # "dir"
      <4>1. Is(mine, p, "dir") = FALSE
        BY <3>2 DEF Is
      <4>2. QED  BY <3>2, <4>1 DEF WantedNode
    <3>3. QED  BY <3>1, <3>2 DEF Is
  <2>3. QED  BY <2>1, <2>2 DEF CopyFilters
<1>2. QED  BY <1>1, ReplicaAlways, PTL

(* For every workspace, whatever links it, the copy and the host have, and  *)
(* every interleaving with the user and the command, a sync-back changes    *)
(* nothing before the user agrees, and nothing that has a secret name,      *)
(* wherever the links lead.  While no link of the workspace is on the way of*)
(* a change, it changes nothing but files of approved and not excluded      *)
(* changes, and wherever it stops, at most one file is missing that was not *)
(* deleted.                                                                 *)
THEOREM SyncTouchesOnlyChanges == Spec => []OnlyChangesApplied
<1>1. ReplicaHolds => OnlyChangesApplied
  <2> SUFFICES ASSUME SyncHolds  PROVE OnlyChangesApplied
    BY DEF ReplicaHolds
  <2>1. phase \in Early \/ (phase = "done" /\ ~event.approved) => \A p : ~Differs(p) /\ ~DiffersOut(p)
    BY DEF SyncHolds, DiffersOut
  <2>2. phase \in Early \cup {"apply", "transfer", "done", "failed"}
    BY DEF SyncHolds, Phases, Early
  <2>3. Named(source, mine) /\ Named(host, Host)
    BY <2>1, <2>2 DEF SyncHolds, Named, Differs, DiffersOut
  <2>4. ASSUME "source" \notin crossed, NEW p, Differs(p)
        PROVE  /\ p \in applied \/ p = moving.path
               /\ p \in DOMAIN changes /\ ~ShouldExclude(p, FALSE)
               /\ p \notin DOMAIN source => changes[p] = "Deleted" \/ p = moving.path
    <3>1. p \in applied \/ (moving # Nothing /\ p = moving.path)
      BY <2>4 DEF SyncHolds
    <3>2. moving # Nothing => moving.path \in DOMAIN changes
      BY <2>2 DEF SyncHolds
    <3>3. p \in DOMAIN changes
      BY <3>1, <3>2 DEF SyncHolds
    <3>4. p \notin DOMAIN source => changes[p] = "Deleted" \/ p = moving.path
      BY <2>4 DEF SyncHolds
    <3>5. ~ShouldExclude(p, FALSE)
      BY <3>3 DEF SyncHolds
    <3>6. QED  BY <3>1, <3>3, <3>4, <3>5
  <2>5. "source" \notin crossed => host = Host
    BY DEF SyncHolds
  <2>6. QED  BY <2>3, <2>4, <2>5 DEF OnlyChangesApplied, Differs
<1>2. QED  BY <1>1, ReplicaAlways, PTL

(* An approved sync-back that ends without a link on the way of a path      *)
(* leaves in the workspace what the command left in the copy, beneath the   *)
(* writable paths and but for what is excluded or changed by the user: no   *)
(* change is missed by the snapshots, and none is applied wrongly.          *)
THEOREM SyncBringsAll == Spec => []SyncedIsCopied
<1>1. ReplicaHolds => SyncedIsCopied
  <2> SUFFICES ASSUME ReplicaHolds, phase = "done", event.approved, ~raced, crossed = {},
                      mode = "full_hash" \/ ~hidden,
                      NEW p \in (DOMAIN source \cup DOMAIN copy) \ saved,
                      Wanted(p, FALSE), Beneath(p), ~RootLink(p)
               PROVE  SameFile(source, copy, p)
    BY DEF SyncedIsCopied, SameFile, Beneath, RootLink
  <2>1. /\ \A q \in (DOMAIN mine \cup DOMAIN copy) \ (saved \cup DOMAIN changes) :
              Wanted(q, FALSE) /\ Beneath(q) /\ ~RootLink(q) => SameFile(mine, copy, q)
        /\ \A q \in applied \ saved : SameFile(source, copy, q)
        /\ DOMAIN changes \subseteq applied
    BY DEF ReplicaHolds, ChangesHold, EndHolds
  <2>2. CASE p \in applied
    BY <2>1, <2>2
  <2>3. CASE p \notin applied
    <3>1. SyncHolds
      BY DEF ReplicaHolds
    <3>2. Entry(source, p) = Entry(mine, p)
      BY <2>3, <3>1 DEF SyncHolds, Differs
    <3>3. SameFile(source, copy, p) <=> SameFile(mine, copy, p)
      BY <3>2, SameEntries
    <3>4. SameFile(mine, copy, p)
      <4>1. CASE p \in DOMAIN mine \cup DOMAIN copy
        BY <2>1, <2>3, <4>1
      <4>2. CASE p \notin DOMAIN mine \cup DOMAIN copy
        BY <4>2 DEF SameFile, Is
      <4>3. QED  BY <4>1, <4>2
    <3>5. QED  BY <3>3, <3>4
  <2>4. QED  BY <2>2, <2>3
<1>2. QED  BY <1>1, ReplicaAlways, PTL

(* Neither the copy nor the sync-back reads through the last link of a path:*)
(* copy_symlink and symlink_metadata are used wherever the copy may have    *)
(* one.                                                                     *)
THEOREM LinksStayLinks == Spec => []LinksAreNotFollowed
<1>1. ReplicaHolds => LinksAreNotFollowed
  BY DEF ReplicaHolds, NodesHold, LinksAreNotFollowed, Is
<1>2. QED  BY <1>1, ReplicaAlways, PTL
=============================================================================
