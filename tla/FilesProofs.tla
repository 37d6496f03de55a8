---------------------------- MODULE FilesProofs ----------------------------
(***************************************************************************)
(* For any mounts, programs and bounds: the trees stay trees in which each *)
(* file has one name, whatever a path resolves to is what the calls take   *)
(* it for, and from that the promises of module Files.                     *)
(*                                                                         *)
(* Sections 1 and 2 are about loops and paths, 3 about what a path         *)
(* resolves to, 4 about the operations of MemVfs on one tree. Section 5    *)
(* shows that every call is a step of one of a few kinds, and 6 that the   *)
(* steps keep the invariant. Section 7 has the theorems that follow from   *)
(* it; 8 shows that programs stay where they are, 9 that a path followed   *)
(* to its end is no link, 10 that listings agree with what can be looked   *)
(* up, and 11 that the resolver finds what the textbook walk finds.        *)
(***************************************************************************)
EXTENDS Files, FiniteSetTheorems, SequenceTheorems, WellFoundedInduction, TLAPS

-----------------------------------------------------------------------------
(* 1. Induction, and functions defined by recursion.                       *)

LEMMA LeastNumber ==
    ASSUME NEW T, T \subseteq Nat, T # {}
    PROVE  \E x \in T : \A y \in T : ~(y < x)
<1> DEFINE R == {ss \in Nat \X Nat : ss[1] < ss[2]}
<1>1. IsWellFoundedOn(R, Nat)
  BY NatLessThanWellFounded DEF OpToRel
<1>2. \A x, y \in Nat : y < x => <<y, x>> \in R
  OBVIOUS
<1> HIDE DEF R
<1>3. \E x \in T : \A y \in T : ~(<<y, x>> \in R)
  BY <1>1, WFMin
<1> QED
  BY <1>2, <1>3

LEMMA Induction ==
    ASSUME NEW S, 0 \in S, \A n \in Nat : n \in S => n + 1 \in S
    PROVE  \A n \in Nat : n \in S
<1> DEFINE T == Nat \ S
<1>1. CASE T # {}
  <2>1. PICK x \in T : \A y \in T : ~(y < x)
    BY <1>1, LeastNumber
  <2>2. x \in Nat \ {0} /\ x - 1 \in Nat
    BY <2>1
  <2>3. x - 1 \in S
    BY <2>1, <2>2
  <2> QED
    BY <2>1, <2>2, <2>3
<1> QED
  BY <1>1

(* A loop of L rounds, where round n makes F[n][v] of v. *)
IsLoop(g, V, L, v0, F) ==
    /\ g \in [0 .. L -> V]
    /\ g[0] = v0
    /\ \A n \in 1 .. L : g[n] = F[n][g[n - 1]]

LEMMA LoopExists ==
    ASSUME NEW V, NEW L \in Nat, NEW v0 \in V, NEW F \in [1 .. L -> [V -> V]]
    PROVE  \E g : IsLoop(g, V, L, v0, F)
<1> DEFINE S == {m \in Nat : m <= L => \E g : IsLoop(g, V, m, v0, F)}
<1>1. 0 \in S
  <2>1. IsLoop([n \in 0 .. 0 |-> v0], V, 0, v0, F)
    BY DEF IsLoop
  <2> QED
    BY <2>1
<1>2. ASSUME NEW m \in Nat, m \in S, m + 1 <= L
      PROVE  \E g : IsLoop(g, V, m + 1, v0, F)
  <2>1. PICK g : IsLoop(g, V, m, v0, F)
    BY <1>2
  <2> DEFINE h == [n \in 0 .. m + 1 |-> IF n <= m THEN g[n] ELSE F[m + 1][g[m]]]
  <2>2. F[m + 1] \in [V -> V] /\ g[m] \in V
    BY <1>2, <2>1 DEF IsLoop
  <2>3. h \in [0 .. m + 1 -> V]
    BY <2>1, <2>2 DEF IsLoop
  <2>4. h[0] = v0
    BY <2>1 DEF IsLoop
  <2>5. ASSUME NEW n \in 1 .. m + 1
        PROVE  h[n] = F[n][h[n - 1]]
    <3>1. CASE n <= m
      <4>1. n \in 1 .. m /\ n \in 0 .. m + 1 /\ n - 1 \in 0 .. m + 1 /\ n - 1 <= m
        BY <3>1
      <4>2. g[n] = F[n][g[n - 1]]
        BY <2>1, <4>1 DEF IsLoop
      <4> QED
        BY <3>1, <4>1, <4>2
    <3>2. CASE n = m + 1
      <4>1. n \in 0 .. m + 1 /\ ~(n <= m) /\ n - 1 = m /\ m \in 0 .. m + 1
        BY <3>2
      <4> QED
        BY <3>2, <4>1
    <3> QED
      BY <3>1, <3>2
  <2> HIDE DEF h
  <2>6. IsLoop(h, V, m + 1, v0, F)
    BY <2>3, <2>4, <2>5 DEF IsLoop
  <2> QED
    BY <2>6
<1>3. \A m \in Nat : m \in S => m + 1 \in S
  BY <1>2
<1> HIDE DEF S
<1>4. L \in S
  BY <1>1, <1>3, Induction
<1> QED
  BY <1>4 DEF S

-----------------------------------------------------------------------------
(* 2. Paths: prefixes, what is below one, and the directory of a path.     *)

LEMMA PathLength ==
    ASSUME NEW p \in Path
    PROVE  Len(p) \in Nat /\ (p = <<>> <=> Len(p) = 0) /\ p \o <<>> = p /\ <<>> \o p = p
<1>1. Len(p) \in Nat /\ (p # <<>> => Len(p) \in Nat \ {0}) /\ Len(<<>>) = 0
  BY LenProperties, EmptySeq DEF Path
<1>2. p \o <<>> = p /\ <<>> \o p = p
  BY ConcatEmptySeq DEF Path
<1> QED
  BY <1>1, <1>2

LEMMA Joined ==
    ASSUME NEW p \in Path, NEW s \in Path
    PROVE  p \o s \in Path /\ Len(p \o s) = Len(p) + Len(s)
  BY ConcatProperties DEF Path

LEMMA JoinedTwice ==
    ASSUME NEW p \in Path, NEW s \in Path, NEW r \in Path
    PROVE  (p \o s) \o r = p \o (s \o r)
  BY ConcatAssociative DEF Path

LEMMA BelowOfJoined ==
    ASSUME NEW p \in Path, NEW s \in Path
    PROVE  Below(p, p \o s) = s /\ IsPrefix(p, p \o s)
<1>1. /\ Len(p) \in Nat /\ Len(s) \in Nat
      /\ p \o s \in Path
      /\ Len(p \o s) = Len(p) + Len(s)
      /\ \A i \in 1 .. Len(p) + Len(s) :
             (p \o s)[i] = IF i <= Len(p) THEN p[i] ELSE s[i - Len(p)]
  BY PathLength, ConcatProperties DEF Path
<1> DEFINE q == p \o s
<1>2. \A i \in 1 .. Len(q) : q[i] \in Name
  BY <1>1, ElementOfSeq DEF Path
<1>3. \A i \in 1 .. Len(p) : p[i] \in Name
  BY ElementOfSeq DEF Path
<1> HIDE DEF q
<1>4. Below(p, q) = s
  <2> DEFINE b == SubSeq(q, Len(p) + 1, Len(q))
  <2>1. \A i \in Len(p) + 1 .. Len(q) : q[i] \in Name
    BY <1>1, <1>2 DEF q
  <2>2. /\ b \in Seq(Name)
        /\ Len(b) = IF Len(p) + 1 <= Len(q) THEN Len(q) - (Len(p) + 1) + 1 ELSE 0
        /\ \A i \in 1 .. Len(q) - (Len(p) + 1) + 1 : b[i] = q[Len(p) + 1 + i - 1]
    <3>1. Len(p) + 1 \in Int /\ Len(q) \in Int
      BY <1>1 DEF q
    <3> HIDE DEF b
    <3> QED
      BY <2>1, <3>1, SubSeqProperties DEF b
  <2> HIDE DEF b
  <2>3. Len(b) = Len(s)
    BY <1>1, <2>2 DEF q
  <2>4. ASSUME NEW i \in 1 .. Len(s) PROVE b[i] = s[i]
    <3>1. i \in 1 .. Len(q) - (Len(p) + 1) + 1 /\ Len(p) + 1 + i - 1 = Len(p) + i
      BY <1>1 DEF q
    <3>2. b[i] = q[Len(p) + i]
      BY <2>2, <3>1
    <3>3. Len(p) + i \in 1 .. Len(p) + Len(s) /\ ~(Len(p) + i <= Len(p))
          /\ Len(p) + i - Len(p) = i
      BY <1>1
    <3> QED
      BY <1>1, <3>2, <3>3 DEF q
  <2>5. b = s
    BY <2>2, <2>3, <2>4, SeqEqual DEF Path
  <2> QED
    BY <2>5 DEF b, Below
<1>5. IsPrefix(p, q)
  <2>1. SubSeq(p, 1, Len(p)) = p
    BY SubSeqFull DEF Path
  <2> DEFINE a == SubSeq(q, 1, Len(p))
  <2>2. \A i \in 1 .. Len(p) : q[i] \in Name
    BY <1>1, <1>2 DEF q
  <2>3. /\ a \in Seq(Name)
        /\ Len(a) = IF 1 <= Len(p) THEN Len(p) - 1 + 1 ELSE 0
        /\ \A i \in 1 .. Len(p) - 1 + 1 : a[i] = q[1 + i - 1]
    <3>1. 1 \in Int /\ Len(p) \in Int
      BY <1>1
    <3> HIDE DEF a
    <3> QED
      BY <2>2, <3>1, SubSeqProperties DEF a
  <2> HIDE DEF a
  <2>4. Len(a) = Len(p)
    BY <1>1, <2>3
  <2>5. ASSUME NEW i \in 1 .. Len(p) PROVE a[i] = p[i]
    <3>1. i \in 1 .. Len(p) - 1 + 1 /\ 1 + i - 1 = i /\ i \in 1 .. Len(p) + Len(s) /\ i <= Len(p)
      BY <1>1
    <3> QED
      BY <1>1, <2>3, <3>1 DEF q
  <2>6. a = p
    BY <2>3, <2>4, <2>5, SeqEqual DEF Path
  <2> QED
    BY <1>1, <2>1, <2>6 DEF IsPrefix, a, q
<1> QED
  BY <1>4, <1>5 DEF q

LEMMA JoinedBelow ==
    ASSUME NEW p \in Path, NEW q \in Path, IsPrefix(p, q)
    PROVE  Below(p, q) \in Path /\ p \o Below(p, q) = q
<1>1. Len(p) \in Nat /\ Len(q) \in Nat /\ Len(p) <= Len(q)
  BY PathLength DEF IsPrefix
<1>2. SubSeq(p, 1, Len(p)) = p /\ SubSeq(q, 1, Len(q)) = q
  BY SubSeqFull DEF Path
<1>3. SubSeq(q, 1, Len(p)) = p
  BY <1>2 DEF IsPrefix
<1>4. \A i \in 1 .. Len(q) : q[i] \in Name
  BY ElementOfSeq DEF Path
<1>5. Below(p, q) \in Path
  <2>1. \A i \in Len(p) + 1 .. Len(q) : q[i] \in Name
    BY <1>1, <1>4
  <2>2. Len(p) + 1 \in Int /\ Len(q) \in Int
    BY <1>1
  <2> QED
    BY <2>1, <2>2, SubSeqProperties DEF Below, Path
<1>6. SubSeq(q, 1, Len(p)) \o SubSeq(q, Len(p) + 1, Len(q)) = SubSeq(q, 1, Len(q))
  <2>1. 1 \in 1 .. Len(q) + 1 /\ Len(p) \in 1 - 1 .. Len(q) /\ Len(q) \in Len(p) .. Len(q)
    BY <1>1
  <2> QED
    BY <2>1, ConcatAdjacentSubSeq DEF Path
<1> QED
  BY <1>2, <1>3, <1>5, <1>6 DEF Below

LEMMA PrefixIffJoined ==
    ASSUME NEW p \in Path, NEW q \in Path
    PROVE  IsPrefix(p, q) <=> \E s \in Path : q = p \o s
<1>1. IsPrefix(p, q) => Below(p, q) \in Path /\ q = p \o Below(p, q)
  BY JoinedBelow
<1>2. ASSUME NEW s \in Path, q = p \o s PROVE IsPrefix(p, q)
  BY <1>2, BelowOfJoined
<1> QED
  BY <1>1, <1>2

LEMMA EmptyIsPath ==
    <<>> \in Path
  BY EmptySeq DEF Path

LEMMA PrefixOrder ==
    ASSUME NEW p \in Path, NEW q \in Path
    PROVE  /\ IsPrefix(<<>>, p) /\ IsPrefix(p, p)
           /\ IsPrefix(p, q) => Len(p) <= Len(q)
           /\ IsPrefix(p, q) /\ Len(q) <= Len(p) => p = q
           /\ \A r \in Path : IsPrefix(p, q) /\ IsPrefix(q, r) => IsPrefix(p, r)
<1>1. p = p \o <<>> /\ p = <<>> \o p
  BY PathLength
<1>2. IsPrefix(<<>>, p) /\ IsPrefix(p, p)
  BY <1>1, EmptyIsPath, BelowOfJoined
<1>3. IsPrefix(p, q) => Len(p) <= Len(q)
  BY DEF IsPrefix
<1>4. ASSUME IsPrefix(p, q), Len(q) <= Len(p) PROVE p = q
  <2>1. Len(p) = Len(q)
    BY <1>3, <1>4, PathLength
  <2> QED
    BY <1>4, <2>1, SubSeqFull DEF IsPrefix, Path
<1>5. ASSUME NEW r \in Path, IsPrefix(p, q), IsPrefix(q, r) PROVE IsPrefix(p, r)
  <2>1. Below(p, q) \in Path /\ Below(q, r) \in Path
    BY <1>5, JoinedBelow
  <2>2. q = p \o Below(p, q) /\ r = q \o Below(q, r)
    BY <1>5, JoinedBelow
  <2> DEFINE a == Below(p, q)
             b == Below(q, r)
  <2>3. r = p \o (a \o b)
    <3>1. a \in Path /\ b \in Path /\ q = p \o a /\ r = q \o b
      BY <2>1, <2>2
    <3> HIDE DEF a, b
    <3>2. p \in Path /\ a \in Path /\ b \in Path
      BY <3>1
    <3>3. (p \o a) \o b = p \o (a \o b)
      BY ONLY <3>2, JoinedTwice
    <3> QED
      BY <3>1, <3>3
  <2>4. Below(p, q) \o Below(q, r) \in Path
    BY <2>1, Joined
  <2> QED
    BY <2>3, <2>4, BelowOfJoined
<1> QED
  BY <1>2, <1>3, <1>4, <1>5

LEMMA FrontOfPath ==
    ASSUME NEW p \in Path, p # <<>>
    PROVE  Front(p) \in Path /\ Len(Front(p)) = Len(p) - 1 /\ IsPrefix(Front(p), p)
<1>1. Len(p) \in Nat \ {0}
  BY PathLength
<1>2. \A i \in 1 .. Len(p) - 1 : p[i] \in Name
  BY <1>1, ElementOfSeq DEF Path
<1>3. Len(p) - 1 \in Int /\ 1 \in Int
  BY <1>1
<1>4. Front(p) \in Path /\ Len(Front(p)) = Len(p) - 1
  <2> DEFINE n == Len(p) - 1
  <2>1. n \in Int /\ \A i \in 1 .. n : p[i] \in Name
    BY <1>2, <1>3
  <2> HIDE DEF n
  <2>2. SubSeq(p, 1, n) \in Seq(Name) /\ Len(SubSeq(p, 1, n)) = IF 1 <= n THEN n - 1 + 1 ELSE 0
    BY <2>1, SubSeqProperties
  <2>3. n \in Nat /\ (1 <= n => n - 1 + 1 = n) /\ (~(1 <= n) => n = 0)
    <3>1. \A k \in Nat \ {0} : k - 1 \in Nat /\ (1 <= k - 1 => k - 1 - 1 + 1 = k - 1)
                                          /\ (~(1 <= k - 1) => k - 1 = 0)
      OBVIOUS
    <3> QED
      BY <1>1, <3>1, Zenon DEF n
  <2>4. Len(SubSeq(p, 1, n)) = n
    BY <2>2, <2>3
  <2>5. Front(p) = SubSeq(p, 1, n)
    BY DEF Front, n
  <2>6. n = Len(p) - 1
    BY DEF n
  <2> QED
    BY <2>2, <2>4, <2>5, <2>6 DEF Path
<1>5. Front(p) \o SubSeq(p, (Len(p) - 1) + 1, Len(p)) = p
  <2>1. 1 \in 1 .. Len(p) + 1 /\ Len(p) - 1 \in 1 - 1 .. Len(p) /\ Len(p) \in Len(p) - 1 .. Len(p)
    BY <1>1
  <2>2. SubSeq(p, 1, Len(p) - 1) \o SubSeq(p, (Len(p) - 1) + 1, Len(p)) = SubSeq(p, 1, Len(p))
    BY <2>1, ConcatAdjacentSubSeq DEF Path
  <2> QED
    BY <2>2, SubSeqFull DEF Front, Path
<1>6. SubSeq(p, (Len(p) - 1) + 1, Len(p)) \in Path
  <2>1. \A i \in (Len(p) - 1) + 1 .. Len(p) : p[i] \in Name
    BY <1>1, ElementOfSeq DEF Path
  <2>2. (Len(p) - 1) + 1 \in Int /\ Len(p) \in Int
    BY <1>1
  <2> QED
    BY <2>1, <2>2, SubSeqProperties DEF Path
<1>7. IsPrefix(Front(p), p)
  BY <1>4, <1>5, <1>6, BelowOfJoined
<1> QED
  BY <1>4, <1>7

(* What is above q is at p or below it, or q is p itself. *)
LEMMA PrefixOfFront ==
    ASSUME NEW p \in Path, NEW q \in Path, q # <<>>
    PROVE  /\ IsPrefix(p, Front(q)) => IsPrefix(p, q)
           /\ IsPrefix(p, q) /\ p # q => IsPrefix(p, Front(q))
<1>1. Front(q) \in Path /\ Len(Front(q)) = Len(q) - 1 /\ IsPrefix(Front(q), q)
  BY FrontOfPath
<1>2. IsPrefix(p, Front(q)) => IsPrefix(p, q)
  BY <1>1, PrefixOrder
<1>3. ASSUME IsPrefix(p, q), p # q PROVE IsPrefix(p, Front(q))
  <2>1. Len(p) \in Nat /\ Len(q) \in Nat /\ Len(p) <= Len(q) - 1
    BY <1>3, PrefixOrder, PathLength
  <2>2. SubSeq(Front(q), 1, Len(p)) = SubSeq(q, 1, Len(p))
    <3>1. Front(q) \o SubSeq(q, Len(q), Len(q)) = q
      <4>1. 1 \in 1 .. Len(q) + 1 /\ Len(q) - 1 \in 1 - 1 .. Len(q) /\ Len(q) \in Len(q) - 1 .. Len(q)
            /\ (Len(q) - 1) + 1 = Len(q)
        BY <2>1
      <4>2. SubSeq(q, 1, Len(q) - 1) \o SubSeq(q, (Len(q) - 1) + 1, Len(q)) = SubSeq(q, 1, Len(q))
        BY <4>1, ConcatAdjacentSubSeq DEF Path
      <4> QED
        BY <4>1, <4>2, SubSeqFull DEF Front, Path
    <3>2. SubSeq(q, Len(q), Len(q)) \in Path
      <4>1. \A i \in Len(q) .. Len(q) : q[i] \in Name
        BY <2>1, PathLength, ElementOfSeq DEF Path
      <4> QED
        BY <2>1, <4>1, SubSeqProperties DEF Path
    <3>3. CASE p = <<>>
      <4>1. Len(p) = 0
        BY <3>3, PathLength
      <4>2. 1 \in Int /\ 0 \in Int /\ 0 < 1
        OBVIOUS
      <4> QED
        BY <4>1, <4>2, SubSeqEmpty
    <3>4. CASE p # <<>>
      <4>1. Len(p) \in 1 .. Len(Front(q)) /\ 1 \in 1 .. Len(Front(q))
        BY <1>1, <2>1, <3>4, PathLength
      <4> DEFINE last1 == SubSeq(q, Len(q), Len(q))
      <4>2. last1 \in Path /\ Front(q) \o last1 = q
        BY <3>1, <3>2
      <4> HIDE DEF last1
      <4>3. SubSeq(Front(q) \o last1, 1, Len(p)) = SubSeq(Front(q), 1, Len(p))
        BY <1>1, <4>1, <4>2, SubSeqOfConcat1 DEF Path
      <4> QED
        BY <4>2, <4>3
    <3> QED
      BY <3>3, <3>4
  <2> QED
    BY <1>1, <1>3, <2>1, <2>2 DEF IsPrefix
<1> QED
  BY <1>2, <1>3

LEMMA FrontOfJoined ==
    ASSUME NEW p \in Path, NEW s \in Path, s # <<>>
    PROVE  p \o s # <<>> /\ Front(p \o s) = p \o Front(s)
<1> DEFINE q == p \o s
<1>1. q \in Path /\ Len(q) = Len(p) + Len(s) /\ Len(p) \in Nat /\ Len(s) \in Nat \ {0}
  BY Joined, PathLength
<1>2. IsPrefix(p, q) /\ Below(p, q) = s
  BY BelowOfJoined
<1> HIDE DEF q
<1>3. q # <<>> /\ p # q
  BY <1>1, PathLength
<1>4. IsPrefix(p, Front(q)) /\ Front(q) \in Path /\ Len(Front(q)) = Len(q) - 1
  BY <1>1, <1>2, <1>3, PrefixOfFront, FrontOfPath
<1>5. Below(p, Front(q)) \in Path /\ p \o Below(p, Front(q)) = Front(q)
  BY <1>4, JoinedBelow
<1> DEFINE b == Below(p, Front(q))
<1>6. Front(s) \in Path /\ Len(Front(s)) = Len(s) - 1
  BY FrontOfPath
<1>7. Below(p, Front(q)) = Front(s)
  <2>1. IsPrefix(Front(q), q) /\ Below(Front(q), q) \in Path /\ Front(q) \o Below(Front(q), q) = q
    BY <1>1, <1>3, <1>4, FrontOfPath, JoinedBelow
  <2> DEFINE e == Below(Front(q), q)
  <2>2. q = p \o (b \o e) /\ b \o e \in Path
    <3>1. b \in Path /\ e \in Path /\ q = (p \o b) \o e
      BY <1>5, <2>1
    <3> HIDE DEF b, e
    <3>2. b \o e \in Path
      BY <3>1, Joined
    <3>3. (p \o b) \o e = p \o (b \o e)
      BY <3>1, JoinedTwice, ZenonT(60)
    <3> QED
      BY <3>1, <3>2, <3>3
  <2>3. s = b \o e
    BY <1>2, <2>2, BelowOfJoined
  <2>4. IsPrefix(b, s)
    BY <1>5, <2>1, <2>3, BelowOfJoined
  <2>5. Len(b) = Len(s) - 1
    <3>1. Len(p \o b) = Len(p) + Len(b) /\ Len(b) \in Nat
      BY <1>5, Joined, PathLength
    <3> QED
      BY <1>1, <1>4, <1>5, <3>1
  <2>6. b # s
    BY <1>1, <2>5
  <2>7. IsPrefix(b, Front(s))
    BY <1>5, <2>4, <2>6, PrefixOfFront
  <2> QED
    BY <1>1, <1>5, <1>6, <2>5, <2>7, PrefixOrder
<1> QED
  BY <1>3, <1>5, <1>7 DEF q

-----------------------------------------------------------------------------
(* 3. What a path resolves to.                                             *)

IsTree(t) ==
    /\ t = [p \in DOMAIN t |-> t[p]] /\ DOMAIN t \subseteq Path
    /\ WellFormed(t) /\ \A p \in DOMAIN t : t[p] \in Nodes

FileHandles == [is : {"file"}, id : FileIds, mount : MountPoints, pos : 0 .. MaxLen,
                read : BOOLEAN, write : BOOLEAN, append : BOOLEAN]
Descriptions == {Closed, [is |-> "other"]} \cup [is : {"dir"}, path : Path] \cup FileHandles

StateOK ==
    /\ tree = [m \in MountPoints |-> tree[m]] /\ \A m \in MountPoints : IsTree(tree[m])
    /\ len \in [FileIds -> 0 .. MaxLen]
    /\ fds \in [Fd -> Descriptions]
    /\ cwd \in Path /\ exe \in Programs

LEMMA Constants ==
    /\ MountPoints \subseteq Path /\ Programs \subseteq Path
    /\ Paths \subseteq Path /\ Interpreters \subseteq Path
    /\ Targets \subseteq Path /\ Homes \subseteq Path
    /\ ReadOnly \subseteq MountPoints /\ <<>> \in MountPoints /\ OwnPid \in Name
    /\ FileIds \subseteq Nat /\ Limit \in Nat \ {0} /\ MaxHops \in Nat \ {0}
    /\ MaxLen \in Nat \ {0} /\ MaxNodes \in Nat
<1>1. STRING \subseteq Name
  BY DEF Name
<1>2. \A q \in Seq(STRING) : q \in Path
  BY <1>1, SeqMonotonic DEF Path
<1>3. OwnPid \in Name
  BY FilesAssumption DEF Name
<1> QED
  BY <1>2, <1>3, FilesAssumption

LEMMA MinOfNumbers ==
    ASSUME NEW T, T \subseteq Nat, T # {}
    PROVE  Min(T) \in T /\ \A y \in T : Min(T) <= y
<1>1. PICK x \in T : \A y \in T : ~(y < x)
  BY LeastNumber
<1>2. \A y \in T : x <= y
  BY <1>1
<1> QED
  BY <1>2 DEF Min

LEMMA MountOfPath ==
    ASSUME NEW p \in Path
    PROVE  /\ MountOf(p) \in MountPoints /\ MountOf(p) \in Path /\ IsPrefix(MountOf(p), p)
           /\ Below(MountOf(p), p) \in Path /\ MountOf(p) \o Below(MountOf(p), p) = p
           /\ \A m \in MountPoints : IsPrefix(m, p) => Len(m) <= Len(MountOf(p))
<1> DEFINE onTheWay == {m \in MountPoints : IsPrefix(m, p)}
           T == {k \in Nat : \E m \in onTheWay : Len(m) + k = Len(p)}
<1>1. \A m \in onTheWay : m \in Path /\ Len(m) \in Nat /\ Len(p) \in Nat /\ Len(m) <= Len(p)
  BY Constants, PathLength, PrefixOrder
<1>2. <<>> \in onTheWay /\ Len(<<>>) = 0 /\ Len(p) \in Nat
  BY Constants, PrefixOrder, PathLength, EmptyIsPath
<1>3. T # {} /\ T \subseteq Nat
  <2>1. Len(p) \in T
    BY <1>2
  <2> QED
    BY <2>1
<1>4. PICK k \in T : \A j \in T : ~(j < k)
  BY <1>3, LeastNumber
<1>5. PICK m \in onTheWay : Len(m) + k = Len(p)
  BY <1>4
<1>6. ASSUME NEW n \in onTheWay PROVE Len(n) <= Len(m)
  <2>1. Len(p) - Len(n) \in T
    BY <1>1, <1>6
  <2>2. ~(Len(p) - Len(n) < k)
    BY <1>4, <2>1
  <2>3. k \in Nat /\ Len(p) \in Nat /\ Len(n) \in Nat /\ Len(m) \in Nat
    BY <1>1, <1>4, <1>6
  <2> QED
    BY <1>5, <2>2, <2>3
<1>7. MountOf(p) \in onTheWay /\ \A n \in onTheWay : Len(n) <= Len(MountOf(p))
  BY <1>6 DEF MountOf
<1>8. MountOf(p) \in Path
  BY <1>1, <1>7
<1> QED
  BY <1>7, <1>8, JoinedBelow

LEMMA UnderIsPath ==
    ASSUME NEW p \in Path, NEW c \in Name
    PROVE  Under(p, c) \in Path
  BY FrontOfPath, AppendProperties DEF Under, Path

LEMMA FoldedUnfolds ==
    ASSUME NEW path \in Path
    PROVE  \E g \in [0 .. Len(path) -> Path] :
              /\ Folded(path) = g[Len(path)]
              /\ g[0] = <<>>
              /\ \A n \in 1 .. Len(path) : g[n] = Under(g[n - 1], path[n])
<1> DEFINE L == Len(path)
           F == [n \in 1 .. L |-> [v \in Path |-> Under(v, path[n])]]
           Round(f) == [n \in 0 .. L |-> IF n = 0 THEN <<>> ELSE Under(f[n - 1], path[n])]
           parts == CHOOSE f : f = Round(f)
<1>1. L \in Nat /\ <<>> \in Path
  BY PathLength, EmptyIsPath
<1>2. F \in [1 .. L -> [Path -> Path]]
  <2>1. \A n \in 1 .. L, v \in Path : Under(v, path[n]) \in Path
    BY UnderIsPath, ElementOfSeq DEF Path
  <2> QED
    BY <2>1
<1>3. PICK g : IsLoop(g, Path, L, <<>>, F)
  BY <1>1, <1>2, LoopExists
<1>4. g \in [0 .. L -> Path] /\ g[0] = <<>> /\ \A n \in 1 .. L : g[n] = Under(g[n - 1], path[n])
  <2>1. \A n \in 1 .. L : n - 1 \in 0 .. L
    BY <1>1
  <2> QED
    BY <1>3, <2>1 DEF IsLoop
<1>5. g = Round(g)
  <2>1. \A n \in 0 .. L : g[n] = Round(g)[n]
    BY <1>1, <1>4
  <2> QED
    BY <1>4, <2>1
<1>6. parts = Round(parts)
  BY <1>5
<1>7. Folded(path) = parts[L]
  BY DEF Folded
<1> HIDE DEF parts
<1>8. parts[0] = <<>> /\ \A n \in 1 .. L : parts[n] = Under(parts[n - 1], path[n])
  <2>1. 0 \in 0 .. L /\ \A n \in 1 .. L : n \in 0 .. L /\ n # 0
    BY <1>1
  <2> QED
    BY <1>6, <2>1
<1>9. \A n \in Nat : n <= L => parts[n] \in Path
  <2> DEFINE S == {n \in Nat : n <= L => parts[n] \in Path}
  <2>1. 0 \in S
    BY <1>1, <1>8
  <2>2. ASSUME NEW n \in Nat, n \in S, n + 1 <= L PROVE parts[n + 1] \in Path
    <3>1. n + 1 \in 1 .. L /\ (n + 1) - 1 = n /\ parts[n] \in Path
      BY <1>1, <2>2
    <3>2. path[n + 1] \in Name
      BY <3>1, ElementOfSeq DEF Path
    <3> QED
      BY <1>8, <3>1, <3>2, UnderIsPath
  <2>3. \A n \in Nat : n \in S => n + 1 \in S
    BY <1>1, <2>2
  <2> HIDE DEF S
  <2>4. \A n \in Nat : n \in S
    BY <2>1, <2>3, Induction
  <2> QED
    BY <2>4 DEF S
<1>10. parts \in [0 .. L -> Path]
  <2>1. \A n \in 0 .. L : parts[n] \in Path
    BY <1>1, <1>9
  <2>2. parts = [n \in 0 .. L |-> parts[n]]
    BY <1>6
  <2> QED
    BY <2>1, <2>2
<1> QED
  BY <1>7, <1>8, <1>10

LEMMA NormalizeIsPath ==
    ASSUME NEW base \in Path, NEW path \in Path
    PROVE  Normalize(base, path) \in Path
<1>1. ASSUME NEW q \in Path PROVE Folded(q) \in Path
  <2>1. PICK g \in [0 .. Len(q) -> Path] : Folded(q) = g[Len(q)]
    BY FoldedUnfolds
  <2>2. Len(q) \in 0 .. Len(q)
    BY PathLength
  <2> QED
    BY <2>1, <2>2
<1> QED
  BY <1>1, Joined DEF Normalize

LEMMA NamesArePaths ==
    ASSUME NEW c \in Name, NEW p \in Path
    PROVE  /\ <<c>> \in Path /\ <<c>> \o p \in Path /\ Len(<<c>> \o p) = 1 + Len(p)
           /\ <<c>> \o p # <<>> /\ (<<c>> \o p)[1] = c
           /\ \A i \in 1 .. Len(p) : (<<c>> \o p)[i + 1] = p[i]
<1>1. <<c>> \in Path /\ Len(<<c>>) = 1 /\ <<c>>[1] = c
  BY DEF Path
<1>2. Len(p) \in Nat
  BY PathLength
<1>3. /\ <<c>> \o p \in Path /\ Len(<<c>> \o p) = 1 + Len(p)
      /\ \A i \in 1 .. 1 + Len(p) :
             (<<c>> \o p)[i] = IF i <= 1 THEN <<c>>[i] ELSE p[i - 1]
  BY <1>1, ConcatProperties DEF Path
<1>4. <<c>> \o p # <<>>
  BY <1>2, <1>3, PathLength
<1>5. (<<c>> \o p)[1] = c
  BY <1>1, <1>2, <1>3
<1>6. ASSUME NEW i \in 1 .. Len(p) PROVE (<<c>> \o p)[i + 1] = p[i]
  <2>1. i + 1 \in 1 .. 1 + Len(p) /\ ~(i + 1 <= 1) /\ (i + 1) - 1 = i
    BY <1>2
  <2> QED
    BY <1>3, <2>1
<1> QED
  BY <1>1, <1>3, <1>4, <1>5, <1>6

LEMMA PartOfPath ==
    ASSUME NEW p \in Path, NEW i \in 0 .. Len(p)
    PROVE  /\ SubSeq(p, 1, i) \in Path /\ Len(SubSeq(p, 1, i)) = i
           /\ SubSeq(p, i + 1, Len(p)) \in Path
           /\ \A k \in 1 .. i : SubSeq(p, 1, i)[k] = p[k]
<1>1. Len(p) \in Nat /\ \A k \in 1 .. Len(p) : p[k] \in Name
  BY PathLength, ElementOfSeq DEF Path
<1>2. /\ SubSeq(p, 1, i) \in Seq(Name)
      /\ Len(SubSeq(p, 1, i)) = IF 1 <= i THEN i - 1 + 1 ELSE 0
      /\ \A k \in 1 .. i - 1 + 1 : SubSeq(p, 1, i)[k] = p[1 + k - 1]
  <2>1. 1 \in Int /\ i \in Int /\ \A k \in 1 .. i : p[k] \in Name
    BY <1>1
  <2> QED
    BY <2>1, SubSeqProperties
<1>3. SubSeq(p, i + 1, Len(p)) \in Seq(Name)
  <2>1. i + 1 \in Int /\ Len(p) \in Int /\ \A k \in i + 1 .. Len(p) : p[k] \in Name
    BY <1>1
  <2> QED
    BY <2>1, SubSeqProperties
<1>4. Len(SubSeq(p, 1, i)) = i
  BY <1>1, <1>2
<1>5. ASSUME NEW k \in 1 .. i PROVE SubSeq(p, 1, i)[k] = p[k]
  <2>1. k \in 1 .. i - 1 + 1 /\ 1 + k - 1 = k
    BY <1>1
  <2> QED
    BY <1>2, <2>1
<1> QED
  BY <1>2, <1>3, <1>4, <1>5 DEF Path

LEMMA NodesApart ==
    ASSUME NEW n \in Nodes
    PROVE  /\ n # Missing /\ n.is # "missing"
           /\ n.is = "dir" <=> n = Dir
           /\ n.is = "file" => n.id \in FileIds /\ n = File(n.id)
           /\ n.is = "link" => n.to \in Targets /\ n = Link(n.to)
           /\ n.is \in {"dir", "file", "link"}
<1>1. CASE n = Dir
  BY <1>1 DEF Dir, Missing
<1>2. ASSUME NEW id \in FileIds, n = File(id) PROVE n.is = "file" /\ n.id = id /\ n # Dir /\ n # Missing
  BY <1>2 DEF Dir, Missing, File
<1>3. ASSUME NEW t \in Targets, n = Link(t) PROVE n.is = "link" /\ n.to = t /\ n # Dir /\ n # Missing
  BY <1>3 DEF Dir, Missing, Link
<1>4. n = Dir \/ (\E id \in FileIds : n = File(id)) \/ (\E t \in Targets : n = Link(t))
  BY DEF Nodes
<1>5. Dir.is = "dir"
  BY DEF Dir
<1> QED
  BY <1>1, <1>2, <1>3, <1>4, <1>5

LEMMA NodeOrMissing ==
    ASSUME NEW t, IsTree(t), NEW p
    PROVE  /\ NodeAt(t, p) \in Nodes \cup {Missing}
           /\ NodeAt(t, p) = Missing <=> p \notin DOMAIN t
           /\ NodeAt(t, p).is = "missing" <=> p \notin DOMAIN t
           /\ NodeAt(t, p).is # "missing" => NodeAt(t, p) \in Nodes /\ NodeAt(t, p) = t[p]
           /\ NodeAt(t, p).is = "dir" <=> NodeAt(t, p) = Dir
<1>1. CASE p \in DOMAIN t
  BY <1>1, NodesApart DEF IsTree, NodeAt
<1>2. CASE p \notin DOMAIN t
  BY <1>2 DEF NodeAt, Missing, Dir
<1> QED
  BY <1>1, <1>2

LEMMA TargetIsPath ==
    ASSUME StateOK, NEW p \in Path
    PROVE  LinkTarget(p) \in Path /\ VirtualLink(p) \in Path
<1>1. exe \in Path /\ cwd \in Path
  BY Constants DEF StateOK
<1>2. <<"/">> \o exe \in Path /\ <<"/">> \o cwd \in Path
  <2>1. "/" \in Name
    BY DEF Name
  <2> QED
    BY <1>1, <2>1, NamesArePaths
<1>3. /\ <<"/", "proc", "self", "fd", "0">> \in Path
      /\ <<"/", "proc", "self", "fd", "1">> \in Path
      /\ <<"/", "proc", "self", "fd", "2">> \in Path
  <2>1. {"/", "proc", "self", "fd", "0", "1", "2"} \subseteq Name
    BY DEF Name
  <2> QED
    BY <2>1 DEF Path
<1>4. VirtualLink(p) \in Path
  BY <1>2, <1>3, EmptyIsPath, Zenon DEF VirtualLink, NoLink
<1>5. MountOf(p) \in MountPoints
  BY MountOfPath
<1> DEFINE n == NodeAt(tree[MountOf(p)], Below(MountOf(p), p))
<1>6. n.is = "link" => n.to \in Path
  <2>1. IsTree(tree[MountOf(p)])
    BY <1>5 DEF StateOK
  <2>2. n \in Nodes \cup {Missing}
    BY <2>1, NodeOrMissing
  <2>3. Missing.is # "link"
    BY DEF Missing
  <2> HIDE DEF n
  <2> QED
    BY <2>2, <2>3, NodesApart, Constants
<1> HIDE DEF n
<1>7. LinkTarget(p) = IF VirtualLink(p) # NoLink THEN VirtualLink(p)
                      ELSE IF n.is # "link" \/ p \in Programs \cup Devices THEN NoLink ELSE n.to
  BY DEF LinkTarget, n
<1>8. NoLink \in Path
  BY EmptyIsPath DEF NoLink
<1> QED
  BY <1>4, <1>6, <1>7, <1>8

LEMMA FirstLink ==
    ASSUME NEW p \in Path, NEW follow \in BOOLEAN, Links(p, follow) # {}
    PROVE  Min(Links(p, follow)) \in Links(p, follow) /\ Min(Links(p, follow)) \in 1 .. Len(p)
<1>1. Links(p, follow) \subseteq 1 .. Len(p) /\ Len(p) \in Nat
  BY PathLength DEF Links
<1>2. Links(p, follow) \subseteq Nat
  BY <1>1
<1> QED
  BY <1>1, <1>2, MinOfNumbers

LEMMA HopIsPath ==
    ASSUME StateOK, NEW p \in Path, NEW follow \in BOOLEAN
    PROVE  Hop(p, follow) \in Path
<1> DEFINE i == Min(Links(p, follow))
<1>1. CASE Links(p, follow) = {}
  BY <1>1 DEF Hop
<1>2. CASE Links(p, follow) # {}
  <2>1. i \in 1 .. Len(p)
    BY <1>2, FirstLink
  <2> HIDE DEF i
  <2>2. i \in 0 .. Len(p) /\ i - 1 \in 0 .. Len(p)
    BY <2>1, PathLength
  <2>3. SubSeq(p, 1, i) \in Path /\ SubSeq(p, 1, i - 1) \in Path /\ SubSeq(p, i + 1, Len(p)) \in Path
    BY <2>2, PartOfPath
  <2>4. LinkTarget(SubSeq(p, 1, i)) \in Path
    BY <2>3, TargetIsPath
  <2>5. Normalize(SubSeq(p, 1, i - 1), LinkTarget(SubSeq(p, 1, i))) \in Path
    BY <2>3, <2>4, NormalizeIsPath
  <2>6. Spliced(p, i, LinkTarget(SubSeq(p, 1, i))) \in Path
    BY <2>3, <2>5, Joined DEF Spliced
  <2> QED
    BY <1>2, <2>6 DEF Hop, i
<1> QED
  BY <1>1, <1>2

LEMMA HoppedUnfolds ==
    ASSUME StateOK, NEW p \in Path, NEW follow \in BOOLEAN
    PROVE  \E g \in [0 .. MaxHops -> Path] :
              /\ Hopped(p, follow) = g[MaxHops]
              /\ g[0] = p
              /\ \A n \in 1 .. MaxHops : g[n] = Hop(g[n - 1], follow)
<1> DEFINE L == MaxHops
           F == [n \in 1 .. L |-> [v \in Path |-> Hop(v, follow)]]
           Round(f) == [n \in 0 .. L |-> IF n = 0 THEN p ELSE Hop(f[n - 1], follow)]
           after == CHOOSE f : f = Round(f)
<1>1. L \in Nat
  BY Constants
<1>2. F \in [1 .. L -> [Path -> Path]]
  BY HopIsPath
<1>3. PICK g : IsLoop(g, Path, L, p, F)
  BY <1>1, <1>2, LoopExists
<1>4. g \in [0 .. L -> Path] /\ g[0] = p /\ \A n \in 1 .. L : g[n] = Hop(g[n - 1], follow)
  <2>1. \A n \in 1 .. L : n - 1 \in 0 .. L
    BY <1>1
  <2> QED
    BY <1>3, <2>1 DEF IsLoop
<1>5. g = Round(g)
  <2>1. \A n \in 0 .. L : g[n] = Round(g)[n]
    BY <1>1, <1>4
  <2> QED
    BY <1>4, <2>1
<1>6. after = Round(after)
  BY <1>5
<1>7. Hopped(p, follow) = after[L]
  BY DEF Hopped
<1> HIDE DEF after
<1>8. after[0] = p /\ \A n \in 1 .. L : after[n] = Hop(after[n - 1], follow)
  <2>1. 0 \in 0 .. L /\ \A n \in 1 .. L : n \in 0 .. L /\ n # 0
    BY <1>1
  <2> QED
    BY <1>6, <2>1
<1>9. \A n \in Nat : n <= L => after[n] \in Path
  <2> DEFINE S == {n \in Nat : n <= L => after[n] \in Path}
  <2>1. 0 \in S
    BY <1>1, <1>8
  <2>2. ASSUME NEW n \in Nat, n \in S, n + 1 <= L PROVE after[n + 1] \in Path
    <3>1. n + 1 \in 1 .. L /\ (n + 1) - 1 = n /\ after[n] \in Path
      BY <1>1, <2>2
    <3> QED
      BY <1>8, <3>1, HopIsPath
  <2>3. \A n \in Nat : n \in S => n + 1 \in S
    BY <1>1, <2>2
  <2> HIDE DEF S
  <2>4. \A n \in Nat : n \in S
    BY <2>1, <2>3, Induction
  <2> QED
    BY <2>4 DEF S
<1>10. after \in [0 .. L -> Path]
  <2>1. \A n \in 0 .. L : after[n] \in Path
    BY <1>1, <1>9
  <2>2. after = [n \in 0 .. L |-> after[n]]
    BY <1>6
  <2> QED
    BY <2>1, <2>2
<1> QED
  BY <1>7, <1>8, <1>10

LEMMA HoppedIsPath ==
    ASSUME StateOK, NEW p \in Path, NEW follow \in BOOLEAN
    PROVE  Hopped(p, follow) \in Path
<1>1. PICK g \in [0 .. MaxHops -> Path] : Hopped(p, follow) = g[MaxHops]
  BY HoppedUnfolds
<1>2. MaxHops \in 0 .. MaxHops
  BY Constants
<1> QED
  BY <1>1, <1>2

(* What a path can turn out to be. *)
OnMount(n, p) == n = Mounted(MountOf(p), p) /\ n = Classify(p)
IsResult(n) ==
    \/ \E e \in {"LOOP", "BADF", "NOTDIR"} : n = Nothing(e)
    \/ \E p \in Programs : n = Program(p)
    \/ \E p \in Path : n = KernelDir(p)
    \/ \E q : n = Device(q) \/ n = Synth(q) \/ n = KernelLink(q)
    \/ \E p \in Path : OnMount(n, p)

LEMMA ClassifyIsResult ==
    ASSUME NEW p \in Path
    PROVE  IsResult(Classify(p))
<1> DEFINE c == Classify(p)
<1>1. CASE p \in Programs
  BY <1>1 DEF Classify, IsResult
<1>2. CASE p \notin Programs /\ p \in Devices
  BY <1>2 DEF Classify, IsResult
<1>3. CASE p \notin Programs /\ p \notin Devices /\ OfProc(p)
  <2>1. c = ProcNode(p) /\ ProcNode(p) # Missing
    BY <1>3 DEF Classify, OfProc
  <2> DEFINE rest == InProc(p)
  <2>2. ProcNode(p) = CASE rest \in {<<"fd">>, <<"self">>} -> KernelDir(p)
          [] Len(rest) = 2 /\ rest[1] = "fd" -> Device(rest)
          [] Len(rest) = 1 /\ rest[1] \in ProcFiles \cup {"cmdline", "comm", "status"} -> Synth(p)
          [] OTHER -> Missing
    BY DEF ProcNode
  <2> HIDE DEF rest
  <2>3. ProcNode(p) \in {KernelDir(p), Device(rest), Synth(p), Missing}
    BY <2>2, Zenon
  <2> QED
    BY <2>1, <2>3 DEF IsResult
<1>4. CASE p \notin Programs /\ p \notin Devices /\ ~OfProc(p)
  <2>1. c = KernelDir(p) \/ c = Mounted(MountOf(p), p)
    BY <1>4 DEF Classify
  <2> HIDE DEF c
  <2> QED
    BY <2>1 DEF IsResult, OnMount, c
<1> QED
  BY <1>1, <1>2, <1>3, <1>4

LEMMA ResolveIsResult ==
    ASSUME StateOK, NEW base \in Path, NEW path \in Path, NEW follow \in BOOLEAN
    PROVE  IsResult(Resolve(base, path, follow))
<1> DEFINE end == Hopped(Normalize(base, path), follow)
<1>1. end \in Path
  BY NormalizeIsPath, HoppedIsPath
<1>2. IsResult(Nothing("LOOP")) /\ IsResult(KernelLink(VirtualLink(end)))
  BY DEF IsResult
<1>3. IsResult(Classify(end))
  BY <1>1, ClassifyIsResult
<1>4. Resolve(base, path, follow) \in
          {Nothing("LOOP"), KernelLink(VirtualLink(end)), Classify(end)}
  BY DEF Resolve
<1> HIDE DEF end
<1> QED
  BY <1>2, <1>3, <1>4

LEMMA DescriptionFields ==
    ASSUME NEW h \in Descriptions
    PROVE  /\ h.is \in {"closed", "other", "dir", "file"}
           /\ h.is = "closed" <=> h = Closed
           /\ h.is = "dir" => h.path \in Path
           /\ h.is = "file" => h \in FileHandles
  BY DEF Descriptions, Closed, FileHandles

LEMMA LookIsResult ==
    ASSUME StateOK, NEW path \in Paths \cup Interpreters, NEW at \in Bases(path),
           NEW follow \in BOOLEAN
    PROVE  IsResult(Look(at, path, follow))
<1>1. path \in Path /\ cwd \in Path
  BY Constants DEF StateOK
<1>2. CASE at = Cwd \/ Absolute(path)
  BY <1>1, <1>2, ResolveIsResult DEF Look
<1>3. CASE at # Cwd /\ ~Absolute(path)
  <2>1. at \in Fd /\ fds[at] \in Descriptions
    BY <1>3 DEF Bases, StateOK
  <2>2. IsResult(Nothing("BADF")) /\ IsResult(Nothing("NOTDIR"))
    BY DEF IsResult
  <2>3. fds[at].is = "dir" => IsResult(Resolve(fds[at].path, path, follow))
    BY <1>1, <2>1, DescriptionFields, ResolveIsResult
  <2> QED
    BY <1>3, <2>2, <2>3 DEF Look
<1> QED
  BY <1>2, <1>3

LEMMA ResultFields ==
    ASSUME NEW n, IsResult(n)
    PROVE  /\ n.is = "mounted" => /\ n.mount \in MountPoints /\ n.rel \in Path /\ n.guest \in Path
                                  /\ \E p \in Path : OnMount(n, p)
           /\ n.is = "program" => n.guest \in Programs
           /\ n.is = "kernel dir" => n.guest \in Path
<1>1. ASSUME NEW p \in Path, OnMount(n, p)
      PROVE  n.is = "mounted" /\ n.mount \in MountPoints /\ n.rel \in Path /\ n.guest \in Path
  BY <1>1, MountOfPath DEF OnMount, Mounted
<1>2. ASSUME NEW e, n = Nothing(e) PROVE n.is = "error"
  BY <1>2 DEF Nothing
<1>3. ASSUME NEW p \in Programs, n = Program(p) PROVE n.is = "program" /\ n.guest \in Programs
  BY <1>3 DEF Program
<1>4. ASSUME NEW p \in Path, n = KernelDir(p) PROVE n.is = "kernel dir" /\ n.guest \in Path
  BY <1>4 DEF KernelDir
<1>5. ASSUME NEW q, n = Device(q) \/ n = Synth(q) \/ n = KernelLink(q)
      PROVE  n.is \in {"device", "synth", "kernel link"}
  <2>1. n = Device(q) => n.is = "device"
    BY DEF Device
  <2>2. n = Synth(q) => n.is = "synth"
    BY DEF Synth
  <2>3. KernelLink(q).is = "kernel link"
    BY DEF KernelLink
  <2> QED
    BY <1>5, <2>1, <2>2, <2>3
<1> QED
  BY <1>1, <1>2, <1>3, <1>4, <1>5 DEF IsResult

-----------------------------------------------------------------------------
(* 4. What the operations of MemVfs make of a tree.                        *)

LEMMA TreeFacts ==
    ASSUME NEW t, IsTree(t)
    PROVE  /\ <<>> \in DOMAIN t /\ t[<<>>] = Dir
           /\ \A p \in DOMAIN t : p \in Path /\ t[p] \in Nodes
           /\ \A p \in DOMAIN t \ {<<>>} : Front(p) \in DOMAIN t /\ t[Front(p)] = Dir
  BY DEF IsTree, WellFormed, Root

LEMMA DirectoryThere ==
    ASSUME NEW t, IsTree(t), NEW p, DirProblem(t, p) = "ok"
    PROVE  p \in DOMAIN t /\ t[p] = Dir
<1>1. NodeAt(t, p).is = "dir"
  BY Zenon DEF DirProblem
<1> QED
  BY <1>1, NodeOrMissing DEF Dir

(* Nothing is below what is not a directory. *)
LEMMA AboveAreDirectories ==
    ASSUME NEW t, IsTree(t), NEW p \in Path, NEW q \in DOMAIN t, IsPrefix(p, q), p # q
    PROVE  p \in DOMAIN t /\ t[p] = Dir
<1> DEFINE S == {n \in Nat : \A r \in DOMAIN t : Len(r) = n /\ IsPrefix(p, r) /\ p # r =>
                                 p \in DOMAIN t /\ t[p] = Dir}
<1>1. 0 \in S
  <2>1. ASSUME NEW r \in DOMAIN t, Len(r) = 0, IsPrefix(p, r) PROVE p = r
    <3>1. r \in Path /\ r = <<>> /\ Len(p) <= 0
      BY <2>1, TreeFacts, PathLength, PrefixOrder
    <3> QED
      BY <2>1, <3>1, PathLength, PrefixOrder
  <2> QED
    BY <2>1
<1>2. ASSUME NEW n \in Nat, n \in S, NEW r \in DOMAIN t, Len(r) = n + 1, IsPrefix(p, r), p # r
      PROVE  p \in DOMAIN t /\ t[p] = Dir
  <2>1. r \in Path /\ r # <<>>
    BY <1>2, TreeFacts, PathLength
  <2>2. Front(r) \in DOMAIN t /\ t[Front(r)] = Dir /\ Front(r) \in Path /\ Len(Front(r)) = n
    BY <1>2, <2>1, TreeFacts, FrontOfPath
  <2>3. IsPrefix(p, Front(r))
    BY <1>2, <2>1, PrefixOfFront
  <2> QED
    BY <1>2, <2>2, <2>3
<1>3. \A n \in Nat : n \in S => n + 1 \in S
  BY <1>2
<1>4. q \in Path /\ Len(q) \in Nat
  BY TreeFacts, PathLength
<1> HIDE DEF S
<1>5. Len(q) \in S
  BY <1>1, <1>3, <1>4, Induction
<1> QED
  BY <1>5 DEF S

LEMMA CutTree ==
    ASSUME NEW t, IsTree(t), NEW p \in Path, p # <<>>
    PROVE  /\ IsTree(Cut(t, p))
           /\ DOMAIN Cut(t, p) = {q \in DOMAIN t : ~IsPrefix(p, q)}
           /\ \A q \in DOMAIN Cut(t, p) : Cut(t, p)[q] = t[q]
<1> DEFINE c == Cut(t, p)
<1>1. DOMAIN c = {q \in DOMAIN t : ~IsPrefix(p, q)} /\ c = [q \in DOMAIN c |-> c[q]]
      /\ \A q \in DOMAIN c : c[q] = t[q]
  BY DEF Cut, Subtree, Restrict
<1> HIDE DEF c
<1>2. <<>> \in DOMAIN c /\ c[<<>>] = Dir
  <2>1. ~IsPrefix(p, <<>>)
    BY PathLength, PrefixOrder, EmptyIsPath
  <2> QED
    BY <1>1, <2>1, TreeFacts
<1>3. ASSUME NEW q \in DOMAIN c, q # <<>> PROVE Front(q) \in DOMAIN c /\ c[Front(q)] = Dir
  <2>1. q \in Path /\ q \in DOMAIN t /\ ~IsPrefix(p, q)
    BY <1>1, TreeFacts
  <2>2. ~IsPrefix(p, Front(q))
    BY <1>3, <2>1, PrefixOfFront
  <2>3. Front(q) \in DOMAIN t /\ t[Front(q)] = Dir
    BY <1>3, <2>1, TreeFacts
  <2> QED
    BY <1>1, <2>2, <2>3
<1>4. IsTree(c)
  BY <1>1, <1>2, <1>3, TreeFacts DEF IsTree, WellFormed, Root
<1> QED
  BY <1>1, <1>4 DEF c

LEMMA PutTree ==
    ASSUME NEW t, IsTree(t), NEW p \in Path, p # <<>>, p \notin DOMAIN t,
           Front(p) \in DOMAIN t, t[Front(p)] = Dir, NEW n \in Nodes
    PROVE  /\ IsTree(Put(t, p, n))
           /\ DOMAIN Put(t, p, n) = DOMAIN t \cup {p} /\ Put(t, p, n)[p] = n
           /\ \A q \in DOMAIN t : Put(t, p, n)[q] = t[q]
<1> DEFINE u == Put(t, p, n)
<1>1. DOMAIN u = DOMAIN t \cup {p} /\ u = [q \in DOMAIN u |-> u[q]] /\ u[p] = n
      /\ \A q \in DOMAIN t : u[q] = t[q]
  BY DEF Put
<1> HIDE DEF u
<1>2. \A q \in DOMAIN t \ {<<>>} : Front(q) \in DOMAIN u /\ u[Front(q)] = Dir
  BY <1>1, TreeFacts
<1>3. IsTree(u)
  BY <1>1, <1>2, TreeFacts DEF IsTree, WellFormed, Root
<1> QED
  BY <1>1, <1>3 DEF u

(* g has the nodes of rest that are not at p or below, and at p the nodes  *)
(* that are in t from from on: each has come from one place.               *)
IsGraft(g, rest, p, t, from) ==
    /\ IsTree(g)
    /\ DOMAIN g = {q \in DOMAIN rest : ~IsPrefix(p, q)}
                      \cup {p \o s : s \in {r \in Path : from \o r \in DOMAIN t}}
    /\ \A q \in DOMAIN g : ~IsPrefix(p, q) => g[q] = rest[q]
    /\ \A s \in Path : from \o s \in DOMAIN t => g[p \o s] = t[from \o s]

LEMMA GraftTree ==
    ASSUME NEW t, IsTree(t), NEW from \in Path, from \in DOMAIN t,
           NEW rest, IsTree(rest), NEW p \in Path, p # <<>>,
           Front(p) \in DOMAIN rest, rest[Front(p)] = Dir,
           NEW g, g = Graft(rest, p, from, Restrict(t, Subtree(t, from)))
    PROVE  IsGraft(g, rest, p, t, from)
<1> DEFINE branch == Restrict(t, Subtree(t, from))
           moved == {p \o Below(from, q) : q \in DOMAIN branch}
           cut == Cut(rest, p)
           tails == {r \in Path : from \o r \in DOMAIN t}
<1>1. DOMAIN branch = {q \in DOMAIN t : IsPrefix(from, q)} /\ \A q \in DOMAIN branch : branch[q] = t[q]
  BY DEF Restrict, Subtree
<1>2. DOMAIN g = moved \cup DOMAIN cut
      /\ g = [q \in DOMAIN g |-> g[q]]
      /\ \A q \in DOMAIN g : g[q] = IF q \in moved THEN branch[from \o Below(p, q)] ELSE cut[q]
  BY DEF Graft
<1>3. /\ IsTree(cut) /\ DOMAIN cut = {q \in DOMAIN rest : ~IsPrefix(p, q)}
      /\ \A q \in DOMAIN cut : cut[q] = rest[q]
  BY CutTree
<1>4. moved = {p \o s : s \in tails}
  <2>1. ASSUME NEW q \in DOMAIN branch PROVE p \o Below(from, q) \in {p \o s : s \in tails}
    <3>1. q \in DOMAIN t /\ q \in Path /\ IsPrefix(from, q)
      BY <1>1, TreeFacts
    <3>2. Below(from, q) \in Path /\ from \o Below(from, q) = q
      BY <3>1, JoinedBelow
    <3> QED
      BY <3>1, <3>2
  <2>2. ASSUME NEW s \in tails PROVE p \o s \in moved
    <3>1. from \o s \in DOMAIN branch /\ Below(from, from \o s) = s
      BY <1>1, BelowOfJoined
    <3> HIDE DEF branch
    <3> QED
      BY <3>1
  <2> HIDE DEF branch, tails
  <2>3. \A x \in moved : x \in {p \o s : s \in tails}
    BY <2>1
  <2> HIDE DEF moved
  <2>4. \A x \in {p \o s : s \in tails} : x \in moved
    BY <2>2
  <2> QED
    BY <2>3, <2>4
<1> HIDE DEF branch, moved, cut
<1>5. ASSUME NEW s \in tails
      PROVE  p \o s \in moved /\ p \o s \in DOMAIN g /\ g[p \o s] = t[from \o s]
             /\ p \o s \in Path /\ IsPrefix(p, p \o s)
  <2>1. p \o s \in moved
    BY <1>4
  <2>2. Below(p, p \o s) = s /\ IsPrefix(p, p \o s) /\ p \o s \in Path
    BY BelowOfJoined, Joined
  <2>3. IsPrefix(from, from \o s) /\ from \o s \in DOMAIN t
    BY BelowOfJoined
  <2> QED
    BY <1>1, <1>2, <2>1, <2>2, <2>3
<1>6. \A q \in moved : IsPrefix(p, q)
  BY <1>4, <1>5
<1>7. ASSUME NEW q \in DOMAIN g, ~IsPrefix(p, q) PROVE q \in DOMAIN cut /\ g[q] = rest[q]
  BY <1>2, <1>3, <1>6, <1>7
<1>8. \A q \in DOMAIN cut : q \in DOMAIN g /\ g[q] = rest[q]
  BY <1>2, <1>3, <1>7
<1>9. <<>> \in DOMAIN g /\ g[<<>>] = Dir
  BY <1>3, <1>8, TreeFacts
<1>10. Front(p) \in DOMAIN g /\ g[Front(p)] = Dir
  <2>1. Front(p) \in Path /\ Len(Front(p)) = Len(p) - 1 /\ Len(p) \in Nat
    BY FrontOfPath, PathLength
  <2>2. ~IsPrefix(p, Front(p))
    BY <2>1, PrefixOrder
  <2> QED
    BY <1>3, <1>8, <2>2
<1>11. ASSUME NEW q \in DOMAIN g, q # <<>> PROVE Front(q) \in DOMAIN g /\ g[Front(q)] = Dir
  <2>1. CASE q \in DOMAIN cut
    BY <1>3, <1>8, <1>11, <2>1, TreeFacts
  <2>2. CASE q \in moved
    <3>1. PICK s \in tails : q = p \o s
      BY <1>4, <2>2
    <3>2. CASE s = <<>>
      BY <1>10, <3>1, <3>2, PathLength
    <3>3. CASE s # <<>>
      <4>1. Front(q) = p \o Front(s) /\ Front(s) \in Path
        BY <3>1, <3>3, FrontOfJoined, FrontOfPath
      <4>2. from \o s \in DOMAIN t /\ from \o s # <<>> /\ Front(from \o s) = from \o Front(s)
        BY <3>3, FrontOfJoined
      <4>3. from \o Front(s) \in DOMAIN t /\ t[from \o Front(s)] = Dir
        <5> DEFINE w == from \o s
        <5>1. w \in DOMAIN t /\ w # <<>>
          BY <4>2
        <5> HIDE DEF w
        <5>2. Front(w) \in DOMAIN t /\ t[Front(w)] = Dir
          BY <5>1, TreeFacts
        <5> QED
          BY <4>2, <5>2 DEF w
      <4>4. Front(s) \in tails
        BY <4>1, <4>3
      <4> QED
        BY <1>5, <4>1, <4>3, <4>4
    <3> QED
      BY <3>2, <3>3
  <2> QED
    BY <1>2, <2>1, <2>2
<1>12. \A q \in DOMAIN g : q \in Path /\ g[q] \in Nodes
  <2>1. \A q \in DOMAIN cut : q \in Path /\ g[q] \in Nodes
    BY <1>3, <1>8, TreeFacts
  <2>2. \A s \in tails : p \o s \in Path /\ g[p \o s] \in Nodes
    BY <1>5, TreeFacts
  <2> HIDE DEF tails
  <2>3. \A q \in moved : q \in Path /\ g[q] \in Nodes
    BY <1>4, <2>2
  <2> QED
    BY <1>2, <2>1, <2>3
<1>13. IsTree(g)
  BY <1>2, <1>9, <1>11, <1>12 DEF IsTree, WellFormed, Root
<1>14. DOMAIN g = {q \in DOMAIN rest : ~IsPrefix(p, q)} \cup {p \o s : s \in tails}
  BY <1>2, <1>3, <1>4
<1>15. \A s \in Path : from \o s \in DOMAIN t => g[p \o s] = t[from \o s]
  BY <1>5
<1> QED
  BY <1>7, <1>13, <1>14, <1>15 DEF IsGraft

LEMMA MakeAnswer ==
    ASSUME NEW t, IsTree(t), NEW p \in Path, NEW n, NEW a, a = VfsMake(t, p, n)
    PROVE  /\ a.e # "ok" => a.tree = t
           /\ a.e = "ok" => /\ p # <<>> /\ p \notin DOMAIN t
                            /\ Front(p) \in DOMAIN t /\ t[Front(p)] = Dir
                            /\ a.tree = Put(t, p, n)
<1>1. CASE NodeAt(t, p) # Missing
  BY <1>1 DEF VfsMake, Answer
<1>2. CASE NodeAt(t, p) = Missing /\ DirProblem(t, Front(p)) # "ok"
  BY <1>2 DEF VfsMake, Answer
<1>3. CASE NodeAt(t, p) = Missing /\ DirProblem(t, Front(p)) = "ok"
  <2>1. p \notin DOMAIN t /\ p # <<>>
    BY <1>3, NodeOrMissing, TreeFacts
  <2>2. Front(p) \in DOMAIN t /\ t[Front(p)] = Dir
    BY <1>3, DirectoryThere
  <2>3. a = [e |-> "ok", tree |-> Put(t, p, n)]
    BY <1>3 DEF VfsMake, Done, Answer
  <2> QED
    BY <2>1, <2>2, <2>3
<1> QED
  BY <1>1, <1>2, <1>3

LEMMA RemoveAnswer ==
    ASSUME NEW t, IsTree(t), NEW p \in Path, NEW isDir \in BOOLEAN,
           NEW a, a = VfsRemove(t, p, isDir)
    PROVE  /\ a.e # "ok" => a.tree = t
           /\ a.e = "ok" => /\ p # <<>> /\ p \in DOMAIN t /\ a.tree = Cut(t, p)
                            /\ \A q \in DOMAIN t : IsPrefix(p, q) => q = p
<1> DEFINE n == IF p = <<>> THEN Missing ELSE NodeAt(t, p)
           above == IF p = <<>> THEN "ok" ELSE DirProblem(t, Front(p))
           problem == CASE above # "ok" -> above
                        [] above = "ok" /\ n = Missing -> "NOENT"
                        [] n = Dir /\ ~isDir -> "ISDIR"
                        [] n = Dir /\ isDir /\ Subtree(t, p) # {p} -> "NOTEMPTY"
                        [] n \notin {Missing, Dir} /\ isDir -> "NOTDIR"
                        [] OTHER -> "ok"
<1>1. a = IF problem # "ok" THEN Answer(problem, t) ELSE Done(Cut(t, p))
  BY DEF VfsRemove
<1>2. above # "ok" => problem # "ok"
  BY Zenon
<1>3. above = "ok" /\ n = Missing => problem # "ok"
  <2>1. above = "ok" /\ n = Missing => n # Dir
    BY DEF Missing, Dir
  <2> HIDE DEF n, above
  <2> QED
    BY <2>1
<1>4. n = Dir /\ ~isDir => problem # "ok"
  <2> HIDE DEF n, above
  <2>1. n = Dir /\ ~isDir /\ above = "ok" => n # Missing
    BY DEF Missing, Dir
  <2> QED
    BY <2>1, <1>2
<1>5. n = Dir /\ isDir /\ Subtree(t, p) # {p} => problem # "ok"
  <2> HIDE DEF n, above
  <2>1. n = Dir => n # Missing
    BY DEF Missing, Dir
  <2> QED
    BY <2>1, <1>2
<1> HIDE DEF problem
<1>6. CASE problem # "ok"
  BY <1>1, <1>6 DEF Answer
<1>7. CASE problem = "ok"
  <2>1. n # Missing /\ (n = Dir => Subtree(t, p) = {p})
    BY <1>2, <1>3, <1>4, <1>5, <1>7
  <2>2. p # <<>> /\ n = NodeAt(t, p)
    BY <2>1
  <2> HIDE DEF n, above
  <2>3. p \in DOMAIN t /\ n = t[p]
    BY <2>1, <2>2, NodeOrMissing DEF NodeAt
  <2>4. ASSUME NEW q \in DOMAIN t, IsPrefix(p, q) PROVE q = p
    <3>1. CASE n = Dir
      BY <2>1, <2>4, <3>1 DEF Subtree
    <3>2. CASE n # Dir
      BY <2>3, <2>4, <3>2, AboveAreDirectories
    <3> QED
      BY <3>1, <3>2
  <2>5. a.e = "ok" /\ a.tree = Cut(t, p)
    BY <1>1, <1>7 DEF Done, Answer
  <2> QED
    BY <2>2, <2>3, <2>4, <2>5
<1> QED
  BY <1>6, <1>7

(* What rename has taken out and found no place for is back where it was. *)
LEMMA PutBack ==
    ASSUME NEW t, IsTree(t), NEW from \in Path, from # <<>>, from \in DOMAIN t
    PROVE  Graft(Cut(t, from), from, from, Restrict(t, Subtree(t, from))) = t
<1> DEFINE rest == Cut(t, from)
           g == Graft(rest, from, from, Restrict(t, Subtree(t, from)))
<1>1. IsTree(rest) /\ DOMAIN rest = {q \in DOMAIN t : ~IsPrefix(from, q)}
      /\ \A q \in DOMAIN rest : rest[q] = t[q]
  BY CutTree
<1> HIDE DEF rest
<1>2. Front(from) \in DOMAIN rest /\ rest[Front(from)] = Dir
  <2>1. Front(from) \in DOMAIN t /\ t[Front(from)] = Dir
    BY TreeFacts
  <2>2. ~IsPrefix(from, Front(from))
    BY FrontOfPath, PathLength, PrefixOrder
  <2> QED
    BY <1>1, <2>1, <2>2
<1>3. /\ IsTree(g)
      /\ DOMAIN g = {q \in DOMAIN rest : ~IsPrefix(from, q)}
                        \cup {from \o s : s \in {r \in Path : from \o r \in DOMAIN t}}
      /\ \A q \in DOMAIN g : ~IsPrefix(from, q) => g[q] = rest[q]
      /\ \A s \in Path : from \o s \in DOMAIN t => g[from \o s] = t[from \o s]
  <2>1. g = Graft(rest, from, from, Restrict(t, Subtree(t, from)))
    OBVIOUS
  <2> HIDE DEF g
  <2>2. IsGraft(g, rest, from, t, from)
    BY <1>1, <1>2, <2>1, GraftTree
  <2> QED
    BY <2>2 DEF IsGraft
<1> HIDE DEF g
<1>4. ASSUME NEW q \in DOMAIN t PROVE q \in DOMAIN g /\ g[q] = t[q]
  <2>1. CASE IsPrefix(from, q)
    <3>1. PICK s \in Path : q = from \o s
      BY <2>1, TreeFacts, PrefixIffJoined
    <3> QED
      BY <1>3, <3>1
  <2>2. CASE ~IsPrefix(from, q)
    BY <1>1, <1>3, <2>2
  <2> QED
    BY <2>1, <2>2
<1>5. DOMAIN g \subseteq DOMAIN t
  BY <1>1, <1>3
<1>6. DOMAIN g = DOMAIN t
  BY <1>4, <1>5
<1>7. g = [q \in DOMAIN t |-> t[q]]
  <2>1. g = [q \in DOMAIN g |-> g[q]]
    BY <1>3 DEF IsTree
  <2> QED
    BY <1>4, <1>6, <2>1
<1>8. t = [q \in DOMAIN t |-> t[q]]
  BY DEF IsTree
<1> QED
  BY <1>7, <1>8 DEF g, rest

LEMMA RenameAnswer ==
    ASSUME NEW t, IsTree(t), NEW from \in Path, NEW to \in Path,
           NEW a, a = VfsRename(t, from, to)
    PROVE  /\ a.e # "ok" => a.tree = t
           /\ a.e = "ok" =>
                 /\ from # <<>> /\ from \in DOMAIN t /\ to # <<>>
                 /\ Front(to) \in DOMAIN Cut(t, from) /\ Cut(t, from)[Front(to)] = Dir
                 /\ a.tree = Graft(Cut(t, from), to, from, Restrict(t, Subtree(t, from)))
<1> DEFINE rest == Cut(t, from)
           branch == Restrict(t, Subtree(t, from))
           refused == \/ from = <<>> \/ to = <<>>
                      \/ DirProblem(t, Front(from)) # "ok"
                      \/ NodeAt(t, from) = Missing
<1>1. CASE refused
  <2>1. from = <<>> \/ to = <<>> => a = Answer("INVAL", t)
    BY DEF VfsRename
  <2>2. ~(from = <<>> \/ to = <<>>) /\ DirProblem(t, Front(from)) # "ok" =>
            a = Answer(DirProblem(t, Front(from)), t)
    BY DEF VfsRename
  <2>3. ~(from = <<>> \/ to = <<>>) /\ ~(DirProblem(t, Front(from)) # "ok")
            /\ NodeAt(t, from) = Missing => a = Answer("NOENT", t)
    BY DEF VfsRename
  <2>4. \E e : e # "ok" /\ a = Answer(e, t)
    BY <1>1, <2>1, <2>2, <2>3
  <2> QED
    BY <2>4 DEF Answer
<1>2. CASE ~refused
  <2>1. from # <<>> /\ to # <<>> /\ from \in DOMAIN t
    BY <1>2, NodeOrMissing
  <2>2. a = IF DirProblem(rest, Front(to)) = "ok" THEN Done(Graft(rest, to, from, branch))
            ELSE Answer(DirProblem(rest, Front(to)), Graft(rest, from, from, branch))
    BY <1>2 DEF VfsRename
  <2>3. Graft(rest, from, from, branch) = t
    BY <2>1, PutBack
  <2>4. IsTree(rest)
    BY <2>1, CutTree
  <2> HIDE DEF rest, branch
  <2>5. CASE DirProblem(rest, Front(to)) = "ok"
    <3>1. Front(to) \in DOMAIN rest /\ rest[Front(to)] = Dir
      BY <2>4, <2>5, DirectoryThere
    <3>2. a.e = "ok" /\ a.tree = Graft(rest, to, from, branch)
      BY <2>2, <2>5 DEF Done, Answer
    <3> QED
      BY <2>1, <3>1, <3>2 DEF rest, branch
  <2>6. CASE DirProblem(rest, Front(to)) # "ok"
    BY <2>2, <2>3, <2>6 DEF Answer
  <2> QED
    BY <2>5, <2>6
<1> QED
  BY <1>1, <1>2

-----------------------------------------------------------------------------
(* 5. The steps of the calls.                                              *)

(* A file an open descriptor holds has its name, if it has one, on the     *)
(* mount it was opened on.                                                 *)
OnTheirMounts ==
    \A f \in Fd : fds[f].is = "file" =>
        \A m \in MountPoints : \A p \in DOMAIN tree[m] :
            tree[m][p] = File(fds[f].id) => m = fds[f].mount

IInv == StateOK /\ NamedOnce(tree) /\ OnTheirMounts

(* Where a call may change things: on a mount that is not read-only, at    *)
(* what a path resolved to.                                                *)
Writable(n) == IsResult(n) /\ n.is = "mounted" /\ n.mount \notin ReadOnly

(* What a step is for the files, whichever call it is: nothing, ...        *)
MakeStep == \E n : \E node \in Nodes :
    /\ Writable(n) /\ node.is # "file"
    /\ n.rel # <<>> /\ n.rel \notin DOMAIN tree[n.mount]
    /\ Front(n.rel) \in DOMAIN tree[n.mount] /\ tree[n.mount][Front(n.rel)] = Dir
    /\ tree' = [tree EXCEPT ![n.mount] = Put(tree[n.mount], n.rel, node)]
    /\ last' \in {"mkdirat", "symlinkat"} /\ UNCHANGED <<len, fds, cwd, exe>>
RemoveStep == \E n :
    /\ Writable(n) /\ n.rel # <<>> /\ n.rel \in DOMAIN tree[n.mount]
    /\ \A q \in DOMAIN tree[n.mount] : IsPrefix(n.rel, q) => q = n.rel
    /\ tree' = [tree EXCEPT ![n.mount] = Cut(tree[n.mount], n.rel)]
    /\ last' = "unlinkat" /\ UNCHANGED <<len, fds, cwd, exe>>
Moved(t, from, to) == Graft(Cut(t, from), to, from, Restrict(t, Subtree(t, from)))
RenameStep == \E n, k :
    /\ Writable(n) /\ Writable(k) /\ k.mount = n.mount
    /\ n.rel # <<>> /\ n.rel \in DOMAIN tree[n.mount] /\ k.rel # <<>>
    /\ Front(k.rel) \in DOMAIN Cut(tree[n.mount], n.rel)
    /\ Cut(tree[n.mount], n.rel)[Front(k.rel)] = Dir
    /\ tree' = [tree EXCEPT ![n.mount] = Moved(tree[n.mount], n.rel, k.rel)]
    /\ last' = "renameat" /\ UNCHANGED <<len, fds, cwd, exe>>

Opens(d) == \/ last' = "MFILE" /\ UNCHANGED fds
            \/ last' = "openat" /\ \E f \in Fd : fds' = [fds EXCEPT ![f] = d]
OpenStep == \E d \in Descriptions :
    /\ Opens(d) /\ UNCHANGED <<tree, cwd, exe>>
    /\ \/ d.is # "file" /\ UNCHANGED len
       \/ /\ d.is = "file"
          /\ \E p \in DOMAIN tree[d.mount] : tree[d.mount][p] = File(d.id)
          /\ UNCHANGED len \/ (d.mount \notin ReadOnly /\ len' = [len EXCEPT ![d.id] = 0])
CreateStep == \E n : \E d \in FileHandles :
    /\ Writable(n) /\ d.mount = n.mount /\ d.id \in FreeIds
    /\ n.rel # <<>> /\ n.rel \notin DOMAIN tree[n.mount]
    /\ Front(n.rel) \in DOMAIN tree[n.mount] /\ tree[n.mount][Front(n.rel)] = Dir
    /\ tree' = [tree EXCEPT ![n.mount] = Put(tree[n.mount], n.rel, File(d.id))]
    /\ len' = [len EXCEPT ![d.id] = 0]
    /\ Opens(d) /\ UNCHANGED <<cwd, exe>>
HandleStep == \E f \in Fd :
    /\ fds[f].is = "file"
    /\ UNCHANGED fds \/ \E pos \in 0 .. MaxLen : fds' = [fds EXCEPT ![f].pos = pos]
    /\ \/ UNCHANGED len
       \/ /\ fds[f].mount \notin ReadOnly
          /\ \E k \in 0 .. MaxLen : len' = [len EXCEPT ![fds[f].id] = k]
    /\ last' \in {"read", "write", "lseek", "ftruncate"} /\ UNCHANGED <<tree, cwd, exe>>
TruncateStep == \E m \in MountPoints \ ReadOnly : \E p \in DOMAIN tree[m] : \E k \in 0 .. MaxLen :
    /\ tree[m][p].is = "file" /\ len' = [len EXCEPT ![tree[m][p].id] = k]
    /\ last' = "truncate" /\ UNCHANGED <<tree, fds, cwd, exe>>
ProcessStep ==
    /\ \/ (\E f \in Fd : fds' = [fds EXCEPT ![f] = Closed]) /\ UNCHANGED <<cwd, exe>>
       \/ cwd' \in Homes /\ UNCHANGED <<fds, exe>>
       \/ exe' \in Programs /\ UNCHANGED <<fds, cwd>>
    /\ last' \in {"close", "chdir", "execve"} /\ UNCHANGED <<tree, len>>

AnyStep == \/ Same \/ MakeStep \/ RemoveStep \/ RenameStep \/ OpenStep \/ CreateStep
           \/ HandleStep \/ TruncateStep \/ ProcessStep

LEMMA TreeOfResult ==
    ASSUME StateOK, NEW n, IsResult(n), n.is = "mounted"
    PROVE  /\ n.mount \in MountPoints /\ IsTree(tree[n.mount]) /\ n.rel \in Path
           /\ [tree EXCEPT ![n.mount] = tree[n.mount]] = tree
<1>1. n.mount \in MountPoints /\ n.rel \in Path
  BY ResultFields
<1>2. tree = [m \in MountPoints |-> tree[m]] /\ IsTree(tree[n.mount])
  BY <1>1 DEF StateOK
<1>3. [tree EXCEPT ![n.mount] = tree[n.mount]] = tree
  BY <1>1, <1>2
<1> QED
  BY <1>1, <1>2, <1>3

LEMMA MakesNode ==
    ASSUME StateOK, NEW n, Writable(n), NEW node \in Nodes, node.is # "file",
           NEW call \in {"mkdirat", "symlinkat"},
           Changes(call, n.mount, VfsMake(tree[n.mount], n.rel, node))
    PROVE  Same \/ MakeStep
<1> DEFINE t == tree[n.mount]
           a == VfsMake(t, n.rel, node)
<1>1. n.mount \in MountPoints /\ IsTree(t) /\ n.rel \in Path /\ [tree EXCEPT ![n.mount] = t] = tree
  BY TreeOfResult DEF Writable
<1>2. /\ a.e # "ok" => a.tree = t
      /\ a.e = "ok" => /\ n.rel # <<>> /\ n.rel \notin DOMAIN t
                       /\ Front(n.rel) \in DOMAIN t /\ t[Front(n.rel)] = Dir
                       /\ a.tree = Put(t, n.rel, node)
  BY <1>1, MakeAnswer
<1>3. /\ tree' = [tree EXCEPT ![n.mount] = a.tree]
      /\ last' = IF a.e = "ok" THEN call ELSE a.e
      /\ UNCHANGED <<len, fds, cwd, exe>>
  BY DEF Changes
<1> HIDE DEF a
<1>4. CASE a.e # "ok"
  BY <1>1, <1>2, <1>3, <1>4 DEF Same
<1>5. CASE a.e = "ok"
  BY <1>2, <1>3, <1>5 DEF MakeStep
<1> QED
  BY <1>4, <1>5

LEMMA MkdiratStep ==
    ASSUME StateOK, NEW path \in Paths, NEW at \in Bases(path), Mkdirat(at, path)
    PROVE  Same \/ MakeStep
<1> DEFINE n == Look(at, path, TRUE)
<1>1. IsResult(n)
  BY LookIsResult
<1>2. \/ Same
      \/ /\ n.is = "mounted" /\ n.mount \notin ReadOnly
         /\ Changes("mkdirat", n.mount, VfsMake(tree[n.mount], n.rel, Dir))
  BY DEF Mkdirat, Refuse
<1> HIDE DEF n
<1>3. Dir \in Nodes /\ Dir.is # "file"
  BY DEF Nodes, Dir
<1> QED
  BY <1>1, <1>2, <1>3, MakesNode DEF Writable

LEMMA SymlinkatStep ==
    ASSUME StateOK, NEW path \in Paths, NEW at \in Bases(path), Symlinkat(at, path)
    PROVE  Same \/ MakeStep
<1> DEFINE n == Look(at, path, FALSE)
<1>1. IsResult(n)
  BY LookIsResult
<1>2. \/ Same
      \/ /\ n.is = "mounted" /\ n.mount \notin ReadOnly
         /\ \E target \in Targets :
                Changes("symlinkat", n.mount, VfsMake(tree[n.mount], n.rel, Link(target)))
  BY DEF Symlinkat, Refuse
<1> HIDE DEF n
<1>3. \A target \in Targets : Link(target) \in Nodes /\ Link(target).is # "file"
  BY DEF Nodes, Link
<1> QED
  BY <1>1, <1>2, <1>3, MakesNode DEF Writable

LEMMA UnlinkatStep ==
    ASSUME StateOK, NEW path \in Paths, NEW at \in Bases(path), Unlinkat(at, path)
    PROVE  Same \/ RemoveStep
<1> DEFINE n == Look(at, path, FALSE)
<1>1. IsResult(n)
  BY LookIsResult
<1>2. \/ Same
      \/ /\ n.is = "mounted" /\ n.mount \notin ReadOnly
         /\ \E isDir \in BOOLEAN :
                Changes("unlinkat", n.mount, VfsRemove(tree[n.mount], n.rel, isDir))
  BY DEF Unlinkat, Refuse
<1> HIDE DEF n
<1>3. CASE ~Same
  <2> DEFINE t == tree[n.mount]
  <2>1. PICK isDir \in BOOLEAN : Changes("unlinkat", n.mount, VfsRemove(t, n.rel, isDir))
    BY <1>2, <1>3
  <2> DEFINE a == VfsRemove(t, n.rel, isDir)
  <2>2. Writable(n)
    BY <1>1, <1>2, <1>3 DEF Writable
  <2>3. n.mount \in MountPoints /\ IsTree(t) /\ n.rel \in Path /\ [tree EXCEPT ![n.mount] = t] = tree
    BY <2>2, TreeOfResult DEF Writable
  <2>4. /\ a.e # "ok" => a.tree = t
        /\ a.e = "ok" => /\ n.rel # <<>> /\ n.rel \in DOMAIN t /\ a.tree = Cut(t, n.rel)
                         /\ \A q \in DOMAIN t : IsPrefix(n.rel, q) => q = n.rel
    BY <2>3, RemoveAnswer
  <2>5. /\ tree' = [tree EXCEPT ![n.mount] = a.tree]
        /\ last' = IF a.e = "ok" THEN "unlinkat" ELSE a.e
        /\ UNCHANGED <<len, fds, cwd, exe>>
    BY <2>1 DEF Changes
  <2> HIDE DEF a
  <2>6. a.e = "ok"
    BY <1>3, <2>3, <2>4, <2>5 DEF Same
  <2> QED
    BY <2>2, <2>4, <2>5, <2>6 DEF RemoveStep
<1> QED
  BY <1>3

LEMMA RenameatStep ==
    ASSUME StateOK, NEW path \in Paths, NEW at \in Bases(path), Renameat(at, path)
    PROVE  Same \/ RenameStep
<1> DEFINE n == Look(at, path, FALSE)
<1>1. IsResult(n)
  BY LookIsResult
<1>2. CASE ~Same
  <2>1. PICK path2 \in Paths : \E at2 \in Bases(path2) : \E k \in {Look(at2, path2, FALSE)} :
            /\ "mounted" \in {n.is} \cap {k.is} /\ n.mount = k.mount /\ n.mount \notin ReadOnly
            /\ Changes("renameat", n.mount, VfsRename(tree[n.mount], n.rel, k.rel))
    BY <1>2 DEF Renameat, Refuse
  <2>2. PICK at2 \in Bases(path2) : \E k \in {Look(at2, path2, FALSE)} :
            /\ "mounted" \in {n.is} \cap {k.is} /\ n.mount = k.mount /\ n.mount \notin ReadOnly
            /\ Changes("renameat", n.mount, VfsRename(tree[n.mount], n.rel, k.rel))
    BY <2>1
  <2> DEFINE k == Look(at2, path2, FALSE)
  <2>3. IsResult(k)
    BY LookIsResult
  <2>4. /\ n.is = "mounted" /\ k.is = "mounted" /\ n.mount = k.mount /\ n.mount \notin ReadOnly
        /\ Changes("renameat", n.mount, VfsRename(tree[n.mount], n.rel, k.rel))
    BY <2>2
  <2> HIDE DEF k, n
  <2>5. Writable(n) /\ Writable(k)
    BY <1>1, <2>3, <2>4 DEF Writable
  <2> DEFINE t == tree[n.mount]
             a == VfsRename(t, n.rel, k.rel)
  <2>6. n.mount \in MountPoints /\ IsTree(t) /\ n.rel \in Path /\ k.rel \in Path
        /\ [tree EXCEPT ![n.mount] = t] = tree
    BY <2>5, TreeOfResult DEF Writable
  <2>7. /\ a.e # "ok" => a.tree = t
        /\ a.e = "ok" =>
              /\ n.rel # <<>> /\ n.rel \in DOMAIN t /\ k.rel # <<>>
              /\ Front(k.rel) \in DOMAIN Cut(t, n.rel) /\ Cut(t, n.rel)[Front(k.rel)] = Dir
              /\ a.tree = Moved(t, n.rel, k.rel)
    BY <2>6, RenameAnswer DEF Moved
  <2>8. /\ tree' = [tree EXCEPT ![n.mount] = a.tree]
        /\ last' = IF a.e = "ok" THEN "renameat" ELSE a.e
        /\ UNCHANGED <<len, fds, cwd, exe>>
    BY <2>4 DEF Changes
  <2> HIDE DEF a
  <2>9. a.e = "ok"
    BY <1>2, <2>6, <2>7, <2>8 DEF Same
  <2> QED
    BY <2>4, <2>5, <2>7, <2>8, <2>9 DEF RenameStep
<1> QED
  BY <1>2

LEMMA InstallOpens ==
    ASSUME NEW d, Install(d)
    PROVE  Opens(d)
<1> DEFINE free == {f \in Fd : fds[f] = Closed}
<1>1. CASE free = {}
  BY <1>1 DEF Install, Opens
<1>2. CASE free # {}
  <2>1. free \subseteq Nat
    BY Constants DEF Fd
  <2>2. Min(free) \in Fd
    BY <1>2, <2>1, MinOfNumbers
  <2>3. last' = "openat" /\ fds' = [fds EXCEPT ![Min(free)] = d]
    BY <1>2 DEF Install, Answered
  <2> QED
    BY <2>2, <2>3 DEF Opens
<1> QED
  BY <1>1, <1>2

LEMMA HandleFields ==
    ASSUME NEW id \in FileIds, NEW m \in MountPoints, NEW at \in 0 .. MaxLen, NEW flags
    PROVE  /\ Handle(id, m, at, flags) \in FileHandles
           /\ Handle(id, m, at, flags).id = id /\ Handle(id, m, at, flags).mount = m
           /\ Handle(id, m, at, flags).is = "file"
  BY DEF Handle, FileHandles

(* What openat may do to a mount it was not refused by. *)
LEMMA OpenAllows ==
    ASSUME NEW n, n.is = "mounted", NEW flags, OpenProblem(n, flags) = "ok",
           IsTree(tree[n.mount])
    PROVE  LET t == tree[n.mount]
               node == NodeAt(t, n.rel)
           IN  /\ WantsWrite(flags) => n.mount \notin ReadOnly
               /\ node.is # "dir" => \/ node.is = "file"
                                     \/ /\ n.rel \notin DOMAIN t /\ "creat" \in flags
                                        /\ Front(n.rel) \in DOMAIN t /\ t[Front(n.rel)] = Dir
<1> DEFINE t == tree[n.mount]
           node == NodeAt(t, n.rel)
           found == Stat(t, n.rel, TRUE).is
           asked == IF WantsWrite(flags) /\ n.mount \in ReadOnly THEN "ROFS"
                    ELSE IF "directory" \in flags /\ found \notin {"dir", "missing"} THEN "NOTDIR"
                    ELSE IF found = "dir" /\ WantsWrite(flags) THEN "ISDIR"
                    ELSE IF found = "dir"
                    THEN IF NodeAt(t, n.rel) # Dir THEN "NOTDIR" ELSE "ok"
                    ELSE VfsOpen(t, n.rel, flags)
<1>1. OpenProblem(n, flags) = asked
  <2>1. OpenProblem(n, flags) =
            CASE n.is = "error" -> n.e
              [] n.is \in {"program", "synth"} -> IF WantsWrite(flags) THEN "ROFS" ELSE "ok"
              [] n.is = "device" -> "ok"
              [] n.is = "kernel dir" -> IF WantsWrite(flags) THEN "ISDIR" ELSE "ok"
              [] n.is = "kernel link" -> "LOOP"
              [] n.is = "mounted" -> asked
    BY DEF OpenProblem
  <2> HIDE DEF asked
  <2> QED
    BY <2>1
<1>2. asked = "ok"
  BY <1>1
<1> HIDE DEF found, t
<1>3. WantsWrite(flags) => n.mount \notin ReadOnly
  <2>1. WantsWrite(flags) /\ n.mount \in ReadOnly => asked # "ok"
    OBVIOUS
  <2> QED
    BY <1>2, <2>1
<1>4. ASSUME node.is # "dir"
      PROVE  \/ node.is = "file"
             \/ /\ n.rel \notin DOMAIN t /\ "creat" \in flags
                /\ Front(n.rel) \in DOMAIN t /\ t[Front(n.rel)] = Dir
  <2>1. IsTree(t)
    BY DEF t
  <2>2. NodeAt(t, n.rel) # Dir
    BY <1>4 DEF Dir
  <2>3. VfsOpen(t, n.rel, flags) = "ok"
    BY <1>2, <2>2
  <2>4. CASE node.is = "missing"
    <3>1. n.rel \notin DOMAIN t
      BY <2>1, <2>4, NodeOrMissing
    <3>2. VfsOpen(t, n.rel, flags) = IF "creat" \notin flags THEN "NOENT" ELSE DirProblem(t, Front(n.rel))
      BY <2>4 DEF VfsOpen
    <3>3. "creat" \in flags /\ DirProblem(t, Front(n.rel)) = "ok"
      BY <2>3, <3>2
    <3> QED
      BY <2>1, <3>1, <3>3, DirectoryThere
  <2>5. CASE node.is = "link"
    BY <2>3, <2>5 DEF VfsOpen
  <2>6. node.is \in {"dir", "file", "link", "missing"}
    <3>1. node \in Nodes \cup {Missing}
      BY <2>1, NodeOrMissing
    <3>2. Missing.is = "missing"
      BY DEF Missing
    <3> HIDE DEF node
    <3> QED
      BY <3>1, <3>2, NodesApart
  <2> QED
    BY <1>4, <2>4, <2>5, <2>6
<1> QED
  BY <1>3, <1>4 DEF t

LEMMA OpenatStep ==
    ASSUME StateOK, NEW path \in Paths, NEW at \in Bases(path), NEW flags, Openat(at, path, flags)
    PROVE  Same \/ OpenStep \/ CreateStep
<1> DEFINE n == Look(at, path, "nofollow" \notin flags)
           t == tree[n.mount]
           node == NodeAt(t, n.rel)
           dir == [is |-> "dir", path |-> n.guest]
           other == [is |-> "other"]
<1>1. IsResult(n)
  <2>1. ("nofollow" \notin flags) \in BOOLEAN
    OBVIOUS
  <2> DEFINE follow == "nofollow" \notin flags
  <2>2. follow \in BOOLEAN
    BY <2>1
  <2> HIDE DEF follow
  <2>3. IsResult(Look(at, path, follow))
    BY <2>2, LookIsResult
  <2> QED
    BY <2>3 DEF follow
<1>2. IF OpenProblem(n, flags) # "ok" THEN Refuse(OpenProblem(n, flags))
      ELSE IF n.is # "mounted"
      THEN Install(IF n.is = "kernel dir" THEN dir ELSE other) /\ UNCHANGED <<tree, len, cwd, exe>>
      ELSE IF node.is = "dir" THEN Install(dir) /\ UNCHANGED <<tree, len, cwd, exe>>
      ELSE IF node.is = "file"
      THEN /\ len' = IF {"trunc", "write"} \subseteq flags THEN [len EXCEPT ![node.id] = 0] ELSE len
           /\ Install(Handle(node.id, n.mount, IF "append" \in flags THEN len'[node.id] ELSE 0, flags))
           /\ UNCHANGED <<tree, cwd, exe>>
      ELSE /\ FreeIds # {}
           /\ tree' = [tree EXCEPT ![n.mount] = Put(t, n.rel, File(Min(FreeIds)))]
           /\ len' = [len EXCEPT ![Min(FreeIds)] = 0]
           /\ Install(Handle(Min(FreeIds), n.mount, 0, flags))
           /\ UNCHANGED <<cwd, exe>>
  BY ZenonT(60) DEF Openat
<1> HIDE DEF n
<1>3. n.is = "mounted" => n.mount \in MountPoints /\ n.rel \in Path /\ n.guest \in Path /\ IsTree(t)
  BY <1>1, TreeOfResult, ResultFields
<1>4. n.is = "kernel dir" => n.guest \in Path
  BY <1>1, ResultFields
<1>5. other \in Descriptions /\ other.is # "file"
      /\ (n.guest \in Path => dir \in Descriptions /\ dir.is # "file")
  BY DEF Descriptions
<1>6. ASSUME NEW d \in Descriptions, d.is # "file", Install(d), UNCHANGED <<tree, len, cwd, exe>>
      PROVE  OpenStep
  BY <1>6, InstallOpens DEF OpenStep
<1>7. CASE OpenProblem(n, flags) # "ok"
  BY <1>2, <1>7 DEF Refuse
<1>8. CASE OpenProblem(n, flags) = "ok" /\ n.is # "mounted"
  <2> HIDE DEF dir, other
  <2> QED
    BY <1>2, <1>4, <1>5, <1>6, <1>8
<1>9. CASE OpenProblem(n, flags) = "ok" /\ n.is = "mounted" /\ node.is = "dir"
  <2> HIDE DEF dir, other
  <2> QED
    BY <1>2, <1>3, <1>5, <1>6, <1>9
<1>10. CASE OpenProblem(n, flags) = "ok" /\ n.is = "mounted" /\ node.is = "file"
  <2>1. IsTree(t) /\ n.mount \in MountPoints
    BY <1>3, <1>10
  <2>2. n.rel \in DOMAIN t /\ node = t[n.rel] /\ node.id \in FileIds /\ node = File(node.id)
    <3>1. node.is # "missing"
      BY <1>10
    <3>2. n.rel \in DOMAIN t /\ node = t[n.rel] /\ node \in Nodes
      BY <2>1, <3>1, NodeOrMissing
    <3> HIDE DEF node
    <3> QED
      BY <1>10, <3>2, NodesApart
  <2> DEFINE emptied == [len EXCEPT ![node.id] = 0]
             pos == IF "append" \in flags THEN len'[node.id] ELSE 0
             d == Handle(node.id, n.mount, pos, flags)
  <2>3. Install(d) /\ UNCHANGED <<tree, cwd, exe>>
        /\ len' = IF {"trunc", "write"} \subseteq flags THEN emptied ELSE len
    BY <1>2, <1>10
  <2>4. {"trunc", "write"} \subseteq flags => n.mount \notin ReadOnly
    <3>1. {"trunc", "write"} \subseteq flags => WantsWrite(flags)
      BY DEF WantsWrite
    <3> QED
      BY <1>10, <2>1, <3>1, OpenAllows
  <2> HIDE DEF node, t
  <2>5. len' \in [FileIds -> 0 .. MaxLen]
    BY <2>2, <2>3, Constants DEF StateOK
  <2>6. pos \in 0 .. MaxLen
    <3>1. 0 \in 0 .. MaxLen
      BY Constants
    <3> QED
      BY <2>2, <2>5, <3>1
  <2> HIDE DEF pos
  <2>7. d \in FileHandles /\ d.id = node.id /\ d.mount = n.mount /\ d.is = "file"
    BY <2>1, <2>2, <2>6, HandleFields
  <2> HIDE DEF d
  <2>8. d \in Descriptions
    BY <2>7 DEF Descriptions
  <2>9. UNCHANGED len \/ (d.mount \notin ReadOnly /\ len' = [len EXCEPT ![d.id] = 0])
    BY <2>3, <2>4, <2>7
  <2>10. \E p \in DOMAIN tree[d.mount] : tree[d.mount][p] = File(d.id)
    BY <2>2, <2>7 DEF t
  <2>11. Opens(d)
    BY <2>3, InstallOpens
  <2>12. UNCHANGED <<tree, cwd, exe>>
    BY <2>3
  <2> QED
    BY <2>7, <2>8, <2>9, <2>10, <2>11, <2>12 DEF OpenStep
<1>11. CASE OpenProblem(n, flags) = "ok" /\ n.is = "mounted" /\ node.is \notin {"dir", "file"}
  <2>1. IsTree(t) /\ n.mount \in MountPoints
    BY <1>3, <1>11
  <2>2. /\ n.rel \notin DOMAIN t /\ "creat" \in flags
        /\ Front(n.rel) \in DOMAIN t /\ t[Front(n.rel)] = Dir
        /\ WantsWrite(flags) => n.mount \notin ReadOnly
    BY <1>11, <2>1, OpenAllows
  <2>3. Writable(n)
    BY <1>1, <1>11, <2>2 DEF Writable, WantsWrite
  <2>4. n.rel # <<>>
    BY <2>1, <2>2, TreeFacts
  <2> DEFINE id == Min(FreeIds)
             d == Handle(id, n.mount, 0, flags)
  <2>5. /\ FreeIds # {}
        /\ tree' = [tree EXCEPT ![n.mount] = Put(t, n.rel, File(id))]
        /\ len' = [len EXCEPT ![id] = 0]
        /\ Install(d) /\ UNCHANGED <<cwd, exe>>
    BY <1>2, <1>11
  <2>6. id \in FreeIds /\ id \in FileIds
    <3>1. FreeIds \subseteq FileIds /\ FreeIds \subseteq Nat
      BY Constants DEF FreeIds
    <3> QED
      BY <2>5, <3>1, MinOfNumbers
  <2> HIDE DEF id
  <2>7. d \in FileHandles /\ d.id = id /\ d.mount = n.mount
    BY <2>1, <2>6, HandleFields, Constants
  <2>8. Opens(d)
    BY <2>5, InstallOpens
  <2> HIDE DEF d, node
  <2> QED
    BY <2>2, <2>3, <2>4, <2>5, <2>6, <2>7, <2>8 DEF CreateStep
<1> QED
  BY <1>7, <1>8, <1>9, <1>10, <1>11

LEMMA ReadStep ==
    ASSUME StateOK, NEW f \in Fd, Read(f)
    PROVE  Same \/ HandleStep
<1>1. fds[f] \in Descriptions /\ len \in [FileIds -> 0 .. MaxLen]
  BY DEF StateOK
<1>2. CASE fds[f].is # "file" \/ Same
  BY <1>1, <1>2, DescriptionFields DEF Read, Refuse
<1>3. CASE fds[f].is = "file" /\ ~Same
  <2>1. fds[f] \in FileHandles
    BY <1>1, <1>3, DescriptionFields
  <2> DEFINE h == fds[f]
             pos == IF h.pos < len[h.id] THEN h.pos + 1 ELSE h.pos
  <2>2. fds' = [fds EXCEPT ![f].pos = pos] /\ last' = "read" /\ UNCHANGED <<tree, len, cwd, exe>>
    BY <1>3 DEF Read, Refuse, Answered
  <2>3. h.pos \in 0 .. MaxLen /\ len[h.id] \in 0 .. MaxLen
    BY <1>1, <2>1 DEF FileHandles
  <2>4. pos \in 0 .. MaxLen
    BY <2>3, Constants
  <2> HIDE DEF pos
  <2> QED
    BY <1>3, <2>2, <2>4 DEF HandleStep
<1> QED
  BY <1>2, <1>3

LEMMA MaxOfTwo ==
    ASSUME NEW a \in Int, NEW b \in Int
    PROVE  Max({a, b}) = IF a >= b THEN a ELSE b
<1> DEFINE m == IF a >= b THEN a ELSE b
<1>1. m \in {a, b} /\ \A y \in {a, b} : m >= y
  OBVIOUS
<1>2. \A x \in {a, b} : (\A y \in {a, b} : x >= y) => x = m
  OBVIOUS
<1> HIDE DEF m
<1> QED
  BY <1>1, <1>2 DEF Max, m

LEMMA WriteStep ==
    ASSUME StateOK, NEW f \in Fd, Write(f)
    PROVE  Same \/ HandleStep
<1> DEFINE h == fds[f]
           start == IF h.append THEN len[h.id] ELSE h.pos
           k == Max({len[h.id], start + 1})
<1>1. fds[f] \in Descriptions /\ len \in [FileIds -> 0 .. MaxLen] /\ fds \in [Fd -> Descriptions]
  BY DEF StateOK
<1>2. CASE Same
  BY <1>2
<1>3. CASE ~Same
  <2>1. /\ h.is = "file" /\ h.mount \notin ReadOnly /\ start < MaxLen
        /\ len' = [len EXCEPT ![h.id] = k]
        /\ fds' = [fds EXCEPT ![f].pos = start + 1]
        /\ last' = "write" /\ UNCHANGED <<tree, cwd, exe>>
    BY <1>3 DEF Write, Refuse, Answered
  <2>2. h \in FileHandles
    BY <1>1, <2>1, DescriptionFields
  <2>3. h.pos \in 0 .. MaxLen /\ h.id \in FileIds /\ len[h.id] \in 0 .. MaxLen
    BY <1>1, <2>2 DEF FileHandles
  <2>4. start \in 0 .. MaxLen
    BY <2>3
  <2>5. start + 1 \in 0 .. MaxLen
    BY <2>1, <2>4, Constants
  <2>6. k \in 0 .. MaxLen
    <3>1. len[h.id] \in Int /\ start + 1 \in Int
      BY <2>3, <2>4
    <3> HIDE DEF start
    <3> QED
      BY <2>3, <2>5, <3>1, MaxOfTwo
  <2> HIDE DEF start, k
  <2> QED
    BY <2>1, <2>5, <2>6 DEF HandleStep
<1> QED
  BY <1>2, <1>3

LEMMA LseekStep ==
    ASSUME StateOK, NEW f \in Fd, NEW whence, NEW offset \in {-1, 0, 1}, Lseek(f, whence, offset),
           whence \in {"set", "cur", "end"}
    PROVE  Same \/ HandleStep
<1> DEFINE h == fds[f]
           pos == CASE whence = "set" -> Max({offset, 0})
                    [] whence = "cur" -> h.pos + offset
                    [] whence = "end" -> len[h.id] + offset
<1>1. fds[f] \in Descriptions /\ len \in [FileIds -> 0 .. MaxLen]
  BY DEF StateOK
<1>2. CASE ~Same
  <2>1. /\ h.is = "file" /\ ~(pos < 0) /\ pos <= MaxLen
        /\ fds' = [fds EXCEPT ![f].pos = pos]
        /\ last' = "lseek" /\ UNCHANGED <<tree, len, cwd, exe>>
    BY <1>2 DEF Lseek, Refuse, Answered
  <2>2. h \in FileHandles
    BY <1>1, <2>1, DescriptionFields
  <2>3. h.pos \in 0 .. MaxLen /\ len[h.id] \in 0 .. MaxLen
    BY <1>1, <2>2 DEF FileHandles
  <2>4. pos \in Int
    <3>1. Max({offset, 0}) \in Int
      BY MaxOfTwo
    <3>2. h.pos + offset \in Int /\ len[h.id] + offset \in Int
      BY <2>3
    <3> HIDE DEF h
    <3> QED
      BY <3>1, <3>2
  <2> HIDE DEF pos
  <2>5. pos \in 0 .. MaxLen
    BY <2>1, <2>4, Constants
  <2> QED
    BY <2>1, <2>5 DEF HandleStep
<1> QED
  BY <1>2

LEMMA FtruncateStep ==
    ASSUME StateOK, NEW f \in Fd, NEW k \in 0 .. MaxLen, Ftruncate(f, k)
    PROVE  Same \/ HandleStep
<1>1. CASE ~Same
  <2>1. /\ fds[f].is = "file" /\ fds[f].mount \notin ReadOnly
        /\ len' = [len EXCEPT ![fds[f].id] = k]
        /\ last' = "ftruncate" /\ UNCHANGED <<tree, fds, cwd, exe>>
    BY <1>1 DEF Ftruncate, Refuse, Answered
  <2> QED
    BY <2>1 DEF HandleStep
<1> QED
  BY <1>1

LEMMA TruncateIsStep ==
    ASSUME StateOK, NEW path \in Paths, Truncate(path)
    PROVE  Same \/ TruncateStep
<1> DEFINE n == Look(Cwd, path, TRUE)
<1>1. IsResult(n)
  <2>1. Cwd \in Bases(path)
    BY DEF Bases
  <2> QED
    BY <2>1, LookIsResult
<1>2. CASE ~Same
  <2>1. /\ n.is = "mounted" /\ n.mount \notin ReadOnly
        /\ VfsOpen(tree[n.mount], n.rel, {"write"}) = "ok"
        /\ \E k \in 0 .. MaxLen : len' = [len EXCEPT ![tree[n.mount][n.rel].id] = k]
        /\ last' = "truncate" /\ UNCHANGED <<tree, fds, cwd, exe>>
    BY <1>2 DEF Truncate, Refuse, Answered
  <2> HIDE DEF n
  <2>2. n.mount \in MountPoints /\ IsTree(tree[n.mount])
    BY <1>1, <2>1, TreeOfResult
  <2> DEFINE node == NodeAt(tree[n.mount], n.rel)
  <2>3. node.is = "file" /\ n.rel \in DOMAIN tree[n.mount] /\ node = tree[n.mount][n.rel]
    <3>1. node \in Nodes \cup {Missing}
      BY <2>2, NodeOrMissing
    <3>2. node.is # "missing"
      <4>1. node.is = "missing" => VfsOpen(tree[n.mount], n.rel, {"write"}) = "NOENT"
        BY DEF VfsOpen
      <4> QED
        BY <2>1, <4>1
    <3>3. node.is \notin {"dir", "link"}
      BY <2>1 DEF VfsOpen
    <3>4. n.rel \in DOMAIN tree[n.mount] /\ node = tree[n.mount][n.rel] /\ node \in Nodes
      BY <2>2, <3>2, NodeOrMissing
    <3> HIDE DEF node
    <3> QED
      BY <3>3, <3>4, NodesApart
  <2> HIDE DEF node
  <2> QED
    BY <2>1, <2>2, <2>3 DEF TruncateStep
<1> QED
  BY <1>2

LEMMA ProcessSteps ==
    ASSUME StateOK
    PROVE  /\ \A f \in Fd : Close(f) \/ Fchdir(f) => Same \/ ProcessStep
           /\ \A path \in Paths : Chdir(path) => Same \/ ProcessStep
           /\ \A path \in Paths : \A i \in Interpreters : Execve(path, i) => Same \/ ProcessStep
<1>1. ASSUME NEW f \in Fd, Close(f) PROVE ProcessStep
  BY <1>1 DEF Close, ProcessStep, Answered
<1>2. ASSUME NEW p, WorksIn(p) PROVE ProcessStep
  BY <1>2 DEF WorksIn, ProcessStep, Answered
<1>3. ASSUME NEW f \in Fd, Fchdir(f) PROVE Same \/ ProcessStep
  BY <1>2, <1>3 DEF Fchdir, Refuse
<1>4. ASSUME NEW path \in Paths, Chdir(path) PROVE Same \/ ProcessStep
  BY <1>2, <1>4 DEF Chdir, Refuse
<1>5. ASSUME NEW path \in Paths, NEW i \in Interpreters, Execve(path, i)
      PROVE  Same \/ ProcessStep
  <2>1. Cwd \in Bases(path) /\ Cwd \in Bases(i)
    BY DEF Bases
  <2> DEFINE n == Look(Cwd, path, TRUE)
             by == Look(Cwd, i, TRUE)
             runs == IF ExecProblem(n) = "script" THEN by ELSE n
  <2>2. IsResult(n) /\ IsResult(by)
    BY <2>1, LookIsResult
  <2>3. \/ Same
        \/ /\ runs.is = "program" /\ exe' = runs.guest /\ last' = "execve"
           /\ UNCHANGED <<tree, len, fds, cwd>>
    BY <1>5 DEF Execve, Refuse, Answered
  <2> HIDE DEF n, by
  <2>4. runs \in {n, by}
    OBVIOUS
  <2> HIDE DEF runs
  <2>5. runs.is = "program" => runs.guest \in Programs
    BY <2>2, <2>4, ResultFields
  <2> QED
    BY <2>3, <2>5 DEF ProcessStep
<1> QED
  BY <1>1, <1>3, <1>4, <1>5

LEMMA LooksStep ==
    ASSUME NEW at, NEW path, Looks(at, path)
    PROVE  Same
  BY DEF Looks, Refuse

(* The steps of the calls are of these kinds, and there are no others. *)
LEMMA StepKinds ==
    ASSUME StateOK, [Next]_vars
    PROVE  AnyStep
<1>1. CASE UNCHANGED vars
  BY <1>1 DEF vars, AnyStep, Same
<1>2. CASE Next
  <2>1. ASSUME NEW p \in Paths, NEW at \in Bases(p),
               \/ Mkdirat(at, p) \/ Symlinkat(at, p) \/ Unlinkat(at, p) \/ Renameat(at, p)
               \/ Looks(at, p) \/ \E flags \in OpenFlags : Openat(at, p, flags)
        PROVE  AnyStep
    BY <2>1, MkdiratStep, SymlinkatStep, UnlinkatStep, RenameatStep, LooksStep, OpenatStep
       DEF AnyStep
  <2>2. ASSUME NEW p \in Paths,
               Chdir(p) \/ Truncate(p) \/ \E i \in Interpreters : Execve(p, i)
        PROVE  AnyStep
    BY <2>2, ProcessSteps, TruncateIsStep DEF AnyStep
  <2>3. ASSUME NEW f \in Fd, Close(f) \/ Read(f) \/ Write(f) \/ Fchdir(f)
        PROVE  AnyStep
    BY <2>3, ProcessSteps, ReadStep, WriteStep DEF AnyStep
  <2>4. ASSUME NEW f \in Fd, NEW n \in 0 .. MaxLen, Ftruncate(f, n)
        PROVE  AnyStep
    BY <2>4, FtruncateStep DEF AnyStep
  <2>5. ASSUME NEW f \in Fd, NEW whence \in {"set", "cur", "end"}, NEW offset \in {-1, 0, 1},
               Lseek(f, whence, offset)
        PROVE  AnyStep
    BY <2>5, LseekStep DEF AnyStep
  <2> QED
    BY <1>2, <2>1, <2>2, <2>3, <2>4, <2>5 DEF Next
<1> QED
  BY <1>1, <1>2

-----------------------------------------------------------------------------
(* 6. The invariant.                                                       *)

LEMMA Initially ==
    Init => IInv
<1> SUFFICES ASSUME Init PROVE IInv
  OBVIOUS
<1>1. tree = InitialTree /\ fds = [f \in Fd |-> Closed] /\ cwd = <<>> /\ exe \in Programs
      /\ len = [id \in FileIds |-> IF id \in Named(InitialTree) THEN 1 ELSE 0]
  BY DEF Init
<1>2. tree = [m \in MountPoints |-> tree[m]]
  BY <1>1, FilesAssumption
<1>3. ASSUME NEW m \in MountPoints PROVE IsTree(tree[m])
  <2>1. DOMAIN InitialTree[m] \subseteq Path
    <3>1. \A q \in Seq(STRING) : q \in Path
      <4>1. STRING \subseteq Name
        BY DEF Name
      <4> QED
        BY <4>1, SeqMonotonic DEF Path
    <3> QED
      BY <3>1, FilesAssumption
  <2>2. /\ InitialTree[m] = [p \in DOMAIN InitialTree[m] |-> InitialTree[m][p]]
        /\ WellFormed(InitialTree[m])
        /\ \A p \in DOMAIN InitialTree[m] : InitialTree[m][p] \in Nodes
    BY FilesAssumption
  <2> QED
    BY <1>1, <2>1, <2>2 DEF IsTree
<1>4. len \in [FileIds -> 0 .. MaxLen]
  BY <1>1, Constants
<1>5. fds \in [Fd -> Descriptions]
  BY <1>1 DEF Descriptions
<1>6. NamedOnce(tree)
  BY <1>1, FilesAssumption
<1>7. OnTheirMounts
  BY <1>1 DEF OnTheirMounts, Closed
<1>8. cwd \in Path
  BY <1>1, EmptyIsPath
<1> QED
  BY <1>1, <1>2, <1>3, <1>4, <1>5, <1>6, <1>7, <1>8 DEF IInv, StateOK

LEMMA FreeIdsAreFree ==
    ASSUME NEW id \in FreeIds
    PROVE  /\ id \in FileIds
           /\ \A m \in MountPoints : \A p \in DOMAIN tree[m] :
                  tree[m][p].is = "file" => tree[m][p].id # id
           /\ \A f \in Fd : fds[f].is = "file" => fds[f].id # id
  BY DEF FreeIds, Named, FilesOf, Opened

(* One mount changes: each of its files had its name there before, or is   *)
(* new.                                                                    *)
Once(u) == \A p, q \in DOMAIN u : u[p].is = "file" /\ u[q] = u[p] => p = q
FromBefore(u, t) == \A p \in DOMAIN u : u[p].is = "file" =>
                        u[p].id \in FreeIds \/ \E q \in DOMAIN t : t[q] = u[p]

LEMMA OnceBefore ==
    ASSUME NamedOnce(tree), NEW m \in MountPoints
    PROVE  Once(tree[m])
  BY DEF NamedOnce, Once

LEMMA TreesAfter ==
    ASSUME StateOK, NEW m \in MountPoints, NEW u, IsTree(u), tree' = [tree EXCEPT ![m] = u]
    PROVE  /\ tree' = [k \in MountPoints |-> tree'[k]] /\ \A k \in MountPoints : IsTree(tree'[k])
           /\ tree'[m] = u /\ \A k \in MountPoints \ {m} : tree'[k] = tree[k]
<1>1. tree = [k \in MountPoints |-> tree[k]] /\ \A k \in MountPoints : IsTree(tree[k])
  BY DEF StateOK
<1>2. tree' = [k \in MountPoints |-> IF k = m THEN u ELSE tree[k]]
  BY <1>1, Zenon
<1> QED
  BY <1>1, <1>2

LEMMA NamesAfter ==
    ASSUME IInv, NEW m \in MountPoints, NEW u, IsTree(u), tree' = [tree EXCEPT ![m] = u],
           Once(u), FromBefore(u, tree[m])
    PROVE  /\ NamedOnce(tree')
           /\ \A f \in Fd : fds[f].is = "file" =>
                  \A k \in MountPoints : \A p \in DOMAIN tree'[k] :
                      tree'[k][p] = File(fds[f].id) => k = fds[f].mount
<1>1. tree'[m] = u /\ \A k \in MountPoints \ {m} : tree'[k] = tree[k]
  BY TreesAfter DEF IInv
<1>2. NamedOnce(tree) /\ OnTheirMounts
  BY DEF IInv
<1>3. ASSUME NEW k \in MountPoints \ {m}, NEW p \in DOMAIN u, NEW q \in DOMAIN tree[k],
             u[p].is = "file", tree[k][q] = u[p]
      PROVE  FALSE
  <2>1. CASE u[p].id \in FreeIds
    BY <1>3, <2>1, FreeIdsAreFree
  <2>2. CASE \E r \in DOMAIN tree[m] : tree[m][r] = u[p]
    BY <1>2, <1>3, <2>2 DEF NamedOnce
  <2> QED
    BY <1>3, <2>1, <2>2 DEF FromBefore
<1>4. NamedOnce(tree')
  <2>1. ASSUME NEW k \in MountPoints, NEW l \in MountPoints,
               NEW p \in DOMAIN tree'[k], NEW q \in DOMAIN tree'[l],
               tree'[k][p].is = "file", tree'[l][q] = tree'[k][p]
        PROVE  k = l /\ p = q
    <3>1. CASE k = m /\ l = m
      BY <1>1, <2>1, <3>1 DEF Once
    <3>2. CASE k = m /\ l # m
      BY <1>1, <1>3, <2>1, <3>2
    <3>3. CASE k # m /\ l = m
      BY <1>1, <1>3, <2>1, <3>3
    <3>4. CASE k # m /\ l # m
      BY <1>1, <1>2, <2>1, <3>4 DEF NamedOnce
    <3> QED
      BY <3>1, <3>2, <3>3, <3>4
  <2> QED
    BY <2>1 DEF NamedOnce
<1>5. ASSUME NEW f \in Fd, fds[f].is = "file", NEW k \in MountPoints, NEW p \in DOMAIN tree'[k],
             tree'[k][p] = File(fds[f].id)
      PROVE  k = fds[f].mount
  <2>1. File(fds[f].id).is = "file" /\ File(fds[f].id).id = fds[f].id
    BY DEF File
  <2>2. CASE k # m
    BY <1>1, <1>2, <1>5, <2>2 DEF OnTheirMounts
  <2>3. CASE k = m
    <3>1. u[p] = File(fds[f].id) /\ p \in DOMAIN u
      BY <1>1, <1>5, <2>3
    <3>2. u[p].id \notin FreeIds
      BY <1>5, <2>1, <3>1, FreeIdsAreFree
    <3>3. PICK q \in DOMAIN tree[m] : tree[m][q] = u[p]
      BY <2>1, <3>1, <3>2 DEF FromBefore
    <3> QED
      BY <1>2, <1>5, <2>3, <3>1, <3>3 DEF OnTheirMounts
  <2> QED
    BY <2>2, <2>3
<1> QED
  BY <1>4, <1>5

LEMMA PutKeepsOnce ==
    ASSUME NEW t, IsTree(t), NEW p \in Path, p # <<>>, p \notin DOMAIN t,
           Front(p) \in DOMAIN t, t[Front(p)] = Dir, NEW n \in Nodes, Once(t),
           n.is = "file" => /\ n.id \in FreeIds
                            /\ \A q \in DOMAIN t : t[q].is = "file" => t[q].id # n.id
    PROVE  Once(Put(t, p, n)) /\ FromBefore(Put(t, p, n), t)
<1> DEFINE u == Put(t, p, n)
<1>1. DOMAIN u = DOMAIN t \cup {p} /\ u[p] = n /\ \A q \in DOMAIN t : u[q] = t[q]
  BY DEF Put
<1> HIDE DEF u
<1>2. Once(u)
  <2>1. ASSUME NEW x \in DOMAIN u, NEW y \in DOMAIN u, u[x].is = "file", u[y] = u[x]
        PROVE  x = y
    BY <1>1, <2>1 DEF Once
  <2> QED
    BY <2>1 DEF Once
<1>3. FromBefore(u, t)
  BY <1>1 DEF FromBefore
<1> QED
  BY <1>2, <1>3 DEF u

LEMMA CutKeepsOnce ==
    ASSUME NEW t, IsTree(t), NEW p \in Path, p # <<>>, Once(t)
    PROVE  Once(Cut(t, p)) /\ FromBefore(Cut(t, p), t)
<1> DEFINE c == Cut(t, p)
<1>1. DOMAIN c \subseteq DOMAIN t /\ \A q \in DOMAIN c : c[q] = t[q]
  BY CutTree
<1> HIDE DEF c
<1> QED
  BY <1>1 DEF Once, FromBefore, c

LEMMA MovedIsGraft ==
    ASSUME NEW t, IsTree(t), NEW from \in Path, from # <<>>, from \in DOMAIN t,
           NEW to \in Path, to # <<>>,
           Front(to) \in DOMAIN Cut(t, from), Cut(t, from)[Front(to)] = Dir
    PROVE  IsGraft(Moved(t, from, to), Cut(t, from), to, t, from)
<1>1. IsTree(Cut(t, from))
  BY CutTree
<1> DEFINE rest == Cut(t, from)
           g == Graft(rest, to, from, Restrict(t, Subtree(t, from)))
<1>2. IsTree(rest) /\ Front(to) \in DOMAIN rest /\ rest[Front(to)] = Dir
  BY <1>1
<1>3. g = Graft(rest, to, from, Restrict(t, Subtree(t, from)))
  OBVIOUS
<1> HIDE DEF rest, g
<1>4. IsGraft(g, rest, to, t, from)
  BY <1>2, <1>3, GraftTree
<1> QED
  BY <1>4 DEF g, rest, Moved

(* Where each node of a tree after a rename has come from. *)
LEMMA MovedNodes ==
    ASSUME NEW t, IsTree(t), NEW from \in Path, from # <<>>, from \in DOMAIN t,
           NEW to \in Path, to # <<>>,
           Front(to) \in DOMAIN Cut(t, from), Cut(t, from)[Front(to)] = Dir,
           NEW u, u = Moved(t, from, to), NEW q \in DOMAIN u
    PROVE  \/ ~IsPrefix(to, q) /\ q \in DOMAIN t /\ ~IsPrefix(from, q) /\ u[q] = t[q]
           \/ \E s \in Path : q = to \o s /\ from \o s \in DOMAIN t /\ u[q] = t[from \o s]
<1>1. IsGraft(u, Cut(t, from), to, t, from)
  BY MovedIsGraft
<1>2. /\ DOMAIN Cut(t, from) = {x \in DOMAIN t : ~IsPrefix(from, x)}
      /\ \A x \in DOMAIN Cut(t, from) : Cut(t, from)[x] = t[x]
  BY CutTree
<1>3. CASE IsPrefix(to, q)
  <2>1. q \in {to \o s : s \in {r \in Path : from \o r \in DOMAIN t}}
    BY <1>1, <1>3 DEF IsGraft
  <2>2. PICK s \in Path : q = to \o s /\ from \o s \in DOMAIN t
    BY <2>1
  <2>3. u[q] = t[from \o s]
    BY <1>1, <2>2 DEF IsGraft
  <2> QED
    BY <2>2, <2>3
<1>4. CASE ~IsPrefix(to, q)
  <2>1. ASSUME NEW s \in Path PROVE q # to \o s
    BY <1>4, BelowOfJoined
  <2>2. q \in DOMAIN Cut(t, from) /\ u[q] = Cut(t, from)[q]
    BY <1>1, <1>4, <2>1 DEF IsGraft
  <2> QED
    BY <1>2, <1>4, <2>2
<1> QED
  BY <1>3, <1>4

LEMMA MovedKeepsOnce ==
    ASSUME NEW t, IsTree(t), NEW from \in Path, from # <<>>, from \in DOMAIN t,
           NEW to \in Path, to # <<>>,
           Front(to) \in DOMAIN Cut(t, from), Cut(t, from)[Front(to)] = Dir, Once(t)
    PROVE  Once(Moved(t, from, to)) /\ FromBefore(Moved(t, from, to), t)
<1> DEFINE u == Moved(t, from, to)
           Kept(q) == ~IsPrefix(to, q) /\ q \in DOMAIN t /\ ~IsPrefix(from, q) /\ u[q] = t[q]
           Came(q, s) == q = to \o s /\ from \o s \in DOMAIN t /\ u[q] = t[from \o s]
<1>1. ASSUME NEW q \in DOMAIN u PROVE Kept(q) \/ \E s \in Path : Came(q, s)
  BY MovedNodes
<1> HIDE DEF u
<1>2. FromBefore(u, t)
  BY <1>1 DEF FromBefore
<1>3. ASSUME NEW x \in DOMAIN u, NEW y \in DOMAIN u, u[x].is = "file", u[y] = u[x]
      PROVE  x = y
  <2>1. CASE Kept(x) /\ Kept(y)
    BY <1>3, <2>1 DEF Once
  <2>2. ASSUME NEW s \in Path, Came(x, s), Kept(y) PROVE FALSE
    <3>1. y = from \o s
      BY <1>3, <2>2 DEF Once
    <3> QED
      BY <2>2, <3>1, BelowOfJoined
  <2>3. ASSUME NEW s \in Path, Came(y, s), Kept(x) PROVE FALSE
    <3>1. x = from \o s
      BY <1>3, <2>3 DEF Once
    <3> QED
      BY <2>3, <3>1, BelowOfJoined
  <2>4. ASSUME NEW s \in Path, NEW r \in Path, Came(x, s), Came(y, r) PROVE x = y
    <3>1. from \o s = from \o r
      BY <1>3, <2>4 DEF Once
    <3>2. Below(from, from \o s) = s /\ Below(from, from \o r) = r
      BY BelowOfJoined
    <3> QED
      BY <2>4, <3>1, <3>2
  <2> QED
    BY <1>1, <2>1, <2>2, <2>3, <2>4
<1> QED
  BY <1>2, <1>3 DEF Once, u

LEMMA TreeStepKeeps ==
    ASSUME IInv, NEW m \in MountPoints, NEW u, IsTree(u), tree' = [tree EXCEPT ![m] = u],
           Once(u), FromBefore(u, tree[m]), UNCHANGED <<len, fds, cwd, exe>>
    PROVE  IInv'
<1>1. StateOK'
  BY TreesAfter DEF IInv, StateOK
<1>2. NamedOnce(tree')
  BY NamesAfter
<1>3. OnTheirMounts'
  BY NamesAfter DEF OnTheirMounts
<1> QED
  BY <1>1, <1>2, <1>3 DEF IInv

LEMMA WritableTree ==
    ASSUME IInv, NEW n, Writable(n)
    PROVE  /\ n.mount \in MountPoints /\ n.mount \notin ReadOnly /\ n.rel \in Path
           /\ IsTree(tree[n.mount]) /\ Once(tree[n.mount])
<1>1. n.mount \in MountPoints /\ n.rel \in Path /\ IsTree(tree[n.mount])
  BY TreeOfResult DEF IInv, Writable
<1> QED
  BY <1>1, OnceBefore DEF IInv, Writable

LEMMA MakeKeeps ==
    ASSUME IInv, MakeStep
    PROVE  IInv'
<1>1. PICK n : \E node \in Nodes :
         /\ Writable(n) /\ node.is # "file"
         /\ n.rel # <<>> /\ n.rel \notin DOMAIN tree[n.mount]
         /\ Front(n.rel) \in DOMAIN tree[n.mount] /\ tree[n.mount][Front(n.rel)] = Dir
         /\ tree' = [tree EXCEPT ![n.mount] = Put(tree[n.mount], n.rel, node)]
         /\ UNCHANGED <<len, fds, cwd, exe>>
  BY DEF MakeStep
<1>2. PICK node \in Nodes :
         /\ Writable(n) /\ node.is # "file"
         /\ n.rel # <<>> /\ n.rel \notin DOMAIN tree[n.mount]
         /\ Front(n.rel) \in DOMAIN tree[n.mount] /\ tree[n.mount][Front(n.rel)] = Dir
         /\ tree' = [tree EXCEPT ![n.mount] = Put(tree[n.mount], n.rel, node)]
         /\ UNCHANGED <<len, fds, cwd, exe>>
  BY <1>1
<1>3. /\ n.mount \in MountPoints /\ n.rel \in Path
      /\ IsTree(tree[n.mount]) /\ Once(tree[n.mount])
  BY <1>2, WritableTree
<1> DEFINE u == Put(tree[n.mount], n.rel, node)
<1>4. IsTree(u) /\ Once(u) /\ FromBefore(u, tree[n.mount])
  BY <1>2, <1>3, PutTree, PutKeepsOnce
<1> HIDE DEF u
<1>5. tree' = [tree EXCEPT ![n.mount] = u]
  BY <1>2 DEF u
<1> QED
  BY <1>2, <1>3, <1>4, <1>5, TreeStepKeeps

LEMMA RemoveKeeps ==
    ASSUME IInv, RemoveStep
    PROVE  IInv'
<1>1. PICK n :
         /\ Writable(n) /\ n.rel # <<>> /\ n.rel \in DOMAIN tree[n.mount]
         /\ tree' = [tree EXCEPT ![n.mount] = Cut(tree[n.mount], n.rel)]
         /\ UNCHANGED <<len, fds, cwd, exe>>
  BY DEF RemoveStep
<1>2. /\ n.mount \in MountPoints /\ n.rel \in Path
      /\ IsTree(tree[n.mount]) /\ Once(tree[n.mount])
  BY <1>1, WritableTree
<1> DEFINE u == Cut(tree[n.mount], n.rel)
<1>3. IsTree(u) /\ Once(u) /\ FromBefore(u, tree[n.mount])
  BY <1>1, <1>2, CutTree, CutKeepsOnce
<1> HIDE DEF u
<1>4. tree' = [tree EXCEPT ![n.mount] = u]
  BY <1>1 DEF u
<1> QED
  BY <1>1, <1>2, <1>3, <1>4, TreeStepKeeps

LEMMA RenameFacts ==
    ASSUME IInv, RenameStep
    PROVE  \E n, k :
              /\ Writable(n) /\ Writable(k) /\ k.mount = n.mount
              /\ n.mount \in MountPoints \ ReadOnly /\ n.rel \in Path /\ k.rel \in Path
              /\ IsTree(tree[n.mount]) /\ Once(tree[n.mount])
              /\ n.rel # <<>> /\ n.rel \in DOMAIN tree[n.mount] /\ k.rel # <<>>
              /\ Front(k.rel) \in DOMAIN Cut(tree[n.mount], n.rel)
              /\ Cut(tree[n.mount], n.rel)[Front(k.rel)] = Dir
              /\ IsGraft(Moved(tree[n.mount], n.rel, k.rel), Cut(tree[n.mount], n.rel), k.rel,
                         tree[n.mount], n.rel)
              /\ tree' = [tree EXCEPT ![n.mount] = Moved(tree[n.mount], n.rel, k.rel)]
              /\ last' = "renameat" /\ UNCHANGED <<len, fds, cwd, exe>>
<1>1. PICK n, k :
         /\ Writable(n) /\ Writable(k) /\ k.mount = n.mount
         /\ n.rel # <<>> /\ n.rel \in DOMAIN tree[n.mount] /\ k.rel # <<>>
         /\ Front(k.rel) \in DOMAIN Cut(tree[n.mount], n.rel)
         /\ Cut(tree[n.mount], n.rel)[Front(k.rel)] = Dir
         /\ tree' = [tree EXCEPT ![n.mount] = Moved(tree[n.mount], n.rel, k.rel)]
         /\ last' = "renameat" /\ UNCHANGED <<len, fds, cwd, exe>>
  BY DEF RenameStep
<1>2. /\ n.mount \in MountPoints \ ReadOnly /\ n.rel \in Path /\ k.rel \in Path
      /\ IsTree(tree[n.mount]) /\ Once(tree[n.mount])
  BY <1>1, WritableTree
<1>3. IsGraft(Moved(tree[n.mount], n.rel, k.rel), Cut(tree[n.mount], n.rel), k.rel,
              tree[n.mount], n.rel)
  <2> DEFINE t == tree[n.mount]
             from == n.rel
             to == k.rel
  <2>1. /\ IsTree(t) /\ from \in Path /\ from # <<>> /\ from \in DOMAIN t
        /\ to \in Path /\ to # <<>>
        /\ Front(to) \in DOMAIN Cut(t, from) /\ Cut(t, from)[Front(to)] = Dir
    BY <1>1, <1>2
  <2> HIDE DEF t, from, to
  <2>2. IsGraft(Moved(t, from, to), Cut(t, from), to, t, from)
    BY <2>1, MovedIsGraft
  <2> QED
    BY <2>2 DEF t, from, to
<1> QED
  BY <1>1, <1>2, <1>3

LEMMA RenameKeeps ==
    ASSUME IInv, RenameStep
    PROVE  IInv'
<1>1. PICK n, k :
         /\ n.mount \in MountPoints /\ n.rel \in Path /\ k.rel \in Path
         /\ IsTree(tree[n.mount]) /\ Once(tree[n.mount])
         /\ n.rel # <<>> /\ n.rel \in DOMAIN tree[n.mount] /\ k.rel # <<>>
         /\ Front(k.rel) \in DOMAIN Cut(tree[n.mount], n.rel)
         /\ Cut(tree[n.mount], n.rel)[Front(k.rel)] = Dir
         /\ IsGraft(Moved(tree[n.mount], n.rel, k.rel), Cut(tree[n.mount], n.rel), k.rel,
                    tree[n.mount], n.rel)
         /\ tree' = [tree EXCEPT ![n.mount] = Moved(tree[n.mount], n.rel, k.rel)]
         /\ UNCHANGED <<len, fds, cwd, exe>>
  BY RenameFacts
<1> DEFINE t == tree[n.mount]
           from == n.rel
           to == k.rel
           u == Moved(t, from, to)
<1>2. /\ IsTree(t) /\ Once(t) /\ from \in Path /\ from # <<>> /\ from \in DOMAIN t
      /\ to \in Path /\ to # <<>>
      /\ Front(to) \in DOMAIN Cut(t, from) /\ Cut(t, from)[Front(to)] = Dir
      /\ IsGraft(u, Cut(t, from), to, t, from)
  BY <1>1
<1>3. tree' = [tree EXCEPT ![n.mount] = u] /\ UNCHANGED <<len, fds, cwd, exe>>
      /\ n.mount \in MountPoints /\ t = tree[n.mount]
  BY <1>1
<1> HIDE DEF t, from, to
<1>4. Once(u) /\ FromBefore(u, t)
  BY <1>2, MovedKeepsOnce
<1>5. IsTree(u)
  BY <1>2 DEF IsGraft
<1> HIDE DEF u
<1> QED
  BY <1>3, <1>4, <1>5, TreeStepKeeps

LEMMA OpensKeepsType ==
    ASSUME StateOK, NEW d \in Descriptions, Opens(d)
    PROVE  /\ fds' \in [Fd -> Descriptions]
           /\ \A f \in Fd : fds'[f] = fds[f] \/ fds'[f] = d
<1>1. fds \in [Fd -> Descriptions]
  BY DEF StateOK
<1>2. CASE UNCHANGED fds
  BY <1>1, <1>2
<1>3. ASSUME NEW f \in Fd, fds' = [fds EXCEPT ![f] = d]
      PROVE  /\ fds' \in [Fd -> Descriptions]
             /\ \A g \in Fd : fds'[g] = fds[g] \/ fds'[g] = d
  BY <1>1, <1>3
<1> QED
  BY <1>2, <1>3 DEF Opens

LEMMA LengthKeepsType ==
    ASSUME StateOK, NEW id, NEW k \in 0 .. MaxLen, len' = [len EXCEPT ![id] = k]
    PROVE  len' \in [FileIds -> 0 .. MaxLen] /\ \A i \in FileIds \ {id} : len'[i] = len[i]
<1>1. len \in [FileIds -> 0 .. MaxLen]
  BY DEF StateOK
<1> QED
  BY <1>1

LEMMA OpenKeeps ==
    ASSUME IInv, OpenStep
    PROVE  IInv'
<1>1. PICK d \in Descriptions :
         /\ Opens(d) /\ UNCHANGED <<tree, cwd, exe>>
         /\ \/ d.is # "file" /\ UNCHANGED len
            \/ /\ d.is = "file"
               /\ \E p \in DOMAIN tree[d.mount] : tree[d.mount][p] = File(d.id)
               /\ UNCHANGED len \/ (d.mount \notin ReadOnly /\ len' = [len EXCEPT ![d.id] = 0])
  BY DEF OpenStep
<1>2. StateOK /\ NamedOnce(tree) /\ OnTheirMounts
  BY DEF IInv
<1>3. /\ fds' \in [Fd -> Descriptions]
      /\ \A f \in Fd : fds'[f] = fds[f] \/ fds'[f] = d
  BY <1>1, <1>2, OpensKeepsType
<1>4. len' \in [FileIds -> 0 .. MaxLen]
  <2>1. 0 \in 0 .. MaxLen
    BY Constants
  <2>2. UNCHANGED len \/ len' = [len EXCEPT ![d.id] = 0]
    BY <1>1
  <2>3. CASE UNCHANGED len
    BY <1>2, <2>3 DEF StateOK
  <2>4. CASE len' = [len EXCEPT ![d.id] = 0]
    BY <1>2, <2>1, <2>4, LengthKeepsType
  <2> QED
    BY <2>2, <2>3, <2>4
<1>5. StateOK'
  BY <1>1, <1>2, <1>3, <1>4 DEF StateOK
<1>6. NamedOnce(tree')
  BY <1>1, <1>2
<1>7. ASSUME NEW f \in Fd, fds'[f].is = "file", NEW m \in MountPoints, NEW p \in DOMAIN tree[m],
             tree[m][p] = File(fds'[f].id)
      PROVE  m = fds'[f].mount
  <2>1. CASE fds'[f] = fds[f]
    BY <1>2, <1>7, <2>1 DEF OnTheirMounts
  <2>2. CASE fds'[f] = d
    <3>1. d.is = "file" /\ tree[m][p] = File(d.id) /\ d.mount \in MountPoints
      BY <1>7, <2>2, DescriptionFields DEF FileHandles
    <3>2. PICK q \in DOMAIN tree[d.mount] : tree[d.mount][q] = File(d.id)
      BY <1>1, <3>1
    <3>3. File(d.id).is = "file"
      BY DEF File
    <3>4. m = d.mount
      BY <1>2, <3>1, <3>2, <3>3 DEF NamedOnce
    <3> QED
      BY <2>2, <3>4
  <2> QED
    BY <1>3, <2>1, <2>2
<1>8. OnTheirMounts'
  BY <1>1, <1>7 DEF OnTheirMounts
<1> QED
  BY <1>5, <1>6, <1>8 DEF IInv

LEMMA CreateKeeps ==
    ASSUME IInv, CreateStep
    PROVE  IInv'
<1>1. PICK n : \E d \in FileHandles :
         /\ Writable(n) /\ d.mount = n.mount /\ d.id \in FreeIds
         /\ n.rel # <<>> /\ n.rel \notin DOMAIN tree[n.mount]
         /\ Front(n.rel) \in DOMAIN tree[n.mount] /\ tree[n.mount][Front(n.rel)] = Dir
         /\ tree' = [tree EXCEPT ![n.mount] = Put(tree[n.mount], n.rel, File(d.id))]
         /\ len' = [len EXCEPT ![d.id] = 0]
         /\ Opens(d) /\ UNCHANGED <<cwd, exe>>
  BY DEF CreateStep
<1>2. PICK d \in FileHandles :
         /\ Writable(n) /\ d.mount = n.mount /\ d.id \in FreeIds
         /\ n.rel # <<>> /\ n.rel \notin DOMAIN tree[n.mount]
         /\ Front(n.rel) \in DOMAIN tree[n.mount] /\ tree[n.mount][Front(n.rel)] = Dir
         /\ tree' = [tree EXCEPT ![n.mount] = Put(tree[n.mount], n.rel, File(d.id))]
         /\ len' = [len EXCEPT ![d.id] = 0]
         /\ Opens(d) /\ UNCHANGED <<cwd, exe>>
  BY <1>1
<1> DEFINE t == tree[n.mount]
           u == Put(t, n.rel, File(d.id))
<1>3. /\ n.mount \in MountPoints /\ n.rel \in Path /\ IsTree(t) /\ Once(t)
  BY <1>2, WritableTree
<1>4. File(d.id) \in Nodes /\ File(d.id).is = "file" /\ File(d.id).id = d.id
  BY <1>2, FreeIdsAreFree DEF Nodes, File
<1>5. \A q \in DOMAIN t : t[q].is = "file" => t[q].id # d.id
  BY <1>2, <1>3, FreeIdsAreFree
<1>6. Once(u) /\ FromBefore(u, t) /\ IsTree(u)
  <2> DEFINE node == File(d.id)
  <2>1. node \in Nodes /\ node.is = "file" /\ node.id = d.id
    BY <1>4
  <2>2. /\ IsTree(t) /\ n.rel \in Path /\ n.rel # <<>> /\ n.rel \notin DOMAIN t /\ Once(t)
        /\ Front(n.rel) \in DOMAIN t /\ t[Front(n.rel)] = Dir
    BY <1>2, <1>3
  <2>3. node.id \in FreeIds /\ \A q \in DOMAIN t : t[q].is = "file" => t[q].id # node.id
    BY <1>2, <1>5, <2>1
  <2> HIDE DEF node, t
  <2>4. Once(Put(t, n.rel, node)) /\ FromBefore(Put(t, n.rel, node), t)
    BY <2>1, <2>2, <2>3, PutKeepsOnce
  <2>5. IsTree(Put(t, n.rel, node))
    BY <2>1, <2>2, PutTree
  <2> QED
    BY <2>4, <2>5 DEF node
<1>7. tree' = [tree EXCEPT ![n.mount] = u]
  BY <1>2
<1> HIDE DEF u
<1>8. StateOK
  BY DEF IInv
<1>9. /\ NamedOnce(tree')
      /\ \A f \in Fd : fds[f].is = "file" =>
             \A k \in MountPoints : \A p \in DOMAIN tree'[k] :
                 tree'[k][p] = File(fds[f].id) => k = fds[f].mount
  BY <1>3, <1>6, <1>7, NamesAfter
<1>10. /\ tree' = [k \in MountPoints |-> tree'[k]] /\ \A k \in MountPoints : IsTree(tree'[k])
       /\ \A k \in MountPoints \ {n.mount} : tree'[k] = tree[k]
  BY <1>3, <1>6, <1>7, <1>8, TreesAfter
<1>11. /\ fds' \in [Fd -> Descriptions]
       /\ \A f \in Fd : fds'[f] = fds[f] \/ fds'[f] = d
  <2>1. d \in Descriptions
    BY DEF Descriptions
  <2> QED
    BY <1>2, <1>8, <2>1, OpensKeepsType
<1>12. len' \in [FileIds -> 0 .. MaxLen]
  <2>1. 0 \in 0 .. MaxLen
    BY Constants
  <2> QED
    BY <1>2, <1>8, <2>1, LengthKeepsType
<1>13. StateOK'
  BY <1>2, <1>8, <1>10, <1>11, <1>12 DEF StateOK
<1>14. ASSUME NEW f \in Fd, fds'[f].is = "file", NEW m \in MountPoints, NEW p \in DOMAIN tree'[m],
              tree'[m][p] = File(fds'[f].id)
       PROVE  m = fds'[f].mount
  <2>1. CASE fds'[f] = fds[f]
    BY <1>9, <1>14, <2>1
  <2>2. CASE fds'[f] = d
    <3>1. tree'[m][p].is = "file" /\ tree'[m][p].id = d.id
      BY <1>4, <1>14, <2>2
    <3>2. m # n.mount => FALSE
      BY <1>2, <1>10, <3>1, FreeIdsAreFree
    <3> QED
      BY <1>2, <2>2, <3>2
  <2> QED
    BY <1>11, <2>1, <2>2
<1>15. OnTheirMounts'
  BY <1>14 DEF OnTheirMounts
<1> QED
  BY <1>9, <1>13, <1>15 DEF IInv

LEMMA HandleKeeps ==
    ASSUME IInv, HandleStep
    PROVE  IInv'
<1>1. PICK f \in Fd :
         /\ fds[f].is = "file"
         /\ UNCHANGED fds \/ \E pos \in 0 .. MaxLen : fds' = [fds EXCEPT ![f].pos = pos]
         /\ UNCHANGED len \/ \E k \in 0 .. MaxLen : len' = [len EXCEPT ![fds[f].id] = k]
         /\ UNCHANGED <<tree, cwd, exe>>
  BY DEF HandleStep
<1>2. StateOK /\ NamedOnce(tree) /\ OnTheirMounts /\ fds \in [Fd -> Descriptions]
  BY DEF IInv, StateOK
<1>3. /\ fds' \in [Fd -> Descriptions]
      /\ \A g \in Fd : fds'[g].is = "file" =>
             fds[g].is = "file" /\ fds'[g].id = fds[g].id /\ fds'[g].mount = fds[g].mount
  <2>1. CASE UNCHANGED fds
    BY <1>2, <2>1
  <2>2. ASSUME NEW pos \in 0 .. MaxLen, fds' = [fds EXCEPT ![f].pos = pos]
        PROVE  /\ fds' \in [Fd -> Descriptions]
               /\ \A g \in Fd : fds'[g].is = "file" =>
                      fds[g].is = "file" /\ fds'[g].id = fds[g].id /\ fds'[g].mount = fds[g].mount
    <3> DEFINE h == [fds[f] EXCEPT !.pos = pos]
    <3>1. fds[f] \in FileHandles
      BY <1>1, <1>2, DescriptionFields
    <3>2. h \in FileHandles /\ h.id = fds[f].id /\ h.mount = fds[f].mount
      BY <3>1 DEF FileHandles
    <3>3. fds' = [fds EXCEPT ![f] = h]
      BY <2>2
    <3> HIDE DEF h
    <3>4. h \in Descriptions
      BY <3>2 DEF Descriptions
    <3> QED
      BY <1>1, <1>2, <3>2, <3>3, <3>4
  <2> QED
    BY <1>1, <2>1, <2>2
<1>4. len' \in [FileIds -> 0 .. MaxLen]
  BY <1>1, <1>2, LengthKeepsType DEF StateOK
<1>5. StateOK'
  BY <1>1, <1>2, <1>3, <1>4 DEF StateOK
<1>6. OnTheirMounts'
  BY <1>1, <1>2, <1>3 DEF OnTheirMounts
<1> QED
  BY <1>1, <1>2, <1>5, <1>6 DEF IInv

LEMMA OtherStepsKeep ==
    ASSUME IInv, Same \/ TruncateStep \/ ProcessStep
    PROVE  IInv'
<1>1. StateOK /\ NamedOnce(tree) /\ OnTheirMounts
  BY DEF IInv
<1>2. CASE Same
  BY <1>1, <1>2 DEF Same, IInv, StateOK, OnTheirMounts
<1>3. CASE TruncateStep
  <2>1. UNCHANGED <<tree, fds, cwd, exe>> /\ \E id : \E k \in 0 .. MaxLen : len' = [len EXCEPT ![id] = k]
    BY <1>3 DEF TruncateStep
  <2>2. len' \in [FileIds -> 0 .. MaxLen]
    BY <1>1, <2>1, LengthKeepsType
  <2>3. StateOK'
    BY <1>1, <2>1, <2>2 DEF StateOK
  <2>4. OnTheirMounts'
    BY <1>1, <2>1 DEF OnTheirMounts
  <2> QED
    BY <1>1, <2>1, <2>3, <2>4 DEF IInv
<1>4. CASE ProcessStep
  <2>1. UNCHANGED <<tree, len>>
    BY <1>4 DEF ProcessStep
  <2>2. cwd' \in Path /\ exe' \in Programs
    BY <1>1, <1>4, Constants DEF ProcessStep, StateOK
  <2>3. fds' \in [Fd -> Descriptions] /\ \A f \in Fd : fds'[f] = fds[f] \/ fds'[f] = Closed
    <3>1. fds \in [Fd -> Descriptions] /\ Closed \in Descriptions
      BY <1>1 DEF StateOK, Descriptions
    <3>2. UNCHANGED fds \/ \E f \in Fd : fds' = [fds EXCEPT ![f] = Closed]
      BY <1>4 DEF ProcessStep
    <3> QED
      BY <3>1, <3>2
  <2>4. StateOK'
    BY <1>1, <2>1, <2>2, <2>3 DEF StateOK
  <2>5. OnTheirMounts'
    <3>1. Closed.is # "file"
      BY DEF Closed
    <3>2. \A f \in Fd : fds'[f].is = "file" => fds'[f] = fds[f]
      BY <2>3, <3>1
    <3> QED
      BY <1>1, <2>1, <3>2 DEF OnTheirMounts
  <2> QED
    BY <1>1, <2>1, <2>4, <2>5 DEF IInv
<1> QED
  BY <1>2, <1>3, <1>4

LEMMA StepsKeepInvariant ==
    IInv /\ [Next]_vars => IInv'
<1> SUFFICES ASSUME IInv, [Next]_vars PROVE IInv'
  OBVIOUS
<1>1. AnyStep
  BY StepKinds DEF IInv
<1> QED
  BY <1>1, MakeKeeps, RemoveKeeps, RenameKeeps, OpenKeeps, CreateKeeps, HandleKeeps,
     OtherStepsKeep DEF AnyStep

LEMMA InvariantHolds ==
    Spec => []IInv
  BY Initially, StepsKeepInvariant, PTL DEF Spec

-----------------------------------------------------------------------------
(* 7. Theorems.                                                            *)

(* Every tree is a tree, with directories above whatever has a name, and   *)
(* descriptors hold files of the table, directories or what the kernel     *)
(* generates, whichever calls are made.                                    *)
THEOREM FilesTyped ==
    Spec => []TypeOK
<1>1. IInv => TypeOK
  <2> SUFFICES ASSUME IInv PROVE TypeOK
    OBVIOUS
  <2>1. \A m \in MountPoints : WellFormed(tree[m]) /\ \A p \in DOMAIN tree[m] : tree[m][p] \in Nodes
    BY DEF IInv, StateOK, IsTree
  <2>2. ASSUME NEW f \in Fd
        PROVE  fds[f] = Closed \/ fds[f].is \in {"dir", "other"}
               \/ (fds[f].is = "file" /\ fds[f].id \in FileIds /\ fds[f].pos \in 0 .. MaxLen)
    <3>1. fds[f] \in Descriptions
      BY DEF IInv, StateOK
    <3>2. fds[f] \in FileHandles => fds[f].id \in FileIds /\ fds[f].pos \in 0 .. MaxLen
      BY DEF FileHandles
    <3> QED
      BY <3>1, <3>2, DescriptionFields
  <2> QED
    BY <2>1, <2>2 DEF TypeOK, IInv, StateOK
<1> QED
  BY <1>1, InvariantHolds, PTL

(* Each file has one name at most, and what is done through a descriptor   *)
(* is done on the mount the file has its name on.  (The checks for mounts  *)
(* that are read-only look at the mount alone.)                            *)
THEOREM FilesHaveOneName ==
    Spec => [](NamedOnce(tree) /\ OnTheirMounts)
<1>1. IInv => NamedOnce(tree) /\ OnTheirMounts
  BY DEF IInv
<1> QED
  BY <1>1, InvariantHolds, PTL

LEMMA StepsLeaveReadOnly ==
    ASSUME IInv, [Next]_vars, NEW m \in ReadOnly
    PROVE  /\ tree'[m] = tree[m]
           /\ \A p \in DOMAIN tree[m] : tree[m][p].is = "file" =>
                  len'[tree[m][p].id] = len[tree[m][p].id]
<1>1. AnyStep /\ StateOK /\ NamedOnce(tree) /\ OnTheirMounts /\ m \in MountPoints
  BY StepKinds, Constants DEF IInv
<1>2. \A p \in DOMAIN tree[m] : tree[m][p].is = "file" =>
          tree[m][p].id \in FileIds /\ tree[m][p] = File(tree[m][p].id)
  BY <1>1, NodesApart DEF StateOK, IsTree
<1>3. ASSUME NEW n, Writable(n), NEW u, tree' = [tree EXCEPT ![n.mount] = u]
      PROVE  tree'[m] = tree[m]
  <2>1. tree = [k \in MountPoints |-> tree[k]] /\ n.mount # m
    BY <1>1, <1>3 DEF StateOK, Writable
  <2>2. tree' = [k \in MountPoints |-> IF k = n.mount THEN u ELSE tree[k]]
    BY <1>3, <2>1, Zenon
  <2> QED
    BY <1>1, <2>1, <2>2
<1>4. CASE Same
  BY <1>4 DEF Same
<1>5. CASE MakeStep \/ RemoveStep \/ RenameStep
  <2>1. UNCHANGED len
    BY <1>5 DEF MakeStep, RemoveStep, RenameStep
  <2>2. tree'[m] = tree[m]
    BY <1>3, <1>5 DEF MakeStep, RemoveStep, RenameStep
  <2> QED
    BY <2>1, <2>2
<1>6. CASE OpenStep
  <2>1. PICK d \in Descriptions :
           /\ UNCHANGED tree
           /\ \/ UNCHANGED len
              \/ /\ \E p \in DOMAIN tree[d.mount] : tree[d.mount][p] = File(d.id)
                 /\ d.is = "file" /\ d.mount \notin ReadOnly /\ len' = [len EXCEPT ![d.id] = 0]
    BY <1>6 DEF OpenStep
  <2>2. CASE UNCHANGED len
    BY <2>1, <2>2
  <2>3. CASE ~UNCHANGED len
    <3>1. PICK q \in DOMAIN tree[d.mount] : tree[d.mount][q] = File(d.id)
      BY <2>1, <2>3
    <3>2. d.mount \in MountPoints /\ d.mount # m
      BY <2>1, <2>3, DescriptionFields DEF FileHandles
    <3>3. ASSUME NEW p \in DOMAIN tree[m], tree[m][p].is = "file"
          PROVE  len'[tree[m][p].id] = len[tree[m][p].id]
      <4>1. tree[m][p].id # d.id
        <5>1. CASE tree[m][p].id = d.id
          <6>1. tree[m][p] = tree[d.mount][q]
            BY <1>2, <3>1, <3>3, <5>1
          <6> QED
            BY <1>1, <3>2, <3>3, <6>1 DEF NamedOnce
        <5> QED
          BY <5>1
      <4>2. len' = [len EXCEPT ![d.id] = 0] /\ 0 \in 0 .. MaxLen
        BY <2>1, <2>3, Constants
      <4> QED
        BY <1>1, <1>2, <3>3, <4>1, <4>2, LengthKeepsType
    <3> QED
      BY <2>1, <3>3
  <2> QED
    BY <2>2, <2>3
<1>7. CASE CreateStep
  <2>1. PICK n : \E d \in FileHandles :
           /\ Writable(n) /\ d.id \in FreeIds
           /\ tree' = [tree EXCEPT ![n.mount] = Put(tree[n.mount], n.rel, File(d.id))]
           /\ len' = [len EXCEPT ![d.id] = 0]
    BY <1>7 DEF CreateStep
  <2>2. PICK d \in FileHandles :
           /\ Writable(n) /\ d.id \in FreeIds
           /\ tree' = [tree EXCEPT ![n.mount] = Put(tree[n.mount], n.rel, File(d.id))]
           /\ len' = [len EXCEPT ![d.id] = 0]
    BY <2>1
  <2>3. tree'[m] = tree[m]
    BY <1>3, <2>2
  <2>4. 0 \in 0 .. MaxLen
    BY Constants
  <2> QED
    BY <1>1, <1>2, <2>2, <2>3, <2>4, FreeIdsAreFree, LengthKeepsType
<1>8. CASE HandleStep
  <2>1. PICK f \in Fd :
           /\ fds[f].is = "file" /\ UNCHANGED tree
           /\ \/ UNCHANGED len
              \/ fds[f].mount \notin ReadOnly
                 /\ \E k \in 0 .. MaxLen : len' = [len EXCEPT ![fds[f].id] = k]
    BY <1>8 DEF HandleStep
  <2>2. ASSUME NEW k \in 0 .. MaxLen, fds[f].mount \notin ReadOnly,
               len' = [len EXCEPT ![fds[f].id] = k],
               NEW p \in DOMAIN tree[m], tree[m][p].is = "file"
        PROVE  len'[tree[m][p].id] = len[tree[m][p].id]
    <3>1. tree[m][p].id # fds[f].id
      BY <1>1, <1>2, <2>1, <2>2 DEF OnTheirMounts
    <3> QED
      BY <1>1, <1>2, <2>2, <3>1, LengthKeepsType
  <2> QED
    BY <2>1, <2>2
<1>9. CASE TruncateStep
  <2>1. PICK k \in MountPoints \ ReadOnly :
           \E q \in DOMAIN tree[k] : \E l \in 0 .. MaxLen :
               /\ tree[k][q].is = "file" /\ len' = [len EXCEPT ![tree[k][q].id] = l]
               /\ UNCHANGED tree
    BY <1>9 DEF TruncateStep
  <2>2. PICK q \in DOMAIN tree[k] : \E l \in 0 .. MaxLen :
               /\ tree[k][q].is = "file" /\ len' = [len EXCEPT ![tree[k][q].id] = l]
               /\ UNCHANGED tree
    BY <2>1
  <2>3. PICK l \in 0 .. MaxLen :
               /\ tree[k][q].is = "file" /\ len' = [len EXCEPT ![tree[k][q].id] = l]
               /\ UNCHANGED tree
    BY <2>2
  <2>4. ASSUME NEW p \in DOMAIN tree[m], tree[m][p].is = "file"
        PROVE  len'[tree[m][p].id] = len[tree[m][p].id]
    <3>1. tree[k][q] = File(tree[k][q].id)
      BY <1>1, <2>3, NodesApart DEF StateOK, IsTree
    <3>2. tree[m][p].id # tree[k][q].id
      <4>1. CASE tree[m][p].id = tree[k][q].id
        <5>1. tree[m][p] = tree[k][q]
          BY <1>2, <2>4, <3>1, <4>1
        <5> QED
          BY <1>1, <2>4, <5>1 DEF NamedOnce
      <4> QED
        BY <4>1
    <3> QED
      BY <1>1, <1>2, <2>3, <2>4, <3>2, LengthKeepsType
  <2> QED
    BY <2>3, <2>4
<1>10. CASE ProcessStep
  BY <1>10 DEF ProcessStep
<1> QED
  BY <1>1, <1>4, <1>5, <1>6, <1>7, <1>8, <1>9, <1>10 DEF AnyStep

(* A mount that is read-only stays as it was, on whatever path and through *)
(* whatever descriptor it is reached.                                      *)
THEOREM ReadOnlyMountsStay ==
    Spec => ReadOnlyStays
<1>1. IInv /\ [Next]_vars =>
          [\A m \in ReadOnly : /\ tree'[m] = tree[m]
                               /\ \A p \in DOMAIN tree[m] : tree[m][p].is = "file" =>
                                      len'[tree[m][p].id] = len[tree[m][p].id]]_vars
  BY StepsLeaveReadOnly
<1> QED
  BY <1>1, InvariantHolds, PTL DEF Spec, ReadOnlyStays

LEMMA RestrictSelf ==
    ASSUME NEW t, IsTree(t)
    PROVE  Restrict(t, DOMAIN t) = t
  BY DEF IsTree, Restrict

LEMMA RefusalsChangeNothing ==
    ASSUME IInv, [Next]_vars, last' \notin Succeeded
    PROVE  /\ UNCHANGED <<fds, cwd, exe>>
           /\ last' # "MFILE" => UNCHANGED <<tree, len>>
           /\ \A m \in MountPoints : Restrict(tree'[m], DOMAIN tree[m]) = tree[m]
           /\ \A id \in FileIds : len'[id] \in {0, len[id]}
<1>1. AnyStep /\ StateOK /\ \A m \in MountPoints : IsTree(tree[m])
  BY StepKinds DEF IInv, StateOK
<1>2. \A m \in MountPoints : Restrict(tree[m], DOMAIN tree[m]) = tree[m]
  BY <1>1, RestrictSelf
<1>3. CASE Same
  BY <1>2, <1>3 DEF Same
<1>4. CASE OpenStep
  <2>1. PICK d \in Descriptions :
           /\ Opens(d) /\ UNCHANGED <<tree, cwd, exe>>
           /\ UNCHANGED len \/ len' = [len EXCEPT ![d.id] = 0]
    BY <1>4 DEF OpenStep
  <2>2. last' = "MFILE" /\ UNCHANGED fds
    BY <2>1 DEF Opens, Succeeded
  <2>3. \A id \in FileIds : len'[id] \in {0, len[id]}
    <3>1. len \in [FileIds -> 0 .. MaxLen]
      BY <1>1 DEF StateOK
    <3> QED
      BY <2>1, <3>1
  <2> QED
    BY <1>2, <2>1, <2>2, <2>3
<1>5. CASE CreateStep
  <2>1. PICK n : \E d \in FileHandles :
           /\ Writable(n) /\ Opens(d) /\ UNCHANGED <<cwd, exe>>
           /\ n.rel \notin DOMAIN tree[n.mount]
           /\ tree' = [tree EXCEPT ![n.mount] = Put(tree[n.mount], n.rel, File(d.id))]
           /\ len' = [len EXCEPT ![d.id] = 0]
    BY <1>5 DEF CreateStep
  <2>2. PICK d \in FileHandles :
           /\ Writable(n) /\ Opens(d) /\ UNCHANGED <<cwd, exe>>
           /\ n.rel \notin DOMAIN tree[n.mount]
           /\ tree' = [tree EXCEPT ![n.mount] = Put(tree[n.mount], n.rel, File(d.id))]
           /\ len' = [len EXCEPT ![d.id] = 0]
    BY <2>1
  <2>3. last' = "MFILE" /\ UNCHANGED fds
    BY <2>2 DEF Opens, Succeeded
  <2>4. \A id \in FileIds : len'[id] \in {0, len[id]}
    <3>1. len \in [FileIds -> 0 .. MaxLen]
      BY <1>1 DEF StateOK
    <3> QED
      BY <2>2, <3>1
  <2>5. n.mount \in MountPoints /\ IsTree(tree[n.mount])
    BY <2>2, WritableTree
  <2> DEFINE t == tree[n.mount]
             u == Put(t, n.rel, File(d.id))
  <2>6. Restrict(u, DOMAIN t) = t
    <3>1. Restrict(u, DOMAIN t) = Restrict(t, DOMAIN t)
      <4>1. \A q \in DOMAIN t : u[q] = t[q]
        BY <2>2 DEF Put
      <4> HIDE DEF u, t
      <4> QED
        BY <4>1 DEF Restrict
    <3> QED
      BY <2>5, <3>1, RestrictSelf
  <2> HIDE DEF u
  <2>7. tree' = [k \in MountPoints |-> IF k = n.mount THEN u ELSE tree[k]]
    <3>1. tree = [k \in MountPoints |-> tree[k]]
      BY <1>1 DEF StateOK
    <3>2. tree' = [tree EXCEPT ![n.mount] = u]
      BY <2>2 DEF u
    <3> QED
      BY <3>1, <3>2, Zenon
  <2>8. \A m \in MountPoints : Restrict(tree'[m], DOMAIN tree[m]) = tree[m]
    BY <1>2, <2>6, <2>7
  <2> QED
    BY <2>2, <2>3, <2>4, <2>8
<1>6. ~(MakeStep \/ RemoveStep \/ RenameStep \/ HandleStep \/ TruncateStep \/ ProcessStep)
  BY DEF MakeStep, RemoveStep, RenameStep, HandleStep, TruncateStep, ProcessStep, Succeeded
<1> QED
  BY <1>1, <1>3, <1>4, <1>5, <1>6 DEF AnyStep

(* A call that is refused has changed nothing, rename included, which puts *)
(* back what it took out; openat, when there is no descriptor left, leaves *)
(* a file it created or emptied, and nothing else.                         *)
THEOREM RefusalsLeaveEverything ==
    Spec => RefusedCallsChangeNothing
<1>1. IInv /\ [Next]_vars =>
          [last' \notin Succeeded =>
              /\ UNCHANGED <<fds, cwd, exe>>
              /\ last' # "MFILE" => UNCHANGED <<tree, len>>
              /\ \A m \in MountPoints : Restrict(tree'[m], DOMAIN tree[m]) = tree[m]
              /\ \A id \in FileIds : len'[id] \in {0, len[id]}]_vars
  BY RefusalsChangeNothing
<1> QED
  BY <1>1, InvariantHolds, PTL DEF Spec, RefusedCallsChangeNothing

(* What a file loses its name to.                                          *)
Lost(id) == id \in Named(tree) \ Named(tree')
LostToUnlink(id) == last' = "unlinkat" /\ Named(tree) \ Named(tree') = {id}
LostToRename(id) ==
    /\ last' = "renameat"
    /\ \E m \in MountPoints :
           \E p \in DOMAIN tree[m], from \in DOMAIN tree[m], to \in DOMAIN tree'[m] :
               /\ tree[m][p] = File(id) /\ IsPrefix(to, p)
               /\ from # to /\ tree'[m][to] = tree[m][from]
               /\ from \in DOMAIN tree'[m] => IsPrefix(to, from)

LEMMA NamedIff ==
    ASSUME NEW trees, NEW id
    PROVE  id \in Named(trees) <=>
               \E m \in MountPoints : \E p \in DOMAIN trees[m] :
                   trees[m][p].is = "file" /\ trees[m][p].id = id
  BY DEF Named, FilesOf

(* Where a name that is lost has been, on the one mount that changed.      *)
WasAt(p, t, u, id) == p \in DOMAIN t /\ t[p] = File(id) /\ \A q \in DOMAIN u : u[q] # t[p]
LEMMA LostOnMount ==
    ASSUME StateOK, NEW m \in MountPoints, NEW u, IsTree(u), tree' = [tree EXCEPT ![m] = u],
           NEW id, Lost(id)
    PROVE  \E p : WasAt(p, tree[m], u, id)
<1>1. tree'[m] = u /\ \A k \in MountPoints \ {m} : tree'[k] = tree[k]
  BY TreesAfter
<1>2. PICK k \in MountPoints : \E p \in DOMAIN tree[k] : tree[k][p].is = "file" /\ tree[k][p].id = id
  BY NamedIff DEF Lost
<1>3. PICK p \in DOMAIN tree[k] : tree[k][p].is = "file" /\ tree[k][p].id = id
  BY <1>2
<1>4. \A l \in MountPoints : \A q \in DOMAIN tree'[l] :
          ~(tree'[l][q].is = "file" /\ tree'[l][q].id = id)
  BY NamedIff DEF Lost
<1>5. k = m
  BY <1>1, <1>3, <1>4
<1>6. tree[m][p] = File(id)
  BY <1>3, <1>5, NodesApart DEF StateOK, IsTree
<1>7. \A q \in DOMAIN u : u[q] # tree[m][p]
  BY <1>1, <1>3, <1>4, <1>5
<1> QED
  BY <1>3, <1>5, <1>6, <1>7 DEF WasAt

LEMMA UnlinkLosesOne ==
    ASSUME IInv, RemoveStep, NEW id, Lost(id)
    PROVE  LostToUnlink(id)
<1>1. PICK n :
         /\ Writable(n) /\ n.rel # <<>> /\ n.rel \in DOMAIN tree[n.mount]
         /\ \A q \in DOMAIN tree[n.mount] : IsPrefix(n.rel, q) => q = n.rel
         /\ tree' = [tree EXCEPT ![n.mount] = Cut(tree[n.mount], n.rel)]
         /\ last' = "unlinkat"
  BY DEF RemoveStep
<1> DEFINE t == tree[n.mount]
           u == Cut(t, n.rel)
<1>2. n.mount \in MountPoints /\ n.rel \in Path /\ IsTree(t) /\ StateOK
  BY <1>1, WritableTree DEF IInv
<1>3. /\ IsTree(u) /\ DOMAIN u = {q \in DOMAIN t : ~IsPrefix(n.rel, q)}
      /\ \A q \in DOMAIN u : u[q] = t[q]
  BY <1>1, <1>2, CutTree
<1> HIDE DEF u
<1>4. tree' = [tree EXCEPT ![n.mount] = u]
  BY <1>1 DEF u
<1>5. ASSUME NEW i, Lost(i) PROVE t[n.rel] = File(i)
  <2>1. PICK p \in DOMAIN t : t[p] = File(i) /\ \A q \in DOMAIN u : u[q] # t[p]
    <3> DEFINE m == n.mount
    <3>1. m \in MountPoints /\ IsTree(u) /\ tree' = [tree EXCEPT ![m] = u] /\ t = tree[m]
      BY <1>2, <1>3, <1>4
    <3> HIDE DEF m, t
    <3>2. \E p : WasAt(p, tree[m], u, i)
      BY <1>2, <1>5, <3>1, LostOnMount
    <3> QED
      BY <3>1, <3>2 DEF WasAt
  <2>2. p \notin DOMAIN u
    BY <1>3, <2>1
  <2>3. p = n.rel
    BY <1>1, <1>3, <2>1, <2>2
  <2> QED
    BY <2>1, <2>3
<1>6. ASSUME NEW i, Lost(i) PROVE i = id
  <2>1. File(i) = File(id)
    BY <1>5, <1>6
  <2>2. File(i).id = i /\ File(id).id = id
    BY DEF File
  <2> QED
    BY <2>1, <2>2
<1>7. Named(tree) \ Named(tree') = {id}
  BY <1>6 DEF Lost
<1> QED
  BY <1>1, <1>7 DEF LostToUnlink

LEMMA RenameLosesWhatWasThere ==
    ASSUME IInv, RenameStep, NEW id, Lost(id)
    PROVE  LostToRename(id)
<1>1. PICK n, k :
         /\ n.mount \in MountPoints /\ n.rel \in Path /\ k.rel \in Path
         /\ IsTree(tree[n.mount])
         /\ n.rel # <<>> /\ n.rel \in DOMAIN tree[n.mount] /\ k.rel # <<>>
         /\ Front(k.rel) \in DOMAIN Cut(tree[n.mount], n.rel)
         /\ Cut(tree[n.mount], n.rel)[Front(k.rel)] = Dir
         /\ IsGraft(Moved(tree[n.mount], n.rel, k.rel), Cut(tree[n.mount], n.rel), k.rel,
                    tree[n.mount], n.rel)
         /\ tree' = [tree EXCEPT ![n.mount] = Moved(tree[n.mount], n.rel, k.rel)]
         /\ last' = "renameat"
  BY RenameFacts
<1> DEFINE m == n.mount
           t == tree[m]
           from == n.rel
           to == k.rel
           u == Moved(t, from, to)
           rest == Cut(t, from)
<1>2. /\ m \in MountPoints /\ IsTree(t) /\ from \in Path /\ from # <<>> /\ from \in DOMAIN t
      /\ to \in Path /\ to # <<>> /\ Front(to) \in DOMAIN rest /\ rest[Front(to)] = Dir
      /\ IsGraft(u, rest, to, t, from)
      /\ tree' = [tree EXCEPT ![m] = u] /\ last' = "renameat"
      /\ t = tree[m] /\ u = Moved(t, from, to) /\ rest = Cut(t, from)
  BY <1>1
<1> HIDE DEF m, t, from, to, u, rest
<1>3. /\ DOMAIN rest = {q \in DOMAIN t : ~IsPrefix(from, q)}
      /\ \A q \in DOMAIN rest : rest[q] = t[q]
  BY <1>2, CutTree
<1>4. /\ IsTree(u)
      /\ DOMAIN u = {q \in DOMAIN rest : ~IsPrefix(to, q)}
                        \cup {to \o s : s \in {r \in Path : from \o r \in DOMAIN t}}
      /\ \A q \in DOMAIN u : ~IsPrefix(to, q) => u[q] = rest[q]
      /\ \A s \in Path : from \o s \in DOMAIN t => u[to \o s] = t[from \o s]
  BY <1>2 DEF IsGraft
<1>5. StateOK /\ tree'[m] = u
  BY <1>2, <1>4, TreesAfter DEF IInv
<1>6. PICK p \in DOMAIN t : t[p] = File(id) /\ \A q \in DOMAIN u : u[q] # t[p]
  <2>1. m \in MountPoints /\ IsTree(u) /\ tree' = [tree EXCEPT ![m] = u]
    BY <1>2, <1>4
  <2>2. \E p : WasAt(p, tree[m], u, id)
    BY <1>5, <2>1, LostOnMount
  <2> QED
    BY <1>2, <2>2 DEF WasAt
<1>7. p \in Path
  BY <1>2, <1>6, TreeFacts
<1>8. ~IsPrefix(from, p)
  <2>1. ASSUME IsPrefix(from, p) PROVE FALSE
    <3>1. PICK s \in Path : p = from \o s
      BY <1>2, <1>7, <2>1, PrefixIffJoined
    <3> QED
      BY <1>4, <1>6, <3>1
  <2> QED
    BY <2>1
<1>9. IsPrefix(to, p)
  BY <1>3, <1>4, <1>6, <1>8
<1>10. to \in DOMAIN u /\ u[to] = t[from]
  <2>1. from \o <<>> = from /\ to \o <<>> = to /\ <<>> \in Path
    BY <1>2, PathLength, EmptyIsPath
  <2> QED
    BY <1>2, <1>4, <2>1
<1>11. from # to
  BY <1>8, <1>9
<1>12. from \in DOMAIN u => IsPrefix(to, from)
  <2>1. IsPrefix(from, from)
    BY <1>2, PrefixOrder
  <2>2. \A s \in Path : IsPrefix(to, to \o s)
    BY <1>2, BelowOfJoined
  <2> QED
    BY <1>3, <1>4, <2>1, <2>2
<1> QED
  BY <1>2, <1>5, <1>6, <1>9, <1>10, <1>11, <1>12 DEF LostToRename

LEMMA PutLosesNothing ==
    ASSUME StateOK, NEW n, Writable(n), n.rel # <<>>, n.rel \notin DOMAIN tree[n.mount],
           Front(n.rel) \in DOMAIN tree[n.mount], tree[n.mount][Front(n.rel)] = Dir,
           NEW node \in Nodes,
           tree' = [tree EXCEPT ![n.mount] = Put(tree[n.mount], n.rel, node)], NEW id
    PROVE  ~Lost(id)
<1> DEFINE m == n.mount
           t == tree[m]
           p == n.rel
           u == Put(t, p, node)
<1>1. /\ m \in MountPoints /\ p \in Path /\ IsTree(t) /\ p # <<>> /\ p \notin DOMAIN t
      /\ Front(p) \in DOMAIN t /\ t[Front(p)] = Dir
      /\ tree' = [tree EXCEPT ![m] = u] /\ t = tree[m]
  BY TreeOfResult DEF Writable
<1> HIDE DEF m, p, t
<1>2. /\ IsTree(u) /\ DOMAIN u = DOMAIN t \cup {p}
      /\ \A q \in DOMAIN t : u[q] = t[q]
  <2>1. \A n2 \in Nodes :
           /\ IsTree(Put(t, p, n2)) /\ DOMAIN Put(t, p, n2) = DOMAIN t \cup {p}
           /\ \A q \in DOMAIN t : Put(t, p, n2)[q] = t[q]
    <3> TAKE n2 \in Nodes
    <3>1. /\ IsTree(t) /\ p \in Path /\ p # <<>> /\ p \notin DOMAIN t
          /\ Front(p) \in DOMAIN t /\ t[Front(p)] = Dir /\ n2 \in Nodes
      BY <1>1
    <3> QED
      BY ONLY <3>1, PutTree, ZenonT(60)
  <2> QED
    BY <2>1
<1> HIDE DEF u
<1>3. ASSUME Lost(id) PROVE FALSE
  <2>1. PICK q : WasAt(q, tree[m], u, id)
    BY <1>1, <1>2, <1>3, LostOnMount
  <2> QED
    BY <1>1, <1>2, <2>1 DEF WasAt
<1> QED
  BY <1>3

LEMMA NamesAreLostTwoWays ==
    ASSUME IInv, [Next]_vars, NEW id, Lost(id)
    PROVE  LostToUnlink(id) \/ LostToRename(id)
<1>1. AnyStep /\ StateOK
  BY StepKinds DEF IInv
<1>2. ASSUME UNCHANGED tree PROVE FALSE
  BY <1>2 DEF Lost
<1>3. CASE MakeStep
  <2>1. PICK n : \E node \in Nodes :
           /\ Writable(n) /\ n.rel # <<>> /\ n.rel \notin DOMAIN tree[n.mount]
           /\ Front(n.rel) \in DOMAIN tree[n.mount] /\ tree[n.mount][Front(n.rel)] = Dir
           /\ tree' = [tree EXCEPT ![n.mount] = Put(tree[n.mount], n.rel, node)]
    BY <1>3 DEF MakeStep
  <2> QED
    BY <1>1, <2>1, PutLosesNothing
<1>4. CASE CreateStep
  <2>1. PICK n : \E d \in FileHandles :
           /\ Writable(n) /\ n.rel # <<>> /\ n.rel \notin DOMAIN tree[n.mount]
           /\ Front(n.rel) \in DOMAIN tree[n.mount] /\ tree[n.mount][Front(n.rel)] = Dir
           /\ tree' = [tree EXCEPT ![n.mount] = Put(tree[n.mount], n.rel, File(d.id))]
    BY <1>4 DEF CreateStep
  <2>2. \A d \in FileHandles : File(d.id) \in Nodes
    BY DEF FileHandles, Nodes
  <2> QED
    BY <1>1, <2>1, <2>2, PutLosesNothing
<1>5. CASE RemoveStep
  BY <1>5, UnlinkLosesOne
<1>6. CASE RenameStep
  BY <1>6, RenameLosesWhatWasThere
<1>7. CASE Same \/ OpenStep \/ HandleStep \/ TruncateStep \/ ProcessStep
  <2>1. UNCHANGED tree
    BY <1>7 DEF Same, OpenStep, HandleStep, TruncateStep, ProcessStep
  <2> QED
    BY <1>2, <2>1
<1> QED
  BY <1>1, <1>3, <1>4, <1>5, <1>6, <1>7 DEF AnyStep

(* A file loses its name to an unlink of that name, or to a rename that    *)
(* puts something else where it, or a directory above it, was.             *)
THEOREM NamesStay ==
    Spec => FilesKeepTheirNames
<1>1. IInv /\ [Next]_vars =>
          [\A id \in Named(tree) \ Named(tree') :
              \/ last' = "unlinkat" /\ Named(tree) \ Named(tree') = {id}
              \/ /\ last' = "renameat"
                 /\ \E m \in MountPoints :
                        \E p \in DOMAIN tree[m], from \in DOMAIN tree[m], to \in DOMAIN tree'[m] :
                            /\ tree[m][p] = File(id) /\ IsPrefix(to, p)
                            /\ from # to /\ tree'[m][to] = tree[m][from]
                            /\ from \in DOMAIN tree'[m] => IsPrefix(to, from)]_vars
  BY NamesAreLostTwoWays DEF Lost, LostToUnlink, LostToRename
<1> QED
  BY <1>1, InvariantHolds, PTL DEF Spec, FilesKeepTheirNames

-----------------------------------------------------------------------------
(* 8. Programs stay where they are.                                        *)

LEMMA OverlayDirsArePaths ==
    ASSUME NEW d \in OverlayDirs
    PROVE  /\ d \in Path
           /\ \/ d \in {<<>>, <<"dev">>, <<"proc">>, <<"proc", "self">>}
              \/ \E p \in Programs : \E k \in 0 .. Len(p) - 1 : d = SubSeq(p, 1, k)
<1>1. \/ d \in {<<>>, <<"dev">>, <<"proc">>, <<"proc", "self">>}
      \/ \E p \in Programs : \E k \in 0 .. Len(p) - 1 : d = SubSeq(p, 1, k)
  BY DEF OverlayDirs
<1>2. CASE d \in {<<>>, <<"dev">>, <<"proc">>, <<"proc", "self">>}
  <2>1. {"dev", "proc", "self"} \subseteq Name
    BY DEF Name
  <2>2. <<"dev">> \in Path /\ <<"proc">> \in Path /\ <<"proc", "self">> \in Path
    BY <2>1 DEF Path
  <2> QED
    BY <1>2, <2>2, EmptyIsPath
<1>3. ASSUME NEW p \in Programs, NEW k \in 0 .. Len(p) - 1, d = SubSeq(p, 1, k)
      PROVE  d \in Path
  <2>1. p \in Path /\ Len(p) \in Nat
    BY Constants, PathLength
  <2>2. k \in 0 .. Len(p)
    BY <2>1
  <2> QED
    BY <1>3, <2>1, <2>2, PartOfPath
<1> QED
  BY <1>1, <1>2, <1>3

(* A path with the names of another, as far as it goes, is the beginning   *)
(* of it.                                                                  *)
LEMMA BeginningOf ==
    ASSUME NEW p \in Path, NEW q \in Path
    PROVE  /\ IsPrefix(p, q) => Len(p) <= Len(q) /\ p = SubSeq(q, 1, Len(p))
           /\ \A i \in 1 .. Len(p) : IsPrefix(p, q) => p[i] = q[i]
<1>1. Len(p) \in Nat /\ Len(q) \in Nat
  BY PathLength
<1>2. ASSUME IsPrefix(p, q)
      PROVE  Len(p) <= Len(q) /\ p = SubSeq(q, 1, Len(p))
  BY <1>2, SubSeqFull DEF IsPrefix, Path
<1>3. ASSUME IsPrefix(p, q), NEW i \in 1 .. Len(p) PROVE p[i] = q[i]
  <2>1. Len(p) \in 0 .. Len(q)
    BY <1>1, <1>2, <1>3
  <2>2. SubSeq(q, 1, Len(p))[i] = q[i]
    BY <2>1, PartOfPath
  <2> QED
    BY <1>2, <1>3, <2>2
<1> QED
  BY <1>2, <1>3

(* What is above a directory of the kernel's is one too. *)
LEMMA AboveProgram ==
    ASSUME NEW p \in Programs, NEW n \in 0 .. Len(p) - 1
    PROVE  SubSeq(p, 1, n) \in OverlayDirs
<1> DEFINE above(q) == {SubSeq(q, 1, k) : k \in 0 .. Len(q) - 1}
           all == {above(q) : q \in Programs}
<1>1. SubSeq(p, 1, n) \in above(p)
  OBVIOUS
<1>2. OverlayDirs = {<<>>, <<"dev">>, <<"proc">>, <<"proc", "self">>} \cup UNION all
  BY DEF OverlayDirs
<1> HIDE DEF above
<1>3. above(p) \in all
  OBVIOUS
<1> HIDE DEF all
<1> QED
  BY <1>1, <1>2, <1>3

LEMMA OverlayAbove ==
    ASSUME NEW d \in OverlayDirs, NEW p \in Path, IsPrefix(p, d)
    PROVE  p \in OverlayDirs
<1>1. d \in Path /\ Len(p) \in Nat /\ Len(p) <= Len(d) /\ p = SubSeq(d, 1, Len(p))
      /\ \A i \in 1 .. Len(p) : p[i] = d[i]
  BY OverlayDirsArePaths, BeginningOf, PathLength
<1>2. CASE p = <<>>
  BY <1>2 DEF OverlayDirs
<1>3. CASE d \in {<<>>, <<"dev">>, <<"proc">>, <<"proc", "self">>} /\ p # <<>>
  <2>1. Len(p) \in Nat \ {0}
    BY <1>1, <1>3, PathLength
  <2>2. CASE Len(d) = Len(p)
    <3>1. p = d
      BY <1>1, <2>2, PrefixOrder
    <3> QED
      BY <3>1
  <2>3. CASE Len(d) # Len(p)
    <3>1. d = <<"proc", "self">> /\ Len(p) = 1
      <4>1. Len(<<>>) = 0 /\ Len(<<"dev">>) = 1 /\ Len(<<"proc">>) = 1 /\ Len(<<"proc", "self">>) = 2
        OBVIOUS
      <4> QED
        BY <1>1, <1>3, <2>1, <2>3, <4>1
    <3>2. p = <<"proc">>
      <4>1. <<"proc">> \in Path /\ Len(<<"proc">>) = 1 /\ <<"proc">>[1] = "proc"
        BY DEF Path, Name
      <4>2. p[1] = "proc"
        BY <1>1, <3>1
      <4>3. \A i \in 1 .. 1 : p[i] = <<"proc">>[i]
        BY <4>1, <4>2
      <4> QED
        BY <3>1, <4>1, <4>3, SeqEqual DEF Path
    <3> QED
      BY <3>2 DEF OverlayDirs
  <2> QED
    BY <2>2, <2>3
<1>4. ASSUME NEW r \in Programs, NEW k \in 0 .. Len(r) - 1, d = SubSeq(r, 1, k)
      PROVE  p \in OverlayDirs
  <2>1. r \in Path /\ Len(r) \in Nat
    BY Constants, PathLength
  <2>2. k \in 0 .. Len(r)
    BY <2>1
  <2>3. Len(d) = k /\ \A i \in 1 .. k : d[i] = r[i]
    BY <1>4, <2>1, <2>2, PartOfPath
  <2>4. Len(p) \in 0 .. Len(r) /\ Len(p) \in 0 .. Len(r) - 1
    BY <1>1, <2>1, <2>3
  <2>5. /\ SubSeq(r, 1, Len(p)) \in Path /\ Len(SubSeq(r, 1, Len(p))) = Len(p)
        /\ \A i \in 1 .. Len(p) : SubSeq(r, 1, Len(p))[i] = r[i]
    BY <2>1, <2>4, PartOfPath
  <2>6. \A i \in 1 .. Len(p) : p[i] = SubSeq(r, 1, Len(p))[i]
    <3>1. \A i \in 1 .. Len(p) : i \in 1 .. k
      BY <1>1, <2>3
    <3> QED
      BY <1>1, <2>3, <2>5, <3>1
  <2>7. p = SubSeq(r, 1, Len(p))
    BY <2>5, <2>6, SeqEqual DEF Path
  <2> QED
    BY <2>4, <2>7, AboveProgram
<1> QED
  BY <1>2, <1>3, <1>4, OverlayDirsArePaths

(* What the calls take to be on a mount. *)
LEMMA ClassifiedOnMount ==
    ASSUME NEW p \in Path, NEW n, n = Classify(p)
    PROVE  /\ n.is # "kernel link"
           /\ n.is = "mounted" =>
                  /\ n = Mounted(MountOf(p), p) /\ p \notin Programs \cup Devices
                  /\ p # <<>> /\ IsOverlayDir(p) =>
                         Stat(tree[MountOf(p)], Below(MountOf(p), p), TRUE).is = "dir"
<1> DEFINE m == MountOf(p)
<1>1. n = IF p \in Programs THEN Program(p)
          ELSE IF p \in Devices THEN Device(p)
          ELSE IF OfProc(p) THEN ProcNode(p)
          ELSE IF p # <<>> /\ IsOverlayDir(p) /\ Stat(tree[m], Below(m, p), TRUE).is # "dir"
               THEN KernelDir(p) ELSE Mounted(m, p)
  BY DEF Classify
<1>2. /\ Program(p).is = "program" /\ Device(p).is = "device" /\ KernelDir(p).is = "kernel dir"
      /\ Mounted(m, p).is = "mounted"
  BY DEF Program, Device, KernelDir, Mounted
<1>3. OfProc(p) => ProcNode(p).is \notin {"mounted", "kernel link"}
  <2> DEFINE rest == InProc(p)
  <2>1. ProcNode(p) = CASE rest \in {<<"fd">>, <<"self">>} -> KernelDir(p)
          [] Len(rest) = 2 /\ rest[1] = "fd" -> Device(rest)
          [] Len(rest) = 1 /\ rest[1] \in ProcFiles \cup {"cmdline", "comm", "status"} -> Synth(p)
          [] OTHER -> Missing
    BY DEF ProcNode
  <2> HIDE DEF rest
  <2>2. ProcNode(p) \in {KernelDir(p), Device(rest), Synth(p), Missing}
    BY <2>1, Zenon
  <2>3. Device(rest).is = "device" /\ Synth(p).is = "synth" /\ Missing.is = "missing"
    BY DEF Device, Synth, Missing
  <2> QED
    BY <1>2, <2>2, <2>3
<1> QED
  BY <1>1, <1>2, <1>3

(* No call can be given a place on a mount that a directory of the         *)
(* kernel's is at or below: what such a path resolves to is not mounted.   *)
LEMMA ResultsLeaveRoom ==
    ASSUME NothingInTheWay(tree), NEW n, Writable(n), n.rel # <<>>, NEW d \in OverlayDirs,
           MountOf(d) = n.mount
    PROVE  ~IsPrefix(n.rel, Below(n.mount, d))
<1> SUFFICES ASSUME IsPrefix(n.rel, Below(n.mount, d)) PROVE FALSE
  OBVIOUS
<1>1. PICK p \in Path : OnMount(n, p)
  BY ResultFields DEF Writable
<1> DEFINE m == MountOf(p)
           rel == Below(m, p)
<1>2. n = Mounted(m, p) /\ n = Classify(p) /\ n.mount = m /\ n.rel = rel /\ n.is = "mounted"
  BY <1>1 DEF OnMount, Mounted
<1>3. m \in MountPoints /\ m \in Path /\ rel \in Path /\ p = m \o rel /\ p # <<>>
  <2>1. m \in MountPoints /\ m \in Path /\ rel \in Path /\ p = m \o rel
    BY MountOfPath
  <2> QED
    BY <1>2, <2>1, FrontOfJoined
<1>4. d \in Path /\ Below(m, d) \in Path /\ d = m \o Below(m, d)
  BY <1>2, OverlayDirsArePaths, MountOfPath
<1> HIDE DEF m, rel
<1>5. IsPrefix(p, d)
  <2> DEFINE b == Below(m, d)
             s == Below(rel, b)
  <2>1. b \in Path /\ s \in Path /\ b = rel \o s
    BY <1>2, <1>3, <1>4, JoinedBelow
  <2>2. d = m \o b
    BY <1>4
  <2> HIDE DEF b, s
  <2>3. d = p \o s
    <3>1. m \in Path /\ rel \in Path /\ s \in Path
      BY <1>3, <2>1
    <3>2. (m \o rel) \o s = m \o (rel \o s)
      BY ONLY <3>1, JoinedTwice
    <3> QED
      BY <1>3, <2>1, <2>2, <3>2
  <2> QED
    BY <2>1, <2>3, BelowOfJoined
<1>6. p \in OverlayDirs
  BY <1>5, OverlayAbove
<1>7. Stat(tree[m], rel, TRUE).is = "dir"
  <2>1. IsOverlayDir(p)
    BY <1>6 DEF IsOverlayDir
  <2> QED
    BY <1>2, <1>3, <2>1, ClassifiedOnMount DEF m, rel
<1>8. rel \notin DOMAIN tree[m]
  BY <1>2, <1>3, <1>6 DEF NothingInTheWay, m, rel
<1>9. Stat(tree[m], rel, TRUE) = Missing
  BY <1>8 DEF Stat, NodeAt, Missing
<1>10. Missing.is # "dir"
  BY DEF Missing
<1> QED
  BY <1>7, <1>9, <1>10

(* What a step adds to a mount is at or below what a path resolved to.     *)
LEMMA NamesAddedWhereAsked ==
    ASSUME IInv, [Next]_vars, NEW m \in MountPoints, NEW p \in DOMAIN tree'[m],
           p \notin DOMAIN tree[m]
    PROVE  \E n : Writable(n) /\ n.rel # <<>> /\ n.mount = m /\ IsPrefix(n.rel, p)
<1>1. AnyStep /\ StateOK
  BY StepKinds DEF IInv
<1>2. CASE UNCHANGED tree
  BY <1>2
<1>3. ASSUME NEW n, Writable(n), n.rel # <<>>, NEW node,
             tree' = [tree EXCEPT ![n.mount] = Put(tree[n.mount], n.rel, node)]
      PROVE  n.mount = m /\ IsPrefix(n.rel, p)
  <2>1. n.rel \in Path
    BY <1>3, ResultFields DEF Writable
  <2>2. n.mount = m
    BY <1>3
  <2>3. tree'[m] = Put(tree[m], n.rel, node)
    BY <1>1, <1>3, <2>2 DEF StateOK
  <2>4. p = n.rel
    BY <2>3 DEF Put
  <2> QED
    BY <2>1, <2>2, <2>4, PrefixOrder
<1>4. CASE MakeStep
  BY <1>3, <1>4 DEF MakeStep
<1>5. CASE CreateStep
  BY <1>3, <1>5 DEF CreateStep
<1>6. CASE RemoveStep
  <2>1. PICK n : Writable(n) /\ tree' = [tree EXCEPT ![n.mount] = Cut(tree[n.mount], n.rel)]
    BY <1>6 DEF RemoveStep
  <2>2. m = n.mount => tree'[m] = Cut(tree[m], n.rel)
    BY <1>1, <2>1 DEF StateOK
  <2>3. DOMAIN Cut(tree[m], n.rel) \subseteq DOMAIN tree[m]
    BY DEF Cut, Restrict
  <2> QED
    BY <2>1, <2>2, <2>3
<1>7. CASE RenameStep
  <2>1. PICK n, k :
           /\ Writable(n) /\ Writable(k) /\ k.mount = n.mount
           /\ n.mount \in MountPoints \ ReadOnly /\ n.rel \in Path /\ k.rel \in Path
           /\ IsTree(tree[n.mount]) /\ n.rel # <<>> /\ k.rel # <<>>
           /\ IsGraft(Moved(tree[n.mount], n.rel, k.rel), Cut(tree[n.mount], n.rel), k.rel,
                      tree[n.mount], n.rel)
           /\ tree' = [tree EXCEPT ![n.mount] = Moved(tree[n.mount], n.rel, k.rel)]
    BY <1>7, RenameFacts
  <2> DEFINE u == Moved(tree[n.mount], n.rel, k.rel)
             rest == Cut(tree[n.mount], n.rel)
  <2>2. IsGraft(u, rest, k.rel, tree[n.mount], n.rel) /\ tree' = [tree EXCEPT ![n.mount] = u]
    BY <2>1
  <2>3. DOMAIN rest \subseteq DOMAIN tree[n.mount]
    BY DEF Cut, Restrict
  <2> HIDE DEF u, rest
  <2>4. n.mount = m /\ tree'[m] = u
    BY <1>1, <2>2 DEF StateOK
  <2>5. p \in {k.rel \o s : s \in {r \in Path : n.rel \o r \in DOMAIN tree[m]}}
    BY <2>2, <2>3, <2>4 DEF IsGraft
  <2>6. PICK s \in Path : p = k.rel \o s
    BY <2>5
  <2>7. IsPrefix(k.rel, p)
    BY <2>1, <2>6, BelowOfJoined
  <2> QED
    BY <2>1, <2>4, <2>7
<1>8. CASE Same \/ OpenStep \/ HandleStep \/ TruncateStep \/ ProcessStep
  BY <1>2, <1>8 DEF Same, OpenStep, HandleStep, TruncateStep, ProcessStep
<1> QED
  BY <1>1, <1>4, <1>5, <1>6, <1>7, <1>8 DEF AnyStep

LEMMA NothingComesInTheWay ==
    ASSUME IInv, NothingInTheWay(tree), [Next]_vars
    PROVE  NothingInTheWay(tree')
<1> SUFFICES ASSUME NEW d \in OverlayDirs, Below(MountOf(d), d) # <<>>,
                    Below(MountOf(d), d) \in DOMAIN tree'[MountOf(d)]
             PROVE  FALSE
  BY DEF NothingInTheWay
<1> DEFINE m == MountOf(d)
           b == Below(m, d)
<1>1. m \in MountPoints
  BY OverlayDirsArePaths, MountOfPath
<1>2. b \notin DOMAIN tree[m] /\ b \in DOMAIN tree'[m]
  BY DEF NothingInTheWay
<1>3. m = MountOf(d) /\ b = Below(m, d)
  OBVIOUS
<1> HIDE DEF m, b
<1>4. PICK n : Writable(n) /\ n.rel # <<>> /\ n.mount = m /\ IsPrefix(n.rel, b)
  BY <1>1, <1>2, NamesAddedWhereAsked
<1> QED
  BY <1>3, <1>4, ResultsLeaveRoom

(* A path without ".", ".." and "/" is itself, wherever one is.            *)
(* Names that a path keeps are put one after the other. *)
Plain(p) == \A i \in 1 .. Len(p) : p[i] \notin {"/", ".", ".."}

LEMMA OneMoreName ==
    ASSUME NEW p \in Path, Plain(p), NEW n \in Nat, n + 1 <= Len(p)
    PROVE  Under(SubSeq(p, 1, n), p[n + 1]) = SubSeq(p, 1, n + 1)
<1> DEFINE a == SubSeq(p, 1, n)
           b == SubSeq(p, 1, n + 1)
           c == Append(a, p[n + 1])
<1>1. Len(p) \in Nat
  BY PathLength
<1>2. n + 1 \in 1 .. Len(p) /\ n \in 0 .. Len(p) /\ n + 1 \in 0 .. Len(p)
  BY <1>1
<1>3. Under(a, p[n + 1]) = c
  BY <1>2 DEF Under, Plain
<1>4. /\ a \in Path /\ Len(a) = n /\ \A k \in 1 .. n : a[k] = p[k]
      /\ b \in Path /\ Len(b) = n + 1 /\ \A k \in 1 .. n + 1 : b[k] = p[k]
  BY <1>2, PartOfPath
<1>5. p[n + 1] \in Name
  BY <1>2, ElementOfSeq DEF Path
<1> HIDE DEF a, b
<1>6. /\ c \in Path /\ Len(c) = n + 1
      /\ \A k \in 1 .. n : c[k] = a[k]
      /\ c[n + 1] = p[n + 1]
  BY <1>4, <1>5, AppendProperties DEF Path
<1> HIDE DEF c
<1>7. \A k \in 1 .. n + 1 : c[k] = b[k]
  <2>1. \A k \in 1 .. n + 1 : k \in 1 .. n \/ k = n + 1
    OBVIOUS
  <2> QED
    BY <1>4, <1>6, <2>1
<1>8. c = b
  BY <1>4, <1>6, <1>7, SeqEqual DEF Path
<1> QED
  BY <1>3, <1>8 DEF a, b

LEMMA SpelledOut ==
    ASSUME NEW base \in Path, NEW p \in Path,
           Plain(p)
    PROVE  Normalize(base, <<"/">> \o p) = p
<1> DEFINE path == <<"/">> \o p
<1>1. /\ path \in Path /\ Len(path) = 1 + Len(p) /\ path # <<>> /\ path[1] = "/"
      /\ \A i \in 1 .. Len(p) : path[i + 1] = p[i]
  <2>1. "/" \in Name
    BY DEF Name
  <2> QED
    BY <2>1, NamesArePaths
<1> HIDE DEF path
<1>2. Normalize(base, path) = Folded(path)
  BY <1>1 DEF Normalize, Absolute
<1>3. PICK g \in [0 .. Len(path) -> Path] :
         /\ Folded(path) = g[Len(path)]
         /\ g[0] = <<>>
         /\ \A n \in 1 .. Len(path) : g[n] = Under(g[n - 1], path[n])
  BY <1>1, FoldedUnfolds
<1>4. Len(p) \in Nat
  BY PathLength
<1> DEFINE S == {n \in Nat : n <= Len(p) => g[n + 1] = SubSeq(p, 1, n)}
<1>5. 0 \in S
  <2>1. 1 \in 1 .. Len(path) /\ 1 - 1 = 0
    BY <1>1, <1>4
  <2>2. g[1] = Under(<<>>, "/")
    BY <1>1, <1>3, <2>1
  <2>3. g[1] = <<>>
    BY <2>2 DEF Under
  <2>4. SubSeq(p, 1, 0) = <<>>
    <3>1. 0 \in 0 .. Len(p)
      BY <1>4
    <3> QED
      BY <3>1, PartOfPath, PathLength
  <2>5. 0 + 1 = 1
    OBVIOUS
  <2> QED
    BY <2>3, <2>4, <2>5
<1>6. ASSUME NEW n \in Nat, n \in S, n + 1 <= Len(p) PROVE g[n + 2] = SubSeq(p, 1, n + 1)
  <2>1. g[n + 1] = SubSeq(p, 1, n)
    BY <1>4, <1>6
  <2>2. n + 2 \in 1 .. Len(path) /\ (n + 2) - 1 = n + 1 /\ n + 1 \in 1 .. Len(p)
        /\ (n + 1) + 1 = n + 2
    BY <1>1, <1>4, <1>6
  <2>3. g[n + 2] = Under(g[n + 1], p[n + 1])
    BY <1>1, <1>3, <2>2
  <2> QED
    BY <1>6, <2>1, <2>3, OneMoreName
<1>7. \A n \in Nat : n \in S => n + 1 \in S
  <2>1. \A n \in Nat : (n + 1) + 1 = n + 2
    OBVIOUS
  <2> QED
    BY <1>6, <2>1
<1> HIDE DEF S
<1>8. Len(p) \in S
  BY <1>4, <1>5, <1>7, Induction
<1>9. g[Len(p) + 1] = SubSeq(p, 1, Len(p))
  BY <1>4, <1>8 DEF S
<1>10. Len(path) = Len(p) + 1
  BY <1>1, <1>4
<1>11. SubSeq(p, 1, Len(p)) = p
  BY SubSeqFull DEF Path
<1> QED
  BY <1>2, <1>3, <1>9, <1>10, <1>11 DEF path

(* A walk that has come to its end after one hop stays there. *)
LEMMA HoppedSettles ==
    ASSUME StateOK, NEW p \in Path, NEW follow \in BOOLEAN,
           Hop(Hop(p, follow), follow) = Hop(p, follow)
    PROVE  Hopped(p, follow) = Hop(p, follow)
<1> DEFINE h == Hop(p, follow)
<1>1. PICK g \in [0 .. MaxHops -> Path] :
         /\ Hopped(p, follow) = g[MaxHops]
         /\ g[0] = p
         /\ \A n \in 1 .. MaxHops : g[n] = Hop(g[n - 1], follow)
  BY HoppedUnfolds
<1>2. MaxHops \in Nat \ {0}
  BY Constants
<1> DEFINE S == {n \in Nat : n + 1 <= MaxHops => g[n + 1] = h}
<1>3. 0 \in S
  <2>1. 1 \in 1 .. MaxHops /\ 1 - 1 = 0 /\ 0 + 1 = 1
    BY <1>2
  <2> QED
    BY <1>1, <2>1
<1>4. ASSUME NEW n \in Nat, n \in S, (n + 1) + 1 <= MaxHops PROVE g[(n + 1) + 1] = h
  <2>1. (n + 1) + 1 \in 1 .. MaxHops /\ ((n + 1) + 1) - 1 = n + 1 /\ n + 1 <= MaxHops
    BY <1>2, <1>4
  <2>2. g[n + 1] = h
    BY <1>4, <2>1
  <2>3. g[(n + 1) + 1] = Hop(g[n + 1], follow)
    BY <1>1, <2>1
  <2> QED
    BY <2>2, <2>3
<1>5. \A n \in Nat : n \in S => n + 1 \in S
  BY <1>4
<1> HIDE DEF S
<1>6. MaxHops - 1 \in Nat /\ (MaxHops - 1) + 1 = MaxHops
  BY <1>2
<1>7. MaxHops - 1 \in S
  BY <1>3, <1>5, <1>6, Induction
<1>8. g[MaxHops] = h
  BY <1>2, <1>6, <1>7 DEF S
<1> QED
  BY <1>1, <1>8

(* On the way to a directory of the kernel's, and there, a mount has no    *)
(* link.                                                                   *)
LEMMA NoLinkInTheWay ==
    ASSUME StateOK, NothingInTheWay(tree), NEW d \in OverlayDirs
    PROVE  NodeAt(tree[MountOf(d)], Below(MountOf(d), d)).is # "link"
<1> DEFINE t == tree[MountOf(d)]
           b == Below(MountOf(d), d)
<1>1. IsTree(t)
  BY OverlayDirsArePaths, MountOfPath DEF StateOK
<1>2. b = <<>> \/ b \notin DOMAIN t
  BY DEF NothingInTheWay
<1> HIDE DEF t, b
<1>3. CASE b = <<>>
  <2>1. NodeAt(t, b) = Dir
    BY <1>1, <1>3, TreeFacts DEF NodeAt
  <2>2. Dir.is # "link"
    BY DEF Dir
  <2> QED
    BY <2>1, <2>2 DEF t, b
<1>4. CASE b \notin DOMAIN t
  <2>1. NodeAt(t, b) = Missing
    BY <1>4 DEF NodeAt
  <2>2. Missing.is # "link"
    BY DEF Missing
  <2> QED
    BY <2>1, <2>2 DEF t, b
<1> QED
  BY <1>2, <1>3, <1>4

LEMMA VirtualLinksArePlaced ==
    ASSUME NEW p \in Path, p = <<>> \/ p[1] \notin {"proc", "dev"}
    PROVE  VirtualLink(p) = NoLink
<1>1. p \notin {<<"proc", "self", "exe">>, <<"proc", OwnPid, "exe">>,
                <<"proc", "self", "cwd">>, <<"proc", OwnPid, "cwd">>}
  OBVIOUS
<1>2. p \notin {<<"dev", "stdin">>, <<"dev", "stdout">>, <<"dev", "stderr">>}
  OBVIOUS
<1> QED
  BY <1>1, <1>2, Zenon DEF VirtualLink

(* No link is on the way to a program, and a program is none. *)
LEMMA ProgramsAreReached ==
    ASSUME StateOK, OrdinaryPrograms, NothingInTheWay(tree), NEW p \in Programs
    PROVE  Links(p, TRUE) = {} /\ Hop(p, TRUE) = p /\ VirtualLink(p) = NoLink
<1>1. p \in Path /\ Len(p) \in Nat
  BY Constants, PathLength
<1>2. ASSUME NEW i \in 1 .. Len(p) PROVE LinkTarget(SubSeq(p, 1, i)) = NoLink
  <2> DEFINE q == SubSeq(p, 1, i)
  <2>1. q \in Path /\ Len(q) = i /\ q[1] = p[1]
    <3>1. i \in 0 .. Len(p) /\ 1 \in 1 .. i
      BY <1>1
    <3> QED
      BY <1>1, <3>1, PartOfPath
  <2>2. 1 \in 1 .. Len(p)
    BY <1>1
  <2>3. p[1] \notin {"proc", "dev"}
    BY <2>2 DEF OrdinaryPrograms
  <2>4. VirtualLink(q) = NoLink
    <3> HIDE DEF q
    <3> QED
      BY <2>1, <2>3, VirtualLinksArePlaced
  <2>5. CASE i = Len(p)
    <3>1. q = p
      BY <1>1, <2>5, SubSeqFull DEF Path
    <3> QED
      BY <2>4, <3>1 DEF LinkTarget
  <2>6. CASE i # Len(p)
    <3>1. i \in 0 .. Len(p) - 1
      BY <1>1, <2>6
    <3>3. q \in OverlayDirs
      BY <3>1, AboveProgram
    <3> HIDE DEF q
    <3>4. NodeAt(tree[MountOf(q)], Below(MountOf(q), q)).is # "link"
      BY <3>3, NoLinkInTheWay
    <3>5. LinkTarget(q) = NoLink
      BY <2>4, <3>4 DEF LinkTarget
    <3> QED
      BY <3>5 DEF q
  <2> QED
    BY <2>5, <2>6
<1>3. Links(p, TRUE) = {}
  BY <1>2 DEF Links
<1>4. Hop(p, TRUE) = p
  BY <1>3 DEF Hop
<1>5. p = <<>> \/ p[1] \notin {"proc", "dev"}
  <2>1. p # <<>> => 1 \in 1 .. Len(p)
    BY <1>1, PathLength
  <2> QED
    BY <2>1 DEF OrdinaryPrograms
<1> QED
  BY <1>1, <1>3, <1>4, <1>5, VirtualLinksArePlaced

LEMMA ResolvedToProgram ==
    ASSUME StateOK, OrdinaryPrograms, NothingInTheWay(tree), NEW p \in Programs,
           NEW path \in Path, Hop(Normalize(cwd, path), TRUE) = p
    PROVE  Resolve(cwd, path, TRUE) = Program(p)
<1> DEFINE start == Normalize(cwd, path)
<1>1. start \in Path
  BY NormalizeIsPath DEF StateOK
<1>2. Hop(start, TRUE) = p /\ Hop(p, TRUE) = p /\ Links(p, TRUE) = {} /\ VirtualLink(p) = NoLink
  BY ProgramsAreReached
<1> DEFINE end == Hopped(start, TRUE)
<1>3. Resolve(cwd, path, TRUE) = IF Links(end, TRUE) # {} THEN Nothing("LOOP")
                                 ELSE IF VirtualLink(end) # NoLink THEN KernelLink(VirtualLink(end))
                                 ELSE Classify(end)
  BY DEF Resolve
<1> HIDE DEF start
<1>4. end = p
  BY <1>1, <1>2, HoppedSettles
<1> HIDE DEF end
<1>5. Classify(p) = Program(p)
  BY DEF Classify
<1> QED
  BY <1>2, <1>3, <1>4, <1>5

LEMMA ProgramByPath ==
    ASSUME StateOK, OrdinaryPrograms, NothingInTheWay(tree), NEW p \in Programs
    PROVE  Resolve(cwd, <<"/">> \o p, TRUE) = Program(p)
<1>1. p \in Path /\ cwd \in Path /\ Plain(p)
  BY Constants DEF StateOK, OrdinaryPrograms, Plain
<1>2. Normalize(cwd, <<"/">> \o p) = p
  BY <1>1, SpelledOut
<1>3. <<"/">> \o p \in Path
  <2>1. "/" \in Name
    BY DEF Name
  <2> QED
    BY <1>1, <2>1, NamesArePaths
<1> QED
  BY <1>2, <1>3, ProgramsAreReached, ResolvedToProgram

(* The one link on the way of /proc/self/exe is its last name. *)
LEMMA ProgramByItself ==
    ASSUME StateOK, OrdinaryPrograms, NothingInTheWay(tree)
    PROVE  Resolve(cwd, <<"/", "proc", "self", "exe">>, TRUE) = Program(exe)
<1> DEFINE p == <<"proc", "self", "exe">>
<1>1. /\ p \in Path /\ <<"/", "proc", "self", "exe">> \in Path /\ Len(p) = 3
      /\ p[1] = "proc" /\ p[2] = "self" /\ p[3] = "exe"
      /\ <<"/">> \o p = <<"/", "proc", "self", "exe">>
  <2>1. {"/", "proc", "self", "exe"} \subseteq Name
    BY DEF Name
  <2>2. p \in Path /\ <<"/", "proc", "self", "exe">> \in Path
    BY <2>1 DEF Path
  <2>3. Len(p) = 3 /\ p[1] = "proc" /\ p[2] = "self" /\ p[3] = "exe"
    OBVIOUS
  <2>4. <<"/">> \o p = <<"/", "proc", "self", "exe">>
    <3> DEFINE a == <<"/">> \o p
               b == <<"/", "proc", "self", "exe">>
    <3>1. "/" \in Name /\ p \in Path
      BY <2>1, <2>2
    <3>2. Len(b) = 4 /\ b[1] = "/" /\ b[1 + 1] = "proc" /\ b[2 + 1] = "self" /\ b[3 + 1] = "exe"
      OBVIOUS
    <3> HIDE DEF p
    <3>3. /\ a \in Path /\ Len(a) = 1 + Len(p) /\ a[1] = "/"
          /\ \A i \in 1 .. Len(p) : a[i + 1] = p[i]
      BY <3>1, NamesArePaths
    <3> HIDE DEF a, b
    <3>4. Len(a) = Len(b) /\ Len(a) = 4
      BY <2>3, <3>2, <3>3
    <3>5. /\ a[1] = b[1] /\ a[1 + 1] = b[1 + 1]
          /\ a[2 + 1] = b[2 + 1] /\ a[3 + 1] = b[3 + 1]
      BY <2>3, <3>2, <3>3
    <3>6. \A i \in 1 .. 4 : i = 1 \/ i = 1 + 1 \/ i = 2 + 1 \/ i = 3 + 1
      OBVIOUS
    <3>7. \A i \in 1 .. Len(a) : a[i] = b[i]
      BY <3>4, <3>5, <3>6
    <3>8. b \in Path
      BY <2>2 DEF b
    <3> QED
      BY <3>3, <3>4, <3>7, <3>8, SeqEqual DEF Path, a, b
  <2> QED
    BY <2>2, <2>3, <2>4
<1>2. /\ exe \in Path /\ exe \in Programs /\ cwd \in Path
      /\ Plain(exe)
  BY Constants DEF StateOK, OrdinaryPrograms, Plain
<1>3. Normalize(cwd, <<"/", "proc", "self", "exe">>) = p
  <2> HIDE DEF p
  <2>1. Plain(p)
    <3>1. \A i \in 1 .. 3 : i = 1 \/ i = 2 \/ i = 3
      OBVIOUS
    <3> QED
      BY <1>1, <3>1 DEF Plain
  <2>2. Normalize(cwd, <<"/">> \o p) = p
    BY <1>1, <1>2, <2>1, SpelledOut
  <2> QED
    BY <1>1, <2>2
<1>4. SubSeq(p, 1, 1) = <<"proc">> /\ SubSeq(p, 1, 2) = <<"proc", "self">> /\ SubSeq(p, 1, 3) = p
  <2>1. <<"proc">> \in Path /\ <<"proc", "self">> \in Path
    <3>1. {"proc", "self"} \subseteq Name
      BY DEF Name
    <3> QED
      BY <3>1 DEF Path
  <2>2. \A i \in 1 .. 1 : i = 1
    OBVIOUS
  <2>3. \A i \in 1 .. 2 : i = 1 \/ i = 2
    OBVIOUS
  <2>4. <<"proc">>[1] = "proc" /\ <<"proc", "self">>[1] = "proc" /\ <<"proc", "self">>[2] = "self"
        /\ Len(<<"proc">>) = 1 /\ Len(<<"proc", "self">>) = 2
    OBVIOUS
  <2> HIDE DEF p
  <2>5. /\ SubSeq(p, 1, 1) \in Path /\ Len(SubSeq(p, 1, 1)) = 1
        /\ \A k \in 1 .. 1 : SubSeq(p, 1, 1)[k] = p[k]
    <3>1. 1 \in 0 .. Len(p)
      BY <1>1
    <3> QED
      BY <1>1, <3>1, PartOfPath
  <2>6. /\ SubSeq(p, 1, 2) \in Path /\ Len(SubSeq(p, 1, 2)) = 2
        /\ \A k \in 1 .. 2 : SubSeq(p, 1, 2)[k] = p[k]
    <3>1. 2 \in 0 .. Len(p)
      BY <1>1
    <3> QED
      BY <1>1, <3>1, PartOfPath
  <2> DEFINE a == SubSeq(p, 1, 1)
             b == SubSeq(p, 1, 2)
             d == <<"proc">>
             e == <<"proc", "self">>
  <2>10. /\ a \in Path /\ d \in Path /\ Len(a) = 1 /\ Len(d) = 1
         /\ b \in Path /\ e \in Path /\ Len(b) = 2 /\ Len(e) = 2
    BY <2>1, <2>4, <2>5, <2>6
  <2>11. /\ a[1] = p[1] /\ b[1] = p[1] /\ b[2] = p[2]
         /\ d[1] = "proc" /\ e[1] = "proc" /\ e[2] = "self"
    BY <2>2, <2>3, <2>4, <2>5, <2>6
  <2> HIDE DEF a, b, d, e
  <2>12. a = d
    BY <1>1, <2>2, <2>10, <2>11, SeqEqual DEF Path
  <2>13. b = e
    BY <1>1, <2>3, <2>10, <2>11, SeqEqual DEF Path
  <2>7. SubSeq(p, 1, 1) = <<"proc">>
    BY <2>12 DEF a, d
  <2>8. SubSeq(p, 1, 2) = <<"proc", "self">>
    BY <2>13 DEF b, e
  <2>9. SubSeq(p, 1, 3) = p
    BY <1>1, SubSeqFull DEF Path
  <2> QED
    BY <2>7, <2>8, <2>9
<1>5. LinkTarget(p) = <<"/">> \o exe /\ LinkTarget(p) # NoLink
  <2>1. VirtualLink(p) = <<"/">> \o exe
    BY Zenon DEF VirtualLink
  <2>2. <<"/">> \o exe # <<>>
    BY <1>2, NamesArePaths DEF Name
  <2> QED
    BY <2>1, <2>2 DEF LinkTarget, NoLink
<1>6. LinkTarget(<<"proc">>) = NoLink /\ LinkTarget(<<"proc", "self">>) = NoLink
  <2>1. VirtualLink(<<"proc">>) = NoLink
    BY DEF VirtualLink
  <2>2. VirtualLink(<<"proc", "self">>) = NoLink
    BY DEF VirtualLink
  <2>3. <<"proc">> \in OverlayDirs /\ <<"proc", "self">> \in OverlayDirs
    BY DEF OverlayDirs
  <2>4. \A d \in OverlayDirs : VirtualLink(d) = NoLink => LinkTarget(d) = NoLink
    BY NoLinkInTheWay DEF LinkTarget
  <2> QED
    BY <2>1, <2>2, <2>3, <2>4
<1> HIDE DEF p
<1>7. Links(p, TRUE) = {3}
  <2>1. \A i \in 1 .. 3 : i = 1 \/ i = 2 \/ i = 3
    OBVIOUS
  <2>2. 3 \in 1 .. 3
    OBVIOUS
  <2>3. Links(p, TRUE) = {i \in 1 .. 3 : LinkTarget(SubSeq(p, 1, i)) # NoLink}
    BY <1>1 DEF Links
  <2>4. /\ LinkTarget(SubSeq(p, 1, 1)) = NoLink /\ LinkTarget(SubSeq(p, 1, 2)) = NoLink
        /\ LinkTarget(SubSeq(p, 1, 3)) # NoLink
    BY <1>4, <1>5, <1>6
  <2> QED
    BY <2>1, <2>2, <2>3, <2>4
<1>8. Min(Links(p, TRUE)) = 3
  <2>1. 3 \in Nat
    OBVIOUS
  <2>2. Links(p, TRUE) \subseteq Nat
    BY <1>7, <2>1, Zenon
  <2>3. Links(p, TRUE) # {}
    BY <1>7, Zenon
  <2>4. Min(Links(p, TRUE)) \in Links(p, TRUE)
    BY <2>2, <2>3, MinOfNumbers
  <2> QED
    BY <1>7, <2>4, Zenon
<1>9. Hop(p, TRUE) = exe
  <2>1. Hop(p, TRUE) = Spliced(p, 3, LinkTarget(p))
    BY <1>4, <1>7, <1>8 DEF Hop
  <2>2. Spliced(p, 3, LinkTarget(p)) = Normalize(SubSeq(p, 1, 2), <<"/">> \o exe) \o SubSeq(p, 4, 3)
    <3>1. 3 - 1 = 2 /\ 3 + 1 = 4
      OBVIOUS
    <3> QED
      BY <1>1, <1>5, <3>1 DEF Spliced
  <2>3. SubSeq(p, 1, 2) \in Path
    <3>1. 2 \in 0 .. Len(p)
      BY <1>1
    <3> QED
      BY <1>1, <3>1, PartOfPath
  <2>4. Normalize(SubSeq(p, 1, 2), <<"/">> \o exe) = exe
    BY <1>2, <2>3, SpelledOut
  <2>5. SubSeq(p, 4, 3) = <<>>
    BY SubSeqEmpty
  <2> QED
    BY <1>2, <2>1, <2>2, <2>4, <2>5, PathLength
<1> QED
  BY <1>1, <1>2, <1>3, <1>9, ResolvedToProgram

LEMMA NothingIsEverInTheWay ==
    ASSUME NothingInTheWay(InitialTree)
    PROVE  Spec => []NothingInTheWay(tree)
<1>1. Init => NothingInTheWay(tree)
  BY DEF Init
<1>2. IInv /\ NothingInTheWay(tree) /\ [Next]_vars => NothingInTheWay(tree)'
  BY NothingComesInTheWay
<1> QED
  BY <1>1, <1>2, InvariantHolds, PTL DEF Spec

(* Programs are found by their paths, and the running one by               *)
(* /proc/self/exe, whatever calls are made, if none is hidden to begin     *)
(* with.                                                                   *)
THEOREM ProgramsAreNotHidden ==
    ASSUME OrdinaryPrograms, NothingInTheWay(InitialTree)
    PROVE  Spec => []ProgramsStay
<1>1. IInv /\ NothingInTheWay(tree) => ProgramsStay
  BY ProgramByPath, ProgramByItself DEF IInv, ProgramsStay
<1> QED
  BY <1>1, InvariantHolds, NothingIsEverInTheWay, PTL

-----------------------------------------------------------------------------
(* 9. A path that is followed to its end is no link.                       *)

FollowedToTheEnd ==
    \A base, path \in Path :
        LET n == Resolve(base, path, TRUE)
        IN  /\ n.is # "kernel link"
            /\ n.is = "mounted" => NodeAt(tree[n.mount], n.rel).is # "link"

LEMMA NothingLeftToFollow ==
    ASSUME StateOK, <<>> \notin Targets, NEW p \in Path, Links(p, TRUE) = {}
    PROVE  /\ VirtualLink(p) = NoLink
           /\ p \notin Programs \cup Devices =>
                  NodeAt(tree[MountOf(p)], Below(MountOf(p), p)).is # "link"
<1> DEFINE m == MountOf(p)
           node == NodeAt(tree[m], Below(m, p))
<1>1. m \in MountPoints /\ m \in Path /\ Below(m, p) \in Path /\ m \o Below(m, p) = p
      /\ IsTree(tree[m])
  BY MountOfPath DEF StateOK
<1>2. CASE p = <<>>
  <2>1. VirtualLink(p) = NoLink
    BY <1>2, VirtualLinksArePlaced
  <2>2. Below(m, p) = <<>>
    <3>1. Len(m) \in Nat /\ Len(Below(m, p)) \in Nat /\ Len(p) = 0
          /\ Len(p) = Len(m) + Len(Below(m, p))
      BY <1>1, <1>2, PathLength, Joined
    <3>2. \A x, y \in Nat : 0 = x + y => y = 0
      OBVIOUS
    <3>3. Len(Below(m, p)) = 0
      BY <3>1, <3>2
    <3> QED
      BY <1>1, <3>3, PathLength
  <2>3. node = Dir
    BY <1>1, <2>2, TreeFacts DEF NodeAt
  <2>4. Dir.is # "link"
    BY DEF Dir
  <2> HIDE DEF node
  <2> QED
    BY <2>1, <2>3, <2>4 DEF node
<1>3. CASE p # <<>>
  <2>1. Len(p) \in 1 .. Len(p) /\ SubSeq(p, 1, Len(p)) = p
    BY <1>3, PathLength, SubSeqFull DEF Path
  <2>2. LinkTarget(p) = NoLink
    BY <2>1 DEF Links
  <2>3. LinkTarget(p) = IF VirtualLink(p) # NoLink THEN VirtualLink(p)
                        ELSE IF node.is # "link" \/ p \in Programs \cup Devices THEN NoLink
                        ELSE node.to
    BY DEF LinkTarget
  <2>4. node.is = "link" => node.to \in Targets
    <3>1. node \in Nodes \cup {Missing}
      BY <1>1, NodeOrMissing
    <3>2. Missing.is # "link"
      BY DEF Missing
    <3> HIDE DEF node
    <3> QED
      BY <3>1, <3>2, NodesApart
  <2> HIDE DEF node
  <2>5. VirtualLink(p) = NoLink
    BY <2>2, <2>3
  <2>6. p \notin Programs \cup Devices => node.is # "link"
    BY <2>2, <2>3, <2>4 DEF NoLink
  <2> QED
    BY <2>5, <2>6 DEF node
<1> QED
  BY <1>2, <1>3

LEMMA EndsAtNoLink ==
    ASSUME StateOK, <<>> \notin Targets
    PROVE  FollowedToTheEnd
<1> SUFFICES ASSUME NEW base \in Path, NEW path \in Path
             PROVE  LET n == Resolve(base, path, TRUE)
                    IN  /\ n.is # "kernel link"
                        /\ n.is = "mounted" => NodeAt(tree[n.mount], n.rel).is # "link"
  BY DEF FollowedToTheEnd
<1> DEFINE n == Resolve(base, path, TRUE)
           end == Hopped(Normalize(base, path), TRUE)
<1>1. end \in Path
  BY NormalizeIsPath, HoppedIsPath
<1>2. n = IF Links(end, TRUE) # {} THEN Nothing("LOOP")
          ELSE IF VirtualLink(end) # NoLink THEN KernelLink(VirtualLink(end))
          ELSE Classify(end)
  BY DEF Resolve
<1> HIDE DEF n, end
<1>3. CASE Links(end, TRUE) # {}
  <2>1. Nothing("LOOP").is = "error"
    BY DEF Nothing
  <2> QED
    BY <1>2, <1>3, <2>1 DEF n
<1>4. CASE Links(end, TRUE) = {}
  <2>1. /\ VirtualLink(end) = NoLink
        /\ end \notin Programs \cup Devices =>
               NodeAt(tree[MountOf(end)], Below(MountOf(end), end)).is # "link"
    BY <1>1, <1>4, NothingLeftToFollow
  <2>2. n = Classify(end)
    BY <1>2, <1>4, <2>1
  <2>3. /\ n.is # "kernel link"
        /\ n.is = "mounted" => n = Mounted(MountOf(end), end) /\ end \notin Programs \cup Devices
    BY <1>1, <2>2, ClassifiedOnMount
  <2>4. Mounted(MountOf(end), end).mount = MountOf(end)
        /\ Mounted(MountOf(end), end).rel = Below(MountOf(end), end)
    BY DEF Mounted
  <2> QED
    BY <2>1, <2>3, <2>4 DEF n
<1> QED
  BY <1>3, <1>4

(* Whatever links have been made, a path that a call follows to its end    *)
(* (O_NOFOLLOW aside, openat, chdir, truncate and execve) is not taken for *)
(* a link, on a mount or of the kernel's.                                  *)
THEOREM FollowedPathsAreNoLinks ==
    ASSUME <<>> \notin Targets
    PROVE  Spec => []FollowedToTheEnd
<1>1. IInv => FollowedToTheEnd
  BY EndsAtNoLink DEF IInv
<1> QED
  BY <1>1, InvariantHolds, PTL

-----------------------------------------------------------------------------
(* 10. What a listing shows can be looked up, and the reverse.             *)
(*                                                                         *)
(* A path is resolved to names that a path keeps, so that a name looked up *)
(* in a directory is the next name of the path.                            *)

LEMMA PlainParts ==
    ASSUME NEW p \in Path, Plain(p)
    PROVE  /\ p # <<>> => Plain(Front(p))
           /\ \A i \in 0 .. Len(p) : Plain(SubSeq(p, i + 1, Len(p)))
           /\ \A q \in Path : Plain(q) => Plain(p \o q)
           /\ \A c \in Name \ {"/", ".", ".."} : Plain(Append(p, c))
<1>1. Len(p) \in Nat
  BY PathLength
<1>2. ASSUME NEW i \in 0 .. Len(p) PROVE Plain(SubSeq(p, i + 1, Len(p)))
  <2> DEFINE q == SubSeq(p, i + 1, Len(p))
  <2>1. i + 1 \in Int /\ Len(p) \in Int /\ \A k \in i + 1 .. Len(p) : p[k] \in Name
    BY <1>1, ElementOfSeq DEF Path
  <2>2. /\ Len(q) = IF i + 1 <= Len(p) THEN Len(p) - (i + 1) + 1 ELSE 0
        /\ \A k \in 1 .. Len(p) - (i + 1) + 1 : q[k] = p[(i + 1) + k - 1]
    BY <2>1, SubSeqProperties
  <2> HIDE DEF q
  <2>3. \A k \in 1 .. Len(q) : q[k] = p[(i + 1) + k - 1] /\ (i + 1) + k - 1 \in 1 .. Len(p)
    BY <1>1, <2>2
  <2>4. Plain(q)
    BY <2>3 DEF Plain
  <2> QED
    BY <2>4 DEF q
<1>3. ASSUME p # <<>> PROVE Plain(Front(p))
  <2>1. Front(p) \in Path /\ Len(Front(p)) = Len(p) - 1 /\ IsPrefix(Front(p), p)
    BY <1>3, FrontOfPath
  <2>2. \A i \in 1 .. Len(Front(p)) : Front(p)[i] = p[i] /\ i \in 1 .. Len(p)
    BY <1>1, <2>1, BeginningOf
  <2> QED
    BY <2>2 DEF Plain
<1>4. ASSUME NEW q \in Path, Plain(q) PROVE Plain(p \o q)
  <2> DEFINE r == p \o q
  <2>1. /\ Len(q) \in Nat /\ Len(r) = Len(p) + Len(q)
        /\ \A i \in 1 .. Len(p) + Len(q) : r[i] = IF i <= Len(p) THEN p[i] ELSE q[i - Len(p)]
    BY PathLength, ConcatProperties DEF Path
  <2> HIDE DEF r
  <2>2. \A i \in 1 .. Len(r) : \/ i \in 1 .. Len(p) /\ r[i] = p[i]
                               \/ i - Len(p) \in 1 .. Len(q) /\ r[i] = q[i - Len(p)]
    BY <1>1, <2>1
  <2>3. Plain(r)
    BY <1>4, <2>2 DEF Plain
  <2> QED
    BY <2>3 DEF r
<1>5. ASSUME NEW c \in Name \ {"/", ".", ".."} PROVE Plain(Append(p, c))
  <2> DEFINE r == Append(p, c)
  <2>1. Len(r) = Len(p) + 1 /\ r[Len(p) + 1] = c /\ \A i \in 1 .. Len(p) : r[i] = p[i]
    BY AppendProperties DEF Path
  <2> HIDE DEF r
  <2>2. \A i \in 1 .. Len(r) : i \in 1 .. Len(p) \/ i = Len(p) + 1
    BY <1>1, <2>1
  <2>3. Plain(r)
    BY <2>1, <2>2 DEF Plain
  <2> QED
    BY <2>3 DEF r
<1> QED
  BY <1>2, <1>3, <1>4, <1>5

LEMMA NormalizeIsPlain ==
    ASSUME NEW base \in Path, NEW path \in Path
    PROVE  Plain(Normalize(base, path))
<1>1. ASSUME NEW q \in Path PROVE Plain(Folded(q))
  <2>1. PICK g \in [0 .. Len(q) -> Path] :
           /\ Folded(q) = g[Len(q)]
           /\ g[0] = <<>>
           /\ \A n \in 1 .. Len(q) : g[n] = Under(g[n - 1], q[n])
    BY FoldedUnfolds
  <2>2. Len(q) \in Nat
    BY PathLength
  <2> DEFINE S == {n \in Nat : n <= Len(q) => Plain(g[n])}
  <2>3. 0 \in S
    <3>1. \A i \in 1 .. Len(<<>>) : FALSE
      BY PathLength, EmptyIsPath
    <3> QED
      BY <2>1, <3>1 DEF Plain
  <2>4. ASSUME NEW n \in Nat, n \in S, n + 1 <= Len(q) PROVE Plain(g[n + 1])
    <3>1. n + 1 \in 1 .. Len(q) /\ (n + 1) - 1 = n /\ n \in 0 .. Len(q)
      BY <2>2, <2>4
    <3>2. g[n] \in Path /\ Plain(g[n])
      BY <2>1, <2>2, <2>4, <3>1
    <3>4. q[n + 1] \in Name
      BY <3>1, ElementOfSeq DEF Path
    <3>3. g[n + 1] = Under(g[n], q[n + 1])
      BY <2>1, <3>1
    <3> QED
      BY <3>2, <3>3, <3>4, PlainParts DEF Under
  <2>5. \A n \in Nat : n \in S => n + 1 \in S
    BY <2>2, <2>4
  <2> HIDE DEF S
  <2>6. \A n \in Nat : n \in S
    BY <2>3, <2>5, Induction
  <2> QED
    BY <2>1, <2>2, <2>6 DEF S
<1> QED
  BY <1>1, Joined DEF Normalize

LEMMA HopIsPlain ==
    ASSUME StateOK, NEW p \in Path, NEW follow \in BOOLEAN, Plain(p)
    PROVE  Plain(Hop(p, follow))
<1> DEFINE i == Min(Links(p, follow))
<1>1. CASE Links(p, follow) = {}
  BY <1>1 DEF Hop
<1>2. CASE Links(p, follow) # {}
  <2>1. i \in 1 .. Len(p)
    BY <1>2, FirstLink
  <2> HIDE DEF i
  <2>2. i \in 0 .. Len(p) /\ i - 1 \in 0 .. Len(p)
    BY <2>1, PathLength
  <2> DEFINE a == SubSeq(p, 1, i)
             b == SubSeq(p, 1, i - 1)
             c == SubSeq(p, i + 1, Len(p))
  <2>3. a \in Path /\ b \in Path /\ c \in Path /\ Plain(c)
    BY <2>2, PartOfPath, PlainParts
  <2> HIDE DEF a, b, c
  <2>4. LinkTarget(a) \in Path
    BY <2>3, TargetIsPath
  <2>5. Normalize(b, LinkTarget(a)) \in Path /\ Plain(Normalize(b, LinkTarget(a)))
    BY <2>3, <2>4, NormalizeIsPath, NormalizeIsPlain
  <2>6. Plain(Normalize(b, LinkTarget(a)) \o c)
    BY <2>3, <2>5, PlainParts
  <2> QED
    BY <1>2, <2>6 DEF Hop, Spliced, i, a, b, c
<1> QED
  BY <1>1, <1>2

LEMMA HoppedIsPlain ==
    ASSUME StateOK, NEW p \in Path, NEW follow \in BOOLEAN, Plain(p)
    PROVE  Plain(Hopped(p, follow))
<1>1. PICK g \in [0 .. MaxHops -> Path] :
         /\ Hopped(p, follow) = g[MaxHops]
         /\ g[0] = p
         /\ \A n \in 1 .. MaxHops : g[n] = Hop(g[n - 1], follow)
  BY HoppedUnfolds
<1>2. MaxHops \in Nat
  BY Constants
<1> DEFINE S == {n \in Nat : n <= MaxHops => Plain(g[n])}
<1>3. 0 \in S
  BY <1>1
<1>4. ASSUME NEW n \in Nat, n \in S, n + 1 <= MaxHops PROVE Plain(g[n + 1])
  <2>1. n + 1 \in 1 .. MaxHops /\ (n + 1) - 1 = n /\ n \in 0 .. MaxHops
    BY <1>2, <1>4
  <2>2. g[n] \in Path /\ Plain(g[n])
    BY <1>1, <1>2, <1>4, <2>1
  <2>3. g[n + 1] = Hop(g[n], follow)
    BY <1>1, <2>1
  <2> QED
    BY <2>2, <2>3, HopIsPlain
<1>5. \A n \in Nat : n \in S => n + 1 \in S
  BY <1>2, <1>4
<1> HIDE DEF S
<1>6. \A n \in Nat : n \in S
  BY <1>3, <1>5, Induction
<1> QED
  BY <1>1, <1>2, <1>6 DEF S

LEMMA FoldsToItself ==
    ASSUME NEW p \in Path, Plain(p)
    PROVE  Folded(p) = p
<1>1. PICK g \in [0 .. Len(p) -> Path] :
         /\ Folded(p) = g[Len(p)]
         /\ g[0] = <<>>
         /\ \A n \in 1 .. Len(p) : g[n] = Under(g[n - 1], p[n])
  BY FoldedUnfolds
<1>2. Len(p) \in Nat
  BY PathLength
<1> DEFINE S == {n \in Nat : n <= Len(p) => g[n] = SubSeq(p, 1, n)}
<1>3. 0 \in S
  <2>1. 0 \in 0 .. Len(p)
    BY <1>2
  <2>2. SubSeq(p, 1, 0) = <<>>
    BY <2>1, PartOfPath, PathLength
  <2> QED
    BY <1>1, <2>2
<1>4. ASSUME NEW n \in Nat, n \in S, n + 1 <= Len(p) PROVE g[n + 1] = SubSeq(p, 1, n + 1)
  <2>1. n + 1 \in 1 .. Len(p) /\ (n + 1) - 1 = n
    BY <1>2, <1>4
  <2>2. g[n] = SubSeq(p, 1, n)
    BY <1>2, <1>4
  <2>3. g[n + 1] = Under(g[n], p[n + 1])
    BY <1>1, <2>1
  <2> QED
    BY <1>4, <2>2, <2>3, OneMoreName
<1>5. \A n \in Nat : n \in S => n + 1 \in S
  BY <1>2, <1>4
<1> HIDE DEF S
<1>6. \A n \in Nat : n \in S
  BY <1>3, <1>5, Induction
<1>7. g[Len(p)] = SubSeq(p, 1, Len(p))
  BY <1>2, <1>6 DEF S
<1> QED
  BY <1>1, <1>7, SubSeqFull DEF Path

(* The path of the name c in the directory g. *)
LEMMA NextName ==
    ASSUME NEW g \in Path, NEW c \in Name
    PROVE  LET q == Append(g, c)
           IN  /\ q \in Path /\ q # <<>> /\ q = g \o <<c>> /\ Len(q) = Len(g) + 1
               /\ Front(q) = g /\ q[Len(q)] = c /\ IsPrefix(g, q)
               /\ \A i \in 1 .. Len(g) : SubSeq(q, 1, i) = SubSeq(g, 1, i)
               /\ \A r \in Path : r # <<>> /\ Front(r) = g /\ r[Len(r)] = c => r = q
<1> DEFINE q == Append(g, c)
<1>1. Len(g) \in Nat
  BY PathLength
<1>2. /\ q \in Path /\ q # <<>> /\ Len(q) = Len(g) + 1 /\ q[Len(g) + 1] = c
      /\ \A i \in 1 .. Len(g) : q[i] = g[i]
  BY AppendProperties DEF Path
<1>3. q = g \o <<c>>
  BY AppendIsConcat DEF Path
<1> HIDE DEF q
<1>4. IsPrefix(g, q)
  BY <1>3, NamesArePaths, BelowOfJoined
<1>5. \A i \in 1 .. Len(g) : SubSeq(q, 1, i) = SubSeq(g, 1, i)
  <2> SUFFICES ASSUME NEW i \in 1 .. Len(g) PROVE SubSeq(q, 1, i) = SubSeq(g, 1, i)
    OBVIOUS
  <2> DEFINE a == SubSeq(q, 1, i)
             b == SubSeq(g, 1, i)
  <2>1. i \in 0 .. Len(g) /\ i \in 0 .. Len(q) /\ \A k \in 1 .. i : k \in 1 .. Len(g)
    BY <1>1, <1>2
  <2>2. /\ a \in Path /\ Len(a) = i /\ \A k \in 1 .. i : a[k] = q[k]
        /\ b \in Path /\ Len(b) = i /\ \A k \in 1 .. i : b[k] = g[k]
    BY <1>2, <2>1, PartOfPath
  <2> HIDE DEF a, b
  <2>3. a = b
    BY <1>2, <2>1, <2>2, SeqEqual DEF Path
  <2> QED
    BY <2>3 DEF a, b
<1>6. Front(q) = g
  <2>1. Front(q) \in Path /\ Len(Front(q)) = Len(g) /\ IsPrefix(Front(q), q)
    <3>1. (Len(g) + 1) - 1 = Len(g)
      BY <1>1
    <3> QED
      BY <1>2, <3>1, FrontOfPath
  <2>2. \A i \in 1 .. Len(Front(q)) : Front(q)[i] = g[i]
    BY <1>2, <2>1, BeginningOf
  <2> QED
    BY <2>1, <2>2, SeqEqual DEF Path
<1>7. ASSUME NEW r \in Path, r # <<>>, Front(r) = g, r[Len(r)] = c PROVE r = q
  <2>1. Len(r) \in Nat /\ Len(g) = Len(r) - 1 /\ IsPrefix(g, r)
    BY <1>7, FrontOfPath, PathLength
  <2>2. Len(r) = Len(g) + 1
    BY <2>1
  <2>3. \A i \in 1 .. Len(g) : r[i] = g[i]
    BY <1>7, <2>1, BeginningOf
  <2>4. \A i \in 1 .. Len(r) : i \in 1 .. Len(g) \/ i = Len(g) + 1
    BY <1>1, <2>2
  <2>5. \A i \in 1 .. Len(r) : r[i] = q[i]
    BY <1>2, <1>7, <2>2, <2>3, <2>4
  <2> QED
    BY <1>2, <2>2, <2>5, SeqEqual DEF Path
<1>8. q[Len(q)] = c
  BY <1>2
<1> QED
  BY <1>2, <1>3, <1>4, <1>5, <1>6, <1>7, <1>8 DEF q

LEMMA LastNames ==
    ASSUME NEW g \in Path, NEW c \in Name, NEW S, S \subseteq Path
    PROVE  c \in {r[Len(r)] : r \in {x \in S \ {<<>>} : Front(x) = g}} <=> Append(g, c) \in S
<1> DEFINE q == Append(g, c)
<1>1. /\ q \in Path /\ q # <<>> /\ Front(q) = g /\ q[Len(q)] = c
      /\ \A r \in Path : r # <<>> /\ Front(r) = g /\ r[Len(r)] = c => r = q
  BY NextName
<1> HIDE DEF q
<1>2. c \in {r[Len(r)] : r \in {x \in S \ {<<>>} : Front(x) = g}} <=> q \in S
  BY <1>1
<1> QED
  BY <1>2 DEF q

(* What a name is in a directory that has been reached. *)
LEMMA LookedUpInDirectory ==
    ASSUME NEW g \in Path, Plain(g), Links(g, TRUE) = {}, NEW c \in Name \ {"/", ".", ".."},
           StateOK
    PROVE  Resolve(g, <<c>>, FALSE) =
               IF VirtualLink(Append(g, c)) # NoLink THEN KernelLink(VirtualLink(Append(g, c)))
               ELSE Classify(Append(g, c))
<1> DEFINE q == Append(g, c)
<1>1. /\ q \in Path /\ q = g \o <<c>> /\ Len(q) = Len(g) + 1 /\ Len(g) \in Nat
      /\ \A i \in 1 .. Len(g) : SubSeq(q, 1, i) = SubSeq(g, 1, i)
  BY NextName, PathLength
<1>2. Plain(q)
  BY PlainParts
<1>3. ~Absolute(<<c>>)
  <2>1. <<c>>[1] = c
    OBVIOUS
  <2> QED
    BY <2>1 DEF Absolute
<1> HIDE DEF q
<1>4. Normalize(g, <<c>>) = q
  BY <1>1, <1>2, <1>3, FoldsToItself DEF Normalize
<1>5. Links(q, FALSE) = {}
  <2>1. \A i \in 1 .. Len(q) : i < Len(q) => i \in 1 .. Len(g)
    BY <1>1
  <2>2. \A i \in 1 .. Len(g) : LinkTarget(SubSeq(g, 1, i)) = NoLink
    BY DEF Links
  <2> QED
    BY <1>1, <2>1, <2>2 DEF Links
<1>6. Hopped(q, FALSE) = q
  <2>1. Hop(q, FALSE) = q
    BY <1>5 DEF Hop
  <2> QED
    BY <1>1, <2>1, HoppedSettles
<1> QED
  BY <1>4, <1>5, <1>6 DEF Resolve, q

(* A directory that a path resolves to is what its own path is. *)
IsReached(g) == Plain(g) /\ Links(g, TRUE) = {}

LEMMA DirectoryReached ==
    ASSUME StateOK, NEW base \in Path, NEW path \in Path,
           NEW d, d = Resolve(base, path, TRUE), IsDirectory(d)
    PROVE  d.guest \in Path /\ IsReached(d.guest) /\ d = Classify(d.guest)
<1> DEFINE end == Hopped(Normalize(base, path), TRUE)
<1>1. end \in Path /\ Plain(end)
  <2>1. Normalize(base, path) \in Path /\ Plain(Normalize(base, path))
    BY NormalizeIsPath, NormalizeIsPlain
  <2> QED
    BY <2>1, HoppedIsPath, HoppedIsPlain
<1>2. d = IF Links(end, TRUE) # {} THEN Nothing("LOOP")
          ELSE IF VirtualLink(end) # NoLink THEN KernelLink(VirtualLink(end))
          ELSE Classify(end)
  BY DEF Resolve
<1> HIDE DEF end
<1>3. d.is \in {"kernel dir", "mounted"}
  BY DEF IsDirectory
<1>4. Nothing("LOOP").is = "error" /\ KernelLink(VirtualLink(end)).is = "kernel link"
  BY DEF Nothing, KernelLink
<1>5. Links(end, TRUE) = {} /\ d = Classify(end)
  BY <1>2, <1>3, <1>4
<1>6. d.guest = end
  <2> DEFINE rest == InProc(end)
  <2>1. d \in {Program(end), Device(end), ProcNode(end), KernelDir(end), Mounted(MountOf(end), end)}
    BY <1>5 DEF Classify
  <2>2. ProcNode(end) \in {KernelDir(end), Device(rest), Synth(end), Missing}
    <3>1. ProcNode(end) = CASE rest \in {<<"fd">>, <<"self">>} -> KernelDir(end)
            [] Len(rest) = 2 /\ rest[1] = "fd" -> Device(rest)
            [] Len(rest) = 1 /\ rest[1] \in ProcFiles \cup {"cmdline", "comm", "status"} -> Synth(end)
            [] OTHER -> Missing
      BY DEF ProcNode
    <3> HIDE DEF rest
    <3> QED
      BY <3>1, Zenon
  <2> HIDE DEF rest
  <2>3. /\ Program(end).is = "program" /\ Device(end).is = "device" /\ Device(rest).is = "device"
        /\ Synth(end).is = "synth" /\ Missing.is = "missing"
        /\ KernelDir(end).guest = end /\ Mounted(MountOf(end), end).guest = end
    BY DEF Program, Device, Synth, Missing, KernelDir, Mounted
  <2> QED
    BY <1>3, <2>1, <2>2, <2>3
<1> QED
  BY <1>1, <1>5, <1>6 DEF IsReached

LEMMA KernelPaths ==
    /\ Devices \subseteq Path /\ OverlayDirs \subseteq Path
    /\ \A r \in Devices \cup OverlayDirs : r \in Path
<1>1. {"dev", "null", "zero", "urandom", "random", "tty", "console"} \subseteq Name
  BY DEF Name
<1>2. \A d \in Name : <<"dev", d>> \in Path
  BY <1>1 DEF Path
<1>3. Devices \subseteq Path
  BY <1>1, <1>2, Zenon DEF Devices
<1> QED
  BY <1>3, OverlayDirsArePaths

(* Outside /proc the kernel makes up links only for the standard streams,  *)
(* and no files.                                                           *)
LEMMA KernelAddsInDev ==
    ASSUME NEW g \in Path, ~IsPrefix(<<"proc">>, g), NEW c \in Name
    PROVE  /\ ~OfProc(Append(g, c)) /\ Append(g, c) # <<"proc", "self", "fd">>
           /\ VirtualLink(Append(g, c)) # NoLink <=>
                  g = <<"dev">> /\ c \in {"stdin", "stdout", "stderr"}
<1> DEFINE q == Append(g, c)
<1>1. /\ q \in Path /\ Len(q) = Len(g) + 1 /\ Len(g) \in Nat /\ q # <<>>
      /\ Front(q) = g /\ q[Len(q)] = c /\ IsPrefix(g, q)
      /\ \A r \in Path : r # <<>> /\ Front(r) = g /\ r[Len(r)] = c => r = q
  BY NextName, PathLength
<1>2. <<"proc">> \in Path /\ Len(<<"proc">>) = 1 /\ <<"proc">>[1] = "proc"
  BY DEF Path, Name
<1> HIDE DEF q
<1>3. Len(q) > 1 => q[1] # "proc"
  <2> SUFFICES ASSUME Len(q) > 1, q[1] = "proc" PROVE FALSE
    OBVIOUS
  <2>1. 1 \in 1 .. Len(g) /\ 1 \in 0 .. Len(g)
    BY <1>1
  <2>2. g[1] = "proc"
    BY <1>1, <2>1, BeginningOf
  <2>3. /\ SubSeq(g, 1, 1) \in Path /\ Len(SubSeq(g, 1, 1)) = 1
        /\ \A k \in 1 .. 1 : SubSeq(g, 1, 1)[k] = g[k]
    BY <2>1, PartOfPath
  <2>4. \A k \in 1 .. 1 : k = 1
    OBVIOUS
  <2>5. SubSeq(g, 1, 1) = <<"proc">>
    BY <1>2, <2>2, <2>3, <2>4, SeqEqual DEF Path
  <2>6. SubSeq(<<"proc">>, 1, 1) = <<"proc">>
    BY <1>2, SubSeqFull DEF Path
  <2> QED
    BY <1>1, <1>2, <2>1, <2>5, <2>6 DEF IsPrefix
<1>4. ~OfProc(q)
  BY <1>3 DEF OfProc
<1>5. /\ q \notin {<<"proc", "self", "exe">>, <<"proc", OwnPid, "exe">>,
                   <<"proc", "self", "cwd">>, <<"proc", OwnPid, "cwd">>}
      /\ q # <<"proc", "self", "fd">>
  BY <1>3
<1>6. VirtualLink(q) # NoLink <=> q \in {<<"dev", "stdin">>, <<"dev", "stdout">>, <<"dev", "stderr">>}
  <2>1. VirtualLink(q) =
           CASE q = <<>> \/ q[1] \notin {"proc", "dev"} -> NoLink
             [] q \in {<<"proc", "self", "exe">>, <<"proc", OwnPid, "exe">>} -> <<"/">> \o exe
             [] q \in {<<"proc", "self", "cwd">>, <<"proc", OwnPid, "cwd">>} -> <<"/">> \o cwd
             [] q = <<"dev", "stdin">> -> <<"/", "proc", "self", "fd", "0">>
             [] q = <<"dev", "stdout">> -> <<"/", "proc", "self", "fd", "1">>
             [] q = <<"dev", "stderr">> -> <<"/", "proc", "self", "fd", "2">>
             [] OTHER -> NoLink
    BY DEF VirtualLink
  <2>2. CASE q[1] # "dev"
    <3>1. VirtualLink(q) = NoLink
      BY <1>1, <1>5, <2>1, <2>2
    <3> QED
      BY <2>2, <3>1
  <2>3. CASE q[1] = "dev"
    <3>1. VirtualLink(q) =
             CASE q = <<"dev", "stdin">> -> <<"/", "proc", "self", "fd", "0">>
               [] q = <<"dev", "stdout">> -> <<"/", "proc", "self", "fd", "1">>
               [] q = <<"dev", "stderr">> -> <<"/", "proc", "self", "fd", "2">>
               [] OTHER -> NoLink
      BY <1>1, <1>5, <2>1, <2>3
    <3> QED
      BY <3>1 DEF NoLink
  <2> QED
    BY <2>2, <2>3
<1>7. ASSUME NEW s \in {"stdin", "stdout", "stderr"}
      PROVE  q = <<"dev", s>> <=> g = <<"dev">> /\ c = s
  <2>1. {"dev"} \cup {"stdin", "stdout", "stderr"} \subseteq Name
    BY DEF Name
  <2>2. <<"dev">> \in Path /\ <<"dev", s>> \in Path /\ s \in Name
    BY <2>1 DEF Path
  <2>3. <<"dev", s>> = Append(<<"dev">>, s)
    OBVIOUS
  <2>4. /\ Front(<<"dev", s>>) = <<"dev">> /\ <<"dev", s>> # <<>>
        /\ <<"dev", s>>[Len(<<"dev", s>>)] = s
    BY <2>2, <2>3, NextName
  <2> QED
    BY <1>1, <2>2, <2>4
<1> QED
  BY <1>4, <1>5, <1>6, <1>7 DEF q

(* A name below a mount's directory is on that mount, unless another one   *)
(* is mounted there.                                                       *)
LEMMA MountBelow ==
    ASSUME NEW g \in Path, NEW c \in Name
    PROVE  LET q == Append(g, c)
           IN  /\ MountOf(q) \in MountPoints /\ Below(MountOf(q), q) \in Path
               /\ q \in MountPoints => Below(MountOf(q), q) = <<>>
               /\ q \notin MountPoints => /\ MountOf(q) = MountOf(g)
                                          /\ Below(MountOf(q), q) = Append(Below(MountOf(g), g), c)
<1> DEFINE q == Append(g, c)
<1>1. /\ q \in Path /\ q # <<>> /\ q = g \o <<c>> /\ Len(q) = Len(g) + 1 /\ Len(g) \in Nat
      /\ Front(q) = g /\ IsPrefix(g, q)
  BY NextName, PathLength
<1> HIDE DEF q
<1> DEFINE k == MountOf(q)
           m == MountOf(g)
           rel == Below(m, g)
           sub == Below(k, q)
<1>2. /\ k \in MountPoints /\ k \in Path /\ IsPrefix(k, q)
      /\ sub \in Path /\ k \o sub = q
      /\ \A x \in MountPoints : IsPrefix(x, q) => Len(x) <= Len(k)
  BY <1>1, MountOfPath
<1>3. /\ m \in MountPoints /\ m \in Path /\ IsPrefix(m, g)
      /\ rel \in Path /\ m \o rel = g
      /\ \A x \in MountPoints : IsPrefix(x, g) => Len(x) <= Len(m)
  BY MountOfPath
<1>4. q \in MountPoints => sub = <<>>
  <2> SUFFICES ASSUME q \in MountPoints PROVE sub = <<>>
    OBVIOUS
  <2>1. IsPrefix(q, q) /\ Len(q) <= Len(k)
    BY <1>1, <1>2, PrefixOrder
  <2>2. Len(k) \in Nat /\ Len(sub) \in Nat /\ Len(q) = Len(k) + Len(sub)
    BY <1>2, PathLength, Joined
  <2> HIDE DEF k, sub
  <2>3. Len(sub) = 0
    BY <2>1, <2>2
  <2> QED
    BY <1>2, <2>3, PathLength
<1>5. q \notin MountPoints => k = m /\ sub = Append(rel, c)
  <2> SUFFICES ASSUME q \notin MountPoints PROVE k = m /\ sub = Append(rel, c)
    OBVIOUS
  <2>1. IsPrefix(k, g)
    BY <1>1, <1>2, PrefixOfFront
  <2>2. IsPrefix(m, q)
    BY <1>1, <1>3, PrefixOrder
  <2>3. Len(k) <= Len(m) /\ Len(m) <= Len(k)
    BY <1>2, <1>3, <2>1, <2>2
  <2>4. Len(k) \in Nat /\ Len(m) \in Nat
    BY <1>2, <1>3, PathLength
  <2> HIDE DEF k, m, rel, sub
  <2>5. Len(k) = Len(m)
    BY <2>3, <2>4
  <2>6. k = SubSeq(q, 1, Len(k)) /\ m = SubSeq(q, 1, Len(m))
    BY <1>1, <1>2, <1>3, <2>2, BeginningOf
  <2>7. k = m
    BY <2>5, <2>6
  <2>8. <<c>> \in Path /\ rel \o <<c>> \in Path
    BY <1>3, NamesArePaths, Joined
  <2>9. m \o (rel \o <<c>>) = q
    <3>1. m \in Path /\ rel \in Path /\ <<c>> \in Path
      BY <1>3, <2>8
    <3>2. (m \o rel) \o <<c>> = m \o (rel \o <<c>>)
      BY ONLY <3>1, JoinedTwice
    <3> QED
      BY <1>1, <1>3, <3>2
  <2>10. Below(m, q) = rel \o <<c>>
    BY <1>3, <2>8, <2>9, BelowOfJoined
  <2>11. Append(rel, c) = rel \o <<c>>
    BY <1>3, AppendIsConcat DEF Path
  <2> QED
    BY <2>7, <2>10, <2>11 DEF sub
<1> QED
  BY <1>2, <1>4, <1>5 DEF q

LEMMA StatOfMissing ==
    ASSUME NEW t, IsTree(t), NEW p, Stat(t, p, TRUE).is = "dir"
    PROVE  p \in DOMAIN t
<1>1. CASE p \notin DOMAIN t
  <2>1. NodeAt(t, p) = Missing /\ Missing.is = "missing"
    BY <1>1 DEF NodeAt, Missing
  <2>2. Stat(t, p, TRUE) = Missing
    BY <2>1 DEF Stat
  <2> QED
    BY <2>1, <2>2
<1> QED
  BY <1>1

(* The names of a listing are the paths that are something. *)
LEMMA ListedHere ==
    ASSUME StateOK, NEW g \in Path, ~IsPrefix(<<"proc">>, g), NEW d, d = Classify(g),
           IsDirectory(d), d.guest = g, NEW c \in Name
    PROVE  LET q == Append(g, c)
           IN  c \in Listing(d) <=>
                   \/ q \in Programs \cup OverlayDirs \cup Devices \cup MountPoints
                   \/ VirtualLink(q) # NoLink
                   \/ Append(Below(MountOf(g), g), c) \in DOMAIN tree[MountOf(g)]
<1> DEFINE q == Append(g, c)
           m == MountOf(g)
           rel == Below(m, g)
           t == tree[m]
<1>1. m \in MountPoints /\ rel \in Path /\ IsTree(t)
  BY MountOfPath DEF StateOK
<1>2. c \in EntriesIn(g) <=> q \in Programs \cup OverlayDirs \cup Devices
  <2>1. Programs \cup OverlayDirs \cup Devices \subseteq Path
    BY Constants, KernelPaths
  <2> DEFINE S == Programs \cup OverlayDirs \cup Devices
  <2>2. EntriesIn(g) = {r[Len(r)] : r \in {x \in S \ {<<>>} : Front(x) = g}}
    BY DEF EntriesIn
  <2> HIDE DEF S
  <2>3. c \in EntriesIn(g) <=> q \in S
    BY <2>1, <2>2, LastNames DEF S
  <2> QED
    BY <2>3 DEF S
<1>3. c \in MountsIn(g) <=> q \in MountPoints
  BY Constants, LastNames DEF MountsIn
<1>4. (g = <<"dev">> /\ c \in {"stdin", "stdout", "stderr"}) <=> VirtualLink(q) # NoLink
  BY KernelAddsInDev
<1>5. c \in KernelNames(g) <=> \/ q \in Programs \cup OverlayDirs \cup Devices \cup MountPoints
                               \/ VirtualLink(q) # NoLink
  <2> HIDE DEF q
  <2> QED
    BY <1>2, <1>3, <1>4 DEF KernelNames
<1>6. CASE d.is = "mounted"
  <2>1. d.mount = m /\ d.rel = rel
    <3>1. d = Mounted(m, g)
      BY <1>6, ClassifiedOnMount
    <3> QED
      BY <3>1 DEF Mounted
  <2>2. Listing(d) = KernelNames(g) \cup
                         {r[Len(r)] : r \in {x \in DOMAIN t \ {<<>>} : Front(x) = rel}}
    BY <1>6, <2>1 DEF Listing
  <2>3. DOMAIN t \subseteq Path
    BY <1>1, TreeFacts
  <2> DEFINE S == DOMAIN t
  <2>4. c \in {r[Len(r)] : r \in {x \in S \ {<<>>} : Front(x) = rel}} <=> Append(rel, c) \in S
    <3> HIDE DEF S
    <3> QED
      BY <1>1, <2>3, LastNames DEF S
  <2> QED
    BY <1>5, <2>2, <2>4
<1>7. CASE d.is = "kernel dir"
  <2>1. Listing(d) = KernelNames(g)
    BY <1>7 DEF Listing
  <2>2. Append(rel, c) \notin DOMAIN t
    <3> SUFFICES ASSUME Append(rel, c) \in DOMAIN t PROVE FALSE
      OBVIOUS
    <3>1. Append(rel, c) # <<>> /\ Front(Append(rel, c)) = rel
      BY <1>1, NextName
    <3>2. rel \in DOMAIN t /\ t[rel] = Dir
      BY <1>1, <3>1, TreeFacts
    <3>3. Stat(t, rel, TRUE).is = "dir"
      <4>1. NodeAt(t, rel) = Dir /\ Dir.is = "dir"
        BY <3>2 DEF NodeAt, Dir
      <4>2. Stat(t, rel, TRUE) = Dir
        BY <4>1 DEF Stat
      <4> QED
        BY <4>1, <4>2
    <3>4. ~OfProc(g)
      <4>1. OfProc(g) => g[1] = "proc" /\ Len(g) > 1
        BY DEF OfProc
      <4>2. CASE g = <<>>
        <5>1. Len(g) = 0
          BY <4>2
        <5> QED
          BY <4>1, <5>1
      <4>3. CASE g # <<>>
        <5>1. Front(g) \in Path /\ g[Len(g)] \in Name /\ g = Append(Front(g), g[Len(g)])
          <6>1. Len(g) \in 1 .. Len(g)
            BY <4>3, PathLength
          <6>2. g[Len(g)] \in Name
            BY <6>1, ElementOfSeq DEF Path
          <6> QED
            BY <4>3, <6>2, FrontOfPath, NextName
        <5>2. ~IsPrefix(<<"proc">>, Front(g))
          <6>1. <<"proc">> \in Path
            BY DEF Path, Name
          <6> QED
            BY <4>3, <6>1, PrefixOfFront
        <5> QED
          BY <5>1, <5>2, KernelAddsInDev
      <4> QED
        BY <4>2, <4>3
    <3>5. /\ Program(g).is = "program" /\ Device(g).is = "device"
          /\ Mounted(m, g).is = "mounted"
      BY DEF Program, Device, Mounted
    <3> QED
      BY <1>7, <3>3, <3>4, <3>5 DEF Classify
  <2> QED
    BY <1>5, <2>1, <2>2
<1> QED
  BY <1>6, <1>7 DEF IsDirectory

LEMMA ExistsHere ==
    ASSUME StateOK, NEW g \in Path, IsReached(g), ~IsPrefix(<<"proc">>, g),
           NEW c \in Name \ {"/", ".", ".."}
    PROVE  LET q == Append(g, c)
           IN  Exists(Resolve(g, <<c>>, FALSE)) <=>
                   \/ q \in Programs \cup OverlayDirs \cup Devices \cup MountPoints
                   \/ VirtualLink(q) # NoLink
                   \/ Append(Below(MountOf(g), g), c) \in DOMAIN tree[MountOf(g)]
<1> DEFINE q == Append(g, c)
           k == MountOf(q)
           sub == Below(k, q)
           n == Resolve(g, <<c>>, FALSE)
<1>1. n = IF VirtualLink(q) # NoLink THEN KernelLink(VirtualLink(q)) ELSE Classify(q)
  BY LookedUpInDirectory DEF IsReached
<1>2. /\ k \in MountPoints /\ sub \in Path
      /\ q \in MountPoints => sub = <<>>
      /\ q \notin MountPoints => k = MountOf(g) /\ sub = Append(Below(MountOf(g), g), c)
  BY MountBelow
<1>3. ~OfProc(q) /\ q # <<"proc", "self", "fd">> /\ q # <<>>
  BY KernelAddsInDev, NextName
<1>4. IsTree(tree[k])
  BY <1>2 DEF StateOK
<1> HIDE DEF q, k, sub
<1>5. /\ Program(q).is = "program" /\ Device(q).is = "device" /\ KernelDir(q).is = "kernel dir"
      /\ KernelLink(VirtualLink(q)).is = "kernel link" /\ Mounted(k, q).is = "mounted"
      /\ Mounted(k, q).mount = k /\ Mounted(k, q).rel = sub
  BY DEF Program, Device, KernelDir, KernelLink, Mounted, sub
<1>6. sub \in DOMAIN tree[k] <=>
          \/ q \in MountPoints
          \/ q \notin MountPoints /\ Append(Below(MountOf(g), g), c) \in DOMAIN tree[MountOf(g)]
  <2>1. <<>> \in DOMAIN tree[k]
    BY <1>4, TreeFacts
  <2> QED
    BY <1>2, <2>1
<1>7. Classify(q) = IF q \in Programs THEN Program(q)
                    ELSE IF q \in Devices THEN Device(q)
                    ELSE IF q \in OverlayDirs /\ Stat(tree[k], sub, TRUE).is # "dir" THEN KernelDir(q)
                    ELSE Mounted(k, q)
  BY <1>3 DEF Classify, IsOverlayDir, k, sub
<1> HIDE DEF n
<1>8. CASE VirtualLink(q) # NoLink
  BY <1>1, <1>5, <1>8 DEF Exists, q, n
<1>9. CASE VirtualLink(q) = NoLink /\ q \in Programs \cup Devices
  <2>1. Exists(n)
    BY <1>1, <1>5, <1>7, <1>9 DEF Exists
  <2> QED
    BY <1>9, <2>1 DEF q, n
<1>10. CASE /\ VirtualLink(q) = NoLink /\ q \notin Programs \cup Devices
            /\ q \in OverlayDirs /\ Stat(tree[k], sub, TRUE).is # "dir"
  <2>1. Exists(n)
    BY <1>1, <1>5, <1>7, <1>10 DEF Exists
  <2> QED
    BY <1>10, <2>1 DEF q, n
<1>11. CASE /\ VirtualLink(q) = NoLink /\ q \notin Programs \cup Devices
            /\ ~(q \in OverlayDirs /\ Stat(tree[k], sub, TRUE).is # "dir")
  <2>1. n = Mounted(k, q)
    BY <1>1, <1>7, <1>11
  <2>2. Exists(n) <=> NodeAt(tree[k], sub) # Missing
    BY <1>5, <2>1 DEF Exists
  <2>3. Exists(n) <=> sub \in DOMAIN tree[k]
    BY <1>4, <2>2, NodeOrMissing
  <2>4. q \in OverlayDirs => sub \in DOMAIN tree[k]
    BY <1>4, <1>11, StatOfMissing
  <2>5. Exists(n) <=>
            \/ q \in Programs \cup OverlayDirs \cup Devices \cup MountPoints
            \/ VirtualLink(q) # NoLink
            \/ Append(Below(MountOf(g), g), c) \in DOMAIN tree[MountOf(g)]
    <3>1. q \in MountPoints =>
            (sub \in DOMAIN tree[k])
      BY <1>6
    <3>2. q \notin MountPoints /\ q \notin OverlayDirs =>
            (sub \in DOMAIN tree[k] <=> Append(Below(MountOf(g), g), c) \in DOMAIN tree[MountOf(g)])
      BY <1>6
    <3>3. Append(Below(MountOf(g), g), c) \in DOMAIN tree[MountOf(g)] => sub \in DOMAIN tree[k]
      BY <1>6
    <3> QED
      BY <1>11, <2>3, <2>4, <3>1, <3>2, <3>3
  <2> QED
    BY <2>5 DEF q, n
<1> QED
  BY <1>8, <1>9, <1>10, <1>11

LEMMA AskedNames ==
    Names \subseteq Name /\ Probes \subseteq Path
<1>1. Probes \subseteq Path
  <2>1. STRING \subseteq Name
    BY DEF Name
  <2>2. \A q \in Seq(STRING) : q \in Path
    BY <2>1, SeqMonotonic DEF Path
  <2> QED
    BY <2>2, FilesAssumption
<1>2. MountPoints \subseteq Path /\ OverlayDirs \subseteq Path
  BY Constants, KernelPaths
<1>3. \A p \in Path : \A i \in 1 .. Len(p) : p[i] \in Name
  BY ElementOfSeq DEF Path
<1>4. \A p \in Path \ {<<>>} : p[1] \in Name
  <2>1. \A p \in Path \ {<<>>} : 1 \in 1 .. Len(p)
    BY PathLength
  <2> QED
    BY <1>3, <2>1
<1>5. UNION {{p[i] : i \in 1 .. Len(p)} : p \in Probes} \subseteq Name
  BY <1>1, <1>3
<1>6. {p[1] : p \in MountPoints \ {<<>>}} \subseteq Name
  BY <1>2, <1>4
<1>7. {p[1] : p \in OverlayDirs \ {<<>>}} \subseteq Name
  BY <1>2, <1>4
<1>8. Names \subseteq Name
  <2> DEFINE A == UNION {{p[i] : i \in 1 .. Len(p)} : p \in Probes}
             B == {p[1] : p \in MountPoints \ {<<>>}}
             C == {p[1] : p \in OverlayDirs \ {<<>>}}
  <2>1. Names = A \cup B \cup C
    BY DEF Names
  <2> HIDE DEF A, B, C
  <2>2. A \subseteq Name /\ B \subseteq Name /\ C \subseteq Name
    BY <1>5, <1>6, <1>7, Zenon DEF A, B, C
  <2> QED
    BY <2>1, <2>2
<1> QED
  BY <1>1, <1>8

(* In every directory a program can reach, outside /proc, a listing shows  *)
(* the names that can be looked up and no others, whatever has been made,  *)
(* linked, renamed and removed.                                            *)
THEOREM ListingsAgree ==
    Spec => []ListingAgreesWithLookup
<1>1. ASSUME IInv PROVE ListingAgreesWithLookup
  <2> SUFFICES ASSUME NEW p \in Probes, IsDirectory(Resolve(cwd, p, TRUE)),
                      ~IsPrefix(<<"proc">>, Resolve(cwd, p, TRUE).guest),
                      NEW c \in Names \ {"/", ".", ".."}
               PROVE  c \in Listing(Resolve(cwd, p, TRUE)) <=>
                          Exists(Resolve(Resolve(cwd, p, TRUE).guest, <<c>>, FALSE))
    BY DEF ListingAgreesWithLookup
  <2> DEFINE d == Resolve(cwd, p, TRUE)
  <2>1. StateOK /\ cwd \in Path /\ p \in Path /\ c \in Name \ {"/", ".", ".."}
    BY <1>1, AskedNames DEF IInv, StateOK
  <2>2. IsDirectory(d) /\ ~IsPrefix(<<"proc">>, d.guest)
    OBVIOUS
  <2>3. d.guest \in Path /\ IsReached(d.guest) /\ d = Classify(d.guest)
    BY <2>1, DirectoryReached
  <2> HIDE DEF d
  <2> DEFINE g == d.guest
  <2>4. g \in Path /\ IsReached(g) /\ d = Classify(g) /\ d.guest = g /\ ~IsPrefix(<<"proc">>, g)
    BY <2>2, <2>3
  <2> HIDE DEF g
  <2>5. c \in Listing(d) <=> Exists(Resolve(g, <<c>>, FALSE))
    BY <2>1, <2>2, <2>4, ListedHere, ExistsHere
  <2> QED
    BY <2>5 DEF d, g
<1> QED
  BY <1>1, InvariantHolds, PTL

-----------------------------------------------------------------------------
(* 11. The resolver finds what the walk finds.                             *)
(*                                                                         *)
(* A function that calls itself last exists whether or not it ends: from   *)
(* where it never ends it may be anything.                                 *)
Trail(g, n, s, Stop, next) ==
    /\ DOMAIN g = 0 .. n /\ g[0] = s /\ g[n] \in Stop
    /\ \A i \in 0 .. n - 1 : g[i] \notin Stop /\ g[i + 1] = next[g[i]]
EndsOf(s, D, Stop, next) == {e \in D : \E n \in Nat : \E g : Trail(g, n, s, Stop, next) /\ g[n] = e}

LEMMA StopsWhereItIs ==
    ASSUME NEW D, NEW Stop, NEW next, NEW s \in D, s \in Stop
    PROVE  EndsOf(s, D, Stop, next) = {s}
<1>1. s \in EndsOf(s, D, Stop, next)
  <2> DEFINE g == [i \in 0 .. 0 |-> s]
  <2>1. 0 \in 0 .. 0 /\ \A i \in 0 .. 0 - 1 : FALSE
    OBVIOUS
  <2>2. DOMAIN g = 0 .. 0 /\ g[0] = s
    BY <2>1
  <2> HIDE DEF g
  <2>3. Trail(g, 0, s, Stop, next) /\ g[0] = s /\ 0 \in Nat
    BY <2>1, <2>2 DEF Trail
  <2> QED
    BY <2>3 DEF EndsOf
<1>2. ASSUME NEW e \in EndsOf(s, D, Stop, next) PROVE e = s
  <2>1. PICK n \in Nat : \E g : Trail(g, n, s, Stop, next) /\ g[n] = e
    BY <1>2 DEF EndsOf
  <2>2. PICK g : Trail(g, n, s, Stop, next) /\ g[n] = e
    BY <2>1
  <2>3. n # 0 => 0 \in 0 .. n - 1
    OBVIOUS
  <2>4. n = 0
    BY <2>2, <2>3 DEF Trail
  <2> QED
    BY <2>2, <2>4 DEF Trail
<1> QED
  BY <1>1, <1>2

LEMMA StopsWhereTheNextDoes ==
    ASSUME NEW D, NEW Stop, NEW next, NEW s \in D, s \notin Stop
    PROVE  EndsOf(s, D, Stop, next) = EndsOf(next[s], D, Stop, next)
<1>1. ASSUME NEW e \in EndsOf(s, D, Stop, next) PROVE e \in EndsOf(next[s], D, Stop, next)
  <2>1. PICK n \in Nat : \E g : Trail(g, n, s, Stop, next) /\ g[n] = e
    BY <1>1 DEF EndsOf
  <2>2. PICK g : Trail(g, n, s, Stop, next) /\ g[n] = e
    BY <2>1
  <2>3. n # 0
    BY <2>2 DEF Trail
  <2> DEFINE k == n - 1
             h == [i \in 0 .. k |-> g[i + 1]]
  <2>4. k \in Nat /\ n = k + 1 /\ 0 \in 0 .. n - 1 /\ 0 \in 0 .. k /\ k \in 0 .. k
        /\ \A i \in 0 .. k - 1 : i \in 0 .. k /\ i + 1 \in 0 .. k /\ i + 1 \in 0 .. n - 1
    BY <2>3
  <2>5. DOMAIN h = 0 .. k /\ \A i \in 0 .. k : h[i] = g[i + 1]
    OBVIOUS
  <2> HIDE DEF k, h
  <2>6. g[0] = s /\ g[n] \in Stop /\ \A i \in 0 .. n - 1 : g[i] \notin Stop /\ g[i + 1] = next[g[i]]
    BY <2>2 DEF Trail
  <2>7. 0 + 1 = 1
    OBVIOUS
  <2>8. h[0] = next[s]
    BY <2>4, <2>5, <2>6, <2>7
  <2>9. h[k] = e /\ h[k] \in Stop
    BY <2>2, <2>4, <2>5, <2>6
  <2>10. \A i \in 0 .. k - 1 : h[i] \notin Stop /\ h[i + 1] = next[h[i]]
    BY <2>4, <2>5, <2>6
  <2>11. Trail(h, k, next[s], Stop, next)
    BY <2>5, <2>8, <2>9, <2>10 DEF Trail
  <2>12. e \in D
    BY <1>1 DEF EndsOf
  <2> QED
    BY <2>4, <2>9, <2>11, <2>12 DEF EndsOf
<1>2. ASSUME NEW e \in EndsOf(next[s], D, Stop, next) PROVE e \in EndsOf(s, D, Stop, next)
  <2>1. PICK n \in Nat : \E g : Trail(g, n, next[s], Stop, next) /\ g[n] = e
    BY <1>2 DEF EndsOf
  <2>2. PICK g : Trail(g, n, next[s], Stop, next) /\ g[n] = e
    BY <2>1
  <2> DEFINE k == n + 1
             h == [i \in 0 .. k |-> IF i = 0 THEN s ELSE g[i - 1]]
  <2>3. /\ k \in Nat /\ k # 0 /\ k - 1 = n /\ 0 \in 0 .. k /\ k \in 0 .. k
        /\ \A i \in 0 .. k - 1 : i \in 0 .. k /\ i + 1 \in 0 .. k /\ i + 1 # 0 /\ (i + 1) - 1 = i
        /\ \A i \in 0 .. k - 1 : i # 0 => i - 1 \in 0 .. n - 1 /\ (i - 1) + 1 = i
    OBVIOUS
  <2>4. DOMAIN h = 0 .. k /\ \A i \in 0 .. k : h[i] = IF i = 0 THEN s ELSE g[i - 1]
    OBVIOUS
  <2> HIDE DEF k, h
  <2>5. g[0] = next[s] /\ g[n] \in Stop /\ \A i \in 0 .. n - 1 : g[i] \notin Stop /\ g[i + 1] = next[g[i]]
    BY <2>2 DEF Trail
  <2>6. h[0] = s /\ h[k] = e /\ h[k] \in Stop
    BY <2>2, <2>3, <2>4, <2>5
  <2>7. ASSUME NEW i \in 0 .. k - 1 PROVE h[i] \notin Stop /\ h[i + 1] = next[h[i]]
    <3>1. h[i + 1] = g[i]
      BY <2>3, <2>4
    <3>2. CASE i = 0
      BY <2>5, <2>6, <3>1, <3>2
    <3>3. CASE i # 0
      <4>1. h[i] = g[i - 1] /\ i - 1 \in 0 .. n - 1 /\ (i - 1) + 1 = i
        BY <2>3, <2>4, <3>3
      <4> QED
        BY <2>5, <3>1, <4>1
    <3> QED
      BY <3>2, <3>3
  <2>8. Trail(h, k, s, Stop, next)
    BY <2>4, <2>6, <2>7 DEF Trail
  <2>9. e \in D
    BY <1>2 DEF EndsOf
  <2> QED
    BY <2>3, <2>6, <2>8, <2>9 DEF EndsOf
<1> QED
  BY <1>1, <1>2

CallsItselfLast(f, D, Stop, out, next) ==
    f = [s \in D |-> IF s \in Stop THEN out[s] ELSE f[next[s]]]

LEMMA TailRecursionExists ==
    ASSUME NEW D, NEW Stop, NEW out, NEW next, \A s \in D : s \notin Stop => next[s] \in D
    PROVE  \E f : CallsItselfLast(f, D, Stop, out, next)
<1> DEFINE end(s) == CHOOSE e : e \in EndsOf(s, D, Stop, next)
           h == [s \in D |-> out[end(s)]]
<1>1. \A s \in D : h[s] = out[end(s)]
  OBVIOUS
<1>2. ASSUME NEW s \in D, s \in Stop PROVE h[s] = out[s]
  <2>1. end(s) \in {s}
    BY <1>2, StopsWhereItIs
  <2> QED
    BY <1>1, <2>1
<1>3. ASSUME NEW s \in D, s \notin Stop PROVE h[s] = h[next[s]]
  <2>1. next[s] \in D /\ EndsOf(s, D, Stop, next) = EndsOf(next[s], D, Stop, next)
    BY <1>3, StopsWhereTheNextDoes
  <2>2. end(s) = end(next[s])
    BY <2>1
  <2> HIDE DEF end
  <2> QED
    BY <1>1, <2>1, <2>2
<1>4. DOMAIN h = D /\ h = [s \in D |-> h[s]]
  OBVIOUS
<1> HIDE DEF h
<1>5. h = [s \in D |-> IF s \in Stop THEN out[s] ELSE h[next[s]]]
  BY <1>2, <1>3, <1>4
<1> QED
  BY <1>5 DEF CallsItselfLast

(* Folding a path is folding what comes first, and then the rest. *)
LEMMA FoldOfPart ==
    ASSUME NEW path \in Path, NEW g \in [0 .. Len(path) -> Path], g[0] = <<>>,
           \A n \in 1 .. Len(path) : g[n] = Under(g[n - 1], path[n]),
           NEW k \in 0 .. Len(path)
    PROVE  g[k] = Folded(SubSeq(path, 1, k))
<1> DEFINE q == SubSeq(path, 1, k)
<1>1. Len(path) \in Nat /\ q \in Path /\ Len(q) = k /\ \A i \in 1 .. k : q[i] = path[i]
  BY PathLength, PartOfPath
<1> HIDE DEF q
<1>2. PICK h \in [0 .. Len(q) -> Path] :
         /\ Folded(q) = h[Len(q)]
         /\ h[0] = <<>>
         /\ \A n \in 1 .. Len(q) : h[n] = Under(h[n - 1], q[n])
  BY <1>1, FoldedUnfolds
<1> DEFINE S == {n \in Nat : n <= k => h[n] = g[n]}
<1>3. 0 \in S
  BY <1>2
<1>4. ASSUME NEW n \in Nat, n \in S, n + 1 <= k PROVE h[n + 1] = g[n + 1]
  <2>1. n + 1 \in 1 .. k /\ n + 1 \in 1 .. Len(path) /\ (n + 1) - 1 = n
    BY <1>1, <1>4
  <2>2. h[n] = g[n]
    BY <1>1, <1>4
  <2>3. h[n + 1] = Under(h[n], q[n + 1]) /\ g[n + 1] = Under(g[n], path[n + 1])
    BY <1>1, <1>2, <2>1
  <2> QED
    BY <1>1, <2>1, <2>2, <2>3
<1>5. \A n \in Nat : n \in S => n + 1 \in S
  BY <1>4
<1> HIDE DEF S
<1>6. \A n \in Nat : n \in S
  BY <1>3, <1>5, Induction
<1>7. k \in Nat /\ k <= k
  BY <1>1
<1>8. h[k] = g[k]
  BY <1>6, <1>7 DEF S
<1> QED
  BY <1>1, <1>2, <1>8 DEF q

LEMMA FoldsTogether ==
    ASSUME NEW a \in Path, NEW b \in Path, Folded(a) = Folded(b), NEW rest \in Path
    PROVE  Folded(a \o rest) = Folded(b \o rest)
<1> DEFINE p == a \o rest
           q == b \o rest
<1>1. Len(a) \in Nat /\ Len(b) \in Nat /\ Len(rest) \in Nat
  BY PathLength
<1>2. /\ p \in Path /\ Len(p) = Len(a) + Len(rest)
      /\ \A i \in 1 .. Len(a) + Len(rest) : p[i] = IF i <= Len(a) THEN a[i] ELSE rest[i - Len(a)]
      /\ q \in Path /\ Len(q) = Len(b) + Len(rest)
      /\ \A i \in 1 .. Len(b) + Len(rest) : q[i] = IF i <= Len(b) THEN b[i] ELSE rest[i - Len(b)]
  BY ConcatProperties DEF Path
<1>3. SubSeq(p, 1, Len(a)) = a /\ SubSeq(q, 1, Len(b)) = b
  <2>1. IsPrefix(a, p) /\ IsPrefix(b, q)
    BY BelowOfJoined
  <2> HIDE DEF p, q
  <2> QED
    BY <1>2, <2>1, BeginningOf
<1> HIDE DEF p, q
<1>4. PICK g \in [0 .. Len(p) -> Path] :
         /\ Folded(p) = g[Len(p)]
         /\ g[0] = <<>>
         /\ \A n \in 1 .. Len(p) : g[n] = Under(g[n - 1], p[n])
  BY <1>2, FoldedUnfolds
<1>5. PICK h \in [0 .. Len(q) -> Path] :
         /\ Folded(q) = h[Len(q)]
         /\ h[0] = <<>>
         /\ \A n \in 1 .. Len(q) : h[n] = Under(h[n - 1], q[n])
  BY <1>2, FoldedUnfolds
<1>6. g[Len(a)] = Folded(a) /\ h[Len(b)] = Folded(b)
  <2>1. Len(a) \in 0 .. Len(p) /\ Len(b) \in 0 .. Len(q)
    BY <1>1, <1>2
  <2> QED
    BY <1>2, <1>3, <1>4, <1>5, <2>1, FoldOfPart
<1> DEFINE S == {n \in Nat : n <= Len(rest) => g[Len(a) + n] = h[Len(b) + n]}
<1>7. 0 \in S
  <2>1. Len(a) + 0 = Len(a) /\ Len(b) + 0 = Len(b)
    BY <1>1
  <2> QED
    BY <1>6, <2>1
<1>8. ASSUME NEW n \in Nat, n \in S, n + 1 <= Len(rest)
      PROVE  g[Len(a) + (n + 1)] = h[Len(b) + (n + 1)]
  <2> DEFINE i == Len(a) + (n + 1)
             j == Len(b) + (n + 1)
  <2>1. /\ i \in 1 .. Len(p) /\ i - 1 = Len(a) + n /\ ~(i <= Len(a)) /\ i - Len(a) = n + 1
        /\ j \in 1 .. Len(q) /\ j - 1 = Len(b) + n /\ ~(j <= Len(b)) /\ j - Len(b) = n + 1
        /\ i \in 1 .. Len(a) + Len(rest) /\ j \in 1 .. Len(b) + Len(rest)
    BY <1>1, <1>2, <1>8
  <2> HIDE DEF i, j
  <2>2. g[Len(a) + n] = h[Len(b) + n]
    BY <1>1, <1>8
  <2>3. p[i] = rest[n + 1] /\ q[j] = rest[n + 1]
    BY <1>2, <2>1
  <2>4. g[i] = Under(g[i - 1], p[i]) /\ h[j] = Under(h[j - 1], q[j])
    BY <1>4, <1>5, <2>1
  <2>5. g[i] = h[j]
    BY <2>1, <2>2, <2>3, <2>4
  <2> QED
    BY <2>5 DEF i, j
<1>9. \A n \in Nat : n \in S => n + 1 \in S
  <2> SUFFICES ASSUME NEW n \in Nat, n \in S PROVE n + 1 \in S
    OBVIOUS
  <2>1. n + 1 <= Len(rest) => g[Len(a) + (n + 1)] = h[Len(b) + (n + 1)]
    BY <1>8
  <2> QED
    BY <2>1
<1> HIDE DEF S
<1>10. \A n \in Nat : n \in S
  BY <1>7, <1>9, Induction
<1>11. g[Len(p)] = h[Len(q)]
  BY <1>1, <1>2, <1>10 DEF S
<1> QED
  BY <1>4, <1>5, <1>11 DEF p, q

LEMMA FoldOneMore ==
    ASSUME NEW p \in Path, NEW c \in Name
    PROVE  Folded(p \o <<c>>) = Under(Folded(p), c)
<1> DEFINE q == p \o <<c>>
<1>1. /\ Len(p) \in Nat /\ q \in Path /\ Len(q) = Len(p) + 1 /\ q[Len(q)] = c /\ IsPrefix(p, q)
  <2>1. Append(p, c) = q
    BY NextName
  <2> HIDE DEF q
  <2> QED
    BY <2>1, NextName, PathLength
<1> HIDE DEF q
<1>2. SubSeq(q, 1, Len(p)) = p
  BY <1>1, BeginningOf
<1>3. PICK g \in [0 .. Len(q) -> Path] :
         /\ Folded(q) = g[Len(q)]
         /\ g[0] = <<>>
         /\ \A n \in 1 .. Len(q) : g[n] = Under(g[n - 1], q[n])
  BY <1>1, FoldedUnfolds
<1>4. Len(p) \in 0 .. Len(q) /\ Len(q) \in 1 .. Len(q) /\ Len(q) - 1 = Len(p)
  BY <1>1
<1>5. g[Len(p)] = Folded(p)
  BY <1>1, <1>2, <1>3, <1>4, FoldOfPart
<1>6. g[Len(q)] = Under(g[Len(p)], q[Len(q)])
  BY <1>3, <1>4
<1> QED
  BY <1>1, <1>3, <1>5, <1>6 DEF q

LEMMA FoldPlainRest ==
    ASSUME NEW p \in Path, NEW rest \in Path, Plain(rest)
    PROVE  Folded(p \o rest) = Folded(p) \o rest
<1> DEFINE f == Folded(p)
<1>1. f \in Path /\ Plain(f)
  <2>1. \E q \in Path : f = Normalize(q, <<>>)
    <3>1. ~Absolute(<<>>) /\ p \o <<>> = p
      BY PathLength DEF Absolute
    <3> QED
      BY <3>1 DEF Normalize
  <2> QED
    BY <2>1, NormalizeIsPath, NormalizeIsPlain, EmptyIsPath
<1> HIDE DEF f
<1>2. Folded(f) = f
  BY <1>1, FoldsToItself
<1>3. Folded(p \o rest) = Folded(f \o rest)
  BY <1>1, <1>2, FoldsTogether DEF f
<1>4. f \o rest \in Path /\ Plain(f \o rest)
  BY <1>1, Joined, PlainParts
<1> QED
  BY <1>3, <1>4, FoldsToItself DEF f

(* The walk is such a function. *)
Places == [at : Path, todo : Path, hops : 0 .. MaxHops]

LEMMA HeadAndTail ==
    ASSUME NEW p \in Path, p # <<>>
    PROVE  /\ Head(p) \in Name /\ Head(p) = p[1]
           /\ Tail(p) \in Path /\ Len(Tail(p)) = Len(p) - 1 /\ <<Head(p)>> \o Tail(p) = p
           /\ \A i \in 1 .. Len(Tail(p)) : Tail(p)[i] = p[i + 1]
<1>1. Len(p) \in Nat \ {0}
  BY PathLength
<1>2. Head(p) = p[1] /\ Head(p) \in Name /\ Tail(p) \in Path /\ Len(Tail(p)) = Len(p) - 1
      /\ \A i \in 1 .. Len(Tail(p)) : Tail(p)[i] = p[i + 1]
  BY HeadTailProperties DEF Path
<1> DEFINE c == Head(p)
           r == Tail(p)
           q == <<c>> \o r
<1>3. /\ c = p[1] /\ c \in Name /\ r \in Path /\ Len(r) = Len(p) - 1
      /\ \A i \in 1 .. Len(r) : r[i] = p[i + 1]
  BY <1>2
<1> HIDE DEF c, r
<1>4. q \in Path /\ Len(q) = 1 + Len(r) /\ q[1] = c /\ \A i \in 1 .. Len(r) : q[i + 1] = r[i]
  BY <1>3, NamesArePaths
<1> HIDE DEF q
<1>5. Len(q) = Len(p)
  BY <1>1, <1>3, <1>4
<1>6. \A i \in 1 .. Len(p) : i = 1 \/ (i - 1 \in 1 .. Len(r) /\ (i - 1) + 1 = i)
  BY <1>1, <1>3
<1>7. \A i \in 1 .. Len(p) : q[i] = p[i]
  BY <1>3, <1>4, <1>6
<1>8. q = p
  BY <1>4, <1>5, <1>7, SeqEqual DEF Path
<1> QED
  BY <1>2, <1>8 DEF q, c, r

LEMMA FollowedIsPath ==
    ASSUME StateOK, NEW s \in Places, NEW follow \in BOOLEAN, s.todo # <<>>
    PROVE  Followed(s, follow) \in Path
<1>1. s.at \in Path /\ Head(s.todo) \in Name
  BY HeadAndTail DEF Places
<1>2. Append(s.at, Head(s.todo)) \in Path
  BY <1>1, NextName
<1>3. LinkTarget(Append(s.at, Head(s.todo))) \in Path
  BY <1>2, TargetIsPath
<1> QED
  BY <1>3, EmptyIsPath DEF Followed, NoLink

LEMMA OnwardIsPlace ==
    ASSUME StateOK, NEW s \in Places, NEW follow \in BOOLEAN, ~Arrived(s, follow)
    PROVE  Onward(s, follow) \in Places
<1> DEFINE target == Followed(s, follow)
           c == Head(s.todo)
           rest == Tail(s.todo)
<1>1. s.at \in Path /\ s.todo \in Path /\ s.hops \in 0 .. MaxHops /\ s.todo # <<>>
      /\ (s.hops = MaxHops => target = NoLink)
  BY DEF Places, Arrived
<1>2. target \in Path /\ c \in Name /\ rest \in Path
  BY <1>1, FollowedIsPath, HeadAndTail
<1>3. Onward(s, follow) = IF target # NoLink THEN Place(s.at, target \o rest, s.hops + 1)
                          ELSE Place(IF c = "/" THEN <<>> ELSE Under(s.at, c), rest, s.hops)
  BY DEF Onward
<1> HIDE DEF target, c, rest
<1>4. MaxHops \in Nat
  BY Constants
<1>5. CASE target # NoLink
  <2>1. s.hops + 1 \in 0 .. MaxHops
    BY <1>1, <1>4, <1>5
  <2>2. target \o rest \in Path
    BY <1>2, Joined
  <2> QED
    BY <1>1, <1>3, <1>5, <2>1, <2>2 DEF Place, Places
<1>6. CASE target = NoLink
  <2>1. (IF c = "/" THEN <<>> ELSE Under(s.at, c)) \in Path
    BY <1>1, <1>2, UnderIsPath, EmptyIsPath
  <2> QED
    BY <1>1, <1>2, <1>3, <1>6, <2>1 DEF Place, Places
<1> QED
  BY <1>5, <1>6

LEMMA WalkUnfolds ==
    ASSUME StateOK, NEW path \in Path, NEW follow \in BOOLEAN
    PROVE  \E walk : /\ Walk(path, follow) = walk[Place(<<>>, path, 0)]
                     /\ \A s \in Places : walk[s] = IF Arrived(s, follow) THEN Found(s)
                                                    ELSE walk[Onward(s, follow)]
<1> DEFINE Stop == {s \in Places : Arrived(s, follow)}
           out == [s \in Places |-> Found(s)]
           next == [s \in Places |-> Onward(s, follow)]
           Round(f) == [s \in Places |-> IF Arrived(s, follow) THEN Found(s)
                                         ELSE f[Onward(s, follow)]]
           walk == CHOOSE f : f = Round(f)
<1>1. \A s \in Places : /\ s \in Stop <=> Arrived(s, follow)
                        /\ out[s] = Found(s) /\ next[s] = Onward(s, follow)
                        /\ s \notin Stop => next[s] \in Places
  BY OnwardIsPlace
<1> HIDE DEF Stop, out, next
<1>2. PICK f : CallsItselfLast(f, Places, Stop, out, next)
  <2>1. \A s \in Places : s \notin Stop => next[s] \in Places
    BY <1>1
  <2> QED
    BY <2>1, TailRecursionExists
<1>3. f = Round(f)
  BY <1>1, <1>2 DEF CallsItselfLast
<1> HIDE DEF Round
<1>4. walk = Round(walk)
  BY <1>3
<1>5. Walk(path, follow) = walk[Place(<<>>, path, 0)]
  BY DEF Walk, Places, Round
<1> HIDE DEF walk
<1>6. \A s \in Places : walk[s] = IF Arrived(s, follow) THEN Found(s) ELSE walk[Onward(s, follow)]
  BY <1>4 DEF Round
<1> QED
  BY <1>5, <1>6

(* The targets of links, those of the kernel's among them, as the theorem  *)
(* takes them.                                                             *)
Orderly(t) ==
    \A j \in 1 .. Len(t) :
        /\ t[j] = "/" => j = 1
        /\ t[j] \in {".", ".."} => \A i \in 1 .. j : t[i] \in {"/", ".", ".."}

LEMMA RootedIsOrderly ==
    ASSUME NEW p \in Path, Plain(p)
    PROVE  Orderly(<<"/">> \o p)
<1> DEFINE q == <<"/">> \o p
<1>1. "/" \in Name /\ Len(p) \in Nat
  BY PathLength DEF Name
<1>2. Len(q) = 1 + Len(p) /\ q[1] = "/" /\ \A i \in 1 .. Len(p) : q[i + 1] = p[i]
  BY <1>1, NamesArePaths
<1> HIDE DEF q
<1>3. \A j \in 1 .. Len(q) : j = 1 \/ (j - 1 \in 1 .. Len(p) /\ (j - 1) + 1 = j)
  BY <1>1, <1>2
<1>4. ASSUME NEW j \in 1 .. Len(q), j # 1 PROVE q[j] \notin {"/", ".", ".."}
  <2>1. j - 1 \in 1 .. Len(p) /\ q[j] = p[j - 1]
    BY <1>2, <1>3, <1>4
  <2> QED
    BY <2>1 DEF Plain
<1>5. Orderly(q)
  BY <1>2, <1>4 DEF Orderly
<1> QED
  BY <1>5 DEF q

LEMMA PlainRootedNames ==
    ASSUME NEW a \in Name \ {"/", ".", ".."}, NEW b \in Name \ {"/", ".", ".."},
           NEW c \in Name \ {"/", ".", ".."}, NEW d \in Name \ {"/", ".", ".."}
    PROVE  Orderly(<<"/", a, b, c, d>>)
<1> DEFINE q == <<"/", a, b, c, d>>
<1>1. Len(q) = 5 /\ q[1] = "/" /\ q[2] = a /\ q[3] = b /\ q[4] = c /\ q[5] = d
  OBVIOUS
<1> HIDE DEF q
<1>2. \A j \in 1 .. Len(q) : j \in {1, 2, 3, 4, 5}
  BY <1>1
<1>3. \A j \in 1 .. Len(q) : j = 1 \/ q[j] \notin {"/", ".", ".."}
  BY <1>1, <1>2
<1>4. Orderly(q)
  BY <1>1, <1>3 DEF Orderly
<1> QED
  BY <1>4 DEF q

LEMMA LinksAreOrderly ==
    ASSUME StateOK, OrderlyTargets, Plain(cwd), NEW p \in Path
    PROVE  Orderly(LinkTarget(p))
<1>1. exe \in Path /\ cwd \in Path /\ Plain(exe)
  BY Constants DEF StateOK, OrderlyTargets, Plain
<1>2. Orderly(<<"/">> \o exe) /\ Orderly(<<"/">> \o cwd)
  BY <1>1, RootedIsOrderly
<1>3. /\ Orderly(<<"/", "proc", "self", "fd", "0">>)
      /\ Orderly(<<"/", "proc", "self", "fd", "1">>)
      /\ Orderly(<<"/", "proc", "self", "fd", "2">>)
  <2>1. {"proc", "self", "fd", "0", "1", "2"} \subseteq Name \ {"/", ".", ".."}
    BY DEF Name
  <2> QED
    BY <2>1, PlainRootedNames
<1>4. Orderly(NoLink)
  <2>1. \A j \in 1 .. Len(<<>>) : FALSE
    BY PathLength, EmptyIsPath
  <2> QED
    BY <2>1 DEF Orderly, NoLink
<1>5. Orderly(VirtualLink(p))
  BY <1>2, <1>3, <1>4, Zenon DEF VirtualLink
<1> DEFINE n == NodeAt(tree[MountOf(p)], Below(MountOf(p), p))
<1>6. n.is = "link" => n.to \in Targets
  <2>1. IsTree(tree[MountOf(p)]) /\ Below(MountOf(p), p) \in Path
    BY MountOfPath DEF StateOK
  <2>2. n \in Nodes \cup {Missing}
    BY <2>1, NodeOrMissing
  <2>3. Missing.is # "link"
    BY DEF Missing
  <2> HIDE DEF n
  <2> QED
    BY <2>2, <2>3, NodesApart
<1>7. LinkTarget(p) = IF VirtualLink(p) # NoLink THEN VirtualLink(p)
                      ELSE IF n.is # "link" \/ p \in Programs \cup Devices THEN NoLink ELSE n.to
  BY DEF LinkTarget
<1> HIDE DEF n
<1>8. \A t \in Targets : Orderly(t)
  BY DEF OrderlyTargets, Orderly
<1> QED
  BY <1>4, <1>5, <1>6, <1>7, <1>8

(* The names that are left to go stay orderly. *)
LEMMA RestIsOrderly ==
    ASSUME NEW p \in Path, p # <<>>, Orderly(p)
    PROVE  /\ Orderly(Tail(p)) /\ ~Absolute(Tail(p))
           /\ Head(p) \notin {"/", ".", ".."} => Plain(Tail(p))
<1> DEFINE c == Head(p)
           r == Tail(p)
<1>1. Len(p) \in Nat \ {0} /\ c = p[1] /\ r \in Path /\ Len(r) \in Nat /\ Len(r) = Len(p) - 1
      /\ \A i \in 1 .. Len(r) : r[i] = p[i + 1]
  BY PathLength, HeadAndTail
<1> HIDE DEF c, r
<1>2. \A j \in 1 .. Len(r) : j + 1 \in 1 .. Len(p) /\ j + 1 # 1 /\ 1 \in 1 .. j + 1
                             /\ \A i \in 1 .. j : i + 1 \in 1 .. j + 1 /\ i \in 1 .. Len(r)
  BY <1>1
<1>3. \A j \in 1 .. Len(r) : r[j] # "/"
  BY <1>1, <1>2 DEF Orderly
<1>4. ASSUME NEW j \in 1 .. Len(r), r[j] \in {".", ".."}
      PROVE  c \in {"/", ".", ".."} /\ \A i \in 1 .. j : r[i] \in {"/", ".", ".."}
  <2>1. p[j + 1] \in {".", ".."} /\ j + 1 \in 1 .. Len(p)
    BY <1>1, <1>2, <1>4
  <2>2. \A i \in 1 .. j + 1 : p[i] \in {"/", ".", ".."}
    BY <2>1 DEF Orderly
  <2>3. \A i \in 1 .. j : r[i] = p[i + 1] /\ i + 1 \in 1 .. j + 1
    BY <1>1, <1>2
  <2> QED
    BY <1>1, <1>2, <2>2, <2>3
<1>5. Orderly(r)
  BY <1>3, <1>4 DEF Orderly
<1>6. ~Absolute(r)
  <2>1. r # <<>> => 1 \in 1 .. Len(r)
    BY <1>1, PathLength
  <2> QED
    BY <1>3, <2>1 DEF Absolute
<1>7. c \notin {"/", ".", ".."} => Plain(r)
  BY <1>3, <1>4 DEF Plain
<1> QED
  BY <1>5, <1>6, <1>7 DEF c, r

LEMMA SplicedIsOrderly ==
    ASSUME NEW t \in Path, Orderly(t), NEW rest \in Path, Plain(rest)
    PROVE  Orderly(t \o rest)
<1> DEFINE q == t \o rest
<1>1. /\ Len(t) \in Nat /\ Len(rest) \in Nat /\ Len(q) = Len(t) + Len(rest)
      /\ \A i \in 1 .. Len(t) + Len(rest) : q[i] = IF i <= Len(t) THEN t[i] ELSE rest[i - Len(t)]
  BY PathLength, ConcatProperties DEF Path
<1> HIDE DEF q
<1>2. \A i \in 1 .. Len(q) :
          \/ /\ i \in 1 .. Len(t) /\ q[i] = t[i]
             /\ \A k \in 1 .. i : k \in 1 .. Len(q) /\ k \in 1 .. Len(t)
          \/ i - Len(t) \in 1 .. Len(rest) /\ q[i] = rest[i - Len(t)]
  BY <1>1
<1>3. \A i \in 1 .. Len(t) : q[i] = t[i]
  BY <1>1
<1>4. ASSUME NEW j \in 1 .. Len(q), q[j] \in {"/", ".", ".."}
      PROVE  j \in 1 .. Len(t) /\ q[j] = t[j] /\ \A k \in 1 .. j : q[k] = t[k]
  <2>1. ~(j - Len(t) \in 1 .. Len(rest) /\ q[j] = rest[j - Len(t)])
    BY <1>4 DEF Plain
  <2> QED
    BY <1>2, <1>3, <2>1
<1>5. Orderly(q)
  BY <1>4 DEF Orderly
<1> QED
  BY <1>5 DEF q

(* What is left to go, folded from where the walk has come. *)
LEMMA FoldedPlain ==
    ASSUME NEW p \in Path
    PROVE  Folded(p) \in Path /\ Plain(Folded(p))
<1>1. ~Absolute(<<>>) /\ p \o <<>> = p
  BY PathLength DEF Absolute
<1>2. Folded(p) = Normalize(p, <<>>)
  BY <1>1 DEF Normalize
<1> QED
  BY <1>2, NormalizeIsPath, NormalizeIsPlain, EmptyIsPath

LEMMA NormalizeOnward ==
    ASSUME NEW at \in Path, Plain(at), NEW todo \in Path, todo # <<>>, Orderly(todo)
    PROVE  Normalize(at, todo) =
               Normalize(IF Head(todo) = "/" THEN <<>> ELSE Under(at, Head(todo)), Tail(todo))
<1> DEFINE c == Head(todo)
           rest == Tail(todo)
<1>1. c \in Name /\ c = todo[1] /\ rest \in Path /\ todo = <<c>> \o rest /\ <<c>> \in Path
  BY HeadAndTail, NamesArePaths
<1>2. ~Absolute(rest)
  BY RestIsOrderly
<1> HIDE DEF c, rest
<1>3. \A p \in Path : Normalize(p, rest) = Folded(p \o rest)
  BY <1>2 DEF Normalize
<1>4. CASE c = "/"
  <2>1. Absolute(todo)
    BY <1>1, <1>4 DEF Absolute
  <2>2. Normalize(at, todo) = Folded(<<c>> \o rest)
    BY <1>1, <2>1 DEF Normalize
  <2>3. Folded(<<c>>) = Folded(<<>>)
    <3>1. <<>> \o <<c>> = <<c>>
      BY <1>1, PathLength
    <3>2. Folded(<<>> \o <<c>>) = Under(Folded(<<>>), c)
      BY <1>1, EmptyIsPath, FoldOneMore
    <3> QED
      BY <1>4, <3>1, <3>2 DEF Under
  <2>4. Folded(<<c>> \o rest) = Folded(<<>> \o rest)
    BY <1>1, <2>3, EmptyIsPath, FoldsTogether
  <2>5. Normalize(<<>>, rest) = Folded(<<>> \o rest)
    BY <1>3, EmptyIsPath
  <2> QED
    BY <1>4, <2>2, <2>4, <2>5 DEF c, rest
<1>5. CASE c # "/"
  <2> DEFINE up == Under(at, c)
             p == at \o <<c>>
  <2>1. ~Absolute(todo)
    BY <1>1, <1>5 DEF Absolute
  <2>2. up \in Path /\ p \in Path
    BY <1>1, UnderIsPath, Joined
  <2>3. Folded(at) = at
    BY FoldsToItself
  <2>4. Folded(p) = up
    BY <1>1, <2>3, FoldOneMore
  <2>5. at \o todo = p \o rest
    <3>1. at \o (<<c>> \o rest) = (at \o <<c>>) \o rest
      BY <1>1, JoinedTwice, ZenonT(60)
    <3> QED
      BY <1>1, <3>1
  <2> HIDE DEF up, p
  <2>6. Plain(up)
    BY <2>2, <2>4, FoldedPlain
  <2>7. Folded(up) = Folded(p)
    BY <2>2, <2>4, <2>6, FoldsToItself
  <2>8. Folded(p \o rest) = Folded(up \o rest)
    BY <1>1, <2>2, <2>7, FoldsTogether
  <2>9. Normalize(at, todo) = Folded(p \o rest)
    BY <2>1, <2>5 DEF Normalize
  <2>10. Normalize(at, todo) = Normalize(up, rest)
    BY <1>3, <2>2, <2>8, <2>9
  <2> QED
    BY <1>5, <2>10 DEF up, c, rest
<1> QED
  BY <1>4, <1>5

LEMMA NormalizeName ==
    ASSUME NEW at \in Path, Plain(at), NEW todo \in Path, todo # <<>>, Orderly(todo),
           Head(todo) \notin {"/", ".", ".."}
    PROVE  Normalize(at, todo) = Append(at, Head(todo)) \o Tail(todo)
<1> DEFINE c == Head(todo)
           rest == Tail(todo)
           here == Append(at, c)
<1>1. c \in Name \ {"/", ".", ".."} /\ rest \in Path /\ Plain(rest) /\ ~Absolute(rest)
  BY HeadAndTail, RestIsOrderly
<1>2. Normalize(at, todo) = Normalize(here, rest)
  <2>1. Under(at, c) = here /\ c # "/"
    BY <1>1 DEF Under
  <2> HIDE DEF here
  <2> QED
    BY <2>1, NormalizeOnward
<1> HIDE DEF c, rest
<1>3. here \in Path /\ Plain(here)
  BY <1>1, NextName, PlainParts
<1> HIDE DEF here
<1>4. here \o rest \in Path /\ Plain(here \o rest)
  BY <1>1, <1>3, Joined, PlainParts
<1>5. Normalize(here, rest) = Folded(here \o rest)
  BY <1>1 DEF Normalize
<1>6. Folded(here \o rest) = here \o rest
  BY <1>4, FoldsToItself
<1> QED
  BY <1>2, <1>5, <1>6 DEF here, c, rest

LEMMA NormalizeTarget ==
    ASSUME NEW at \in Path, NEW target \in Path, target # <<>>, NEW rest \in Path, Plain(rest)
    PROVE  Normalize(at, target \o rest) = Normalize(at, target) \o rest
<1> DEFINE q == target \o rest
<1>1. Absolute(q) <=> Absolute(target)
  <2>1. /\ Len(target) \in Nat \ {0} /\ Len(rest) \in Nat
        /\ \A i \in 1 .. Len(target) + Len(rest) :
               q[i] = IF i <= Len(target) THEN target[i] ELSE rest[i - Len(target)]
    BY PathLength, ConcatProperties DEF Path
  <2>2. q # <<>>
    <3>1. Len(q) = Len(target) + Len(rest) /\ q \in Path
      BY Joined
    <3> HIDE DEF q
    <3>2. Len(q) # 0
      BY <2>1, <3>1
    <3> QED
      BY <3>1, <3>2, PathLength
  <2> HIDE DEF q
  <2>3. 1 \in 1 .. Len(target) + Len(rest) /\ 1 <= Len(target)
    BY <2>1
  <2>4. q[1] = target[1]
    BY <2>1, <2>3
  <2> QED
    BY <2>2, <2>4 DEF Absolute
<1>2. CASE Absolute(target)
  <2>1. Normalize(at, q) = Folded(target \o rest) /\ Normalize(at, target) = Folded(target)
    BY <1>1, <1>2 DEF Normalize
  <2> QED
    BY <2>1, FoldPlainRest
<1>3. CASE ~Absolute(target)
  <2>1. /\ Normalize(at, q) = Folded(at \o (target \o rest))
        /\ Normalize(at, target) = Folded(at \o target)
    BY <1>1, <1>3 DEF Normalize
  <2>2. at \o (target \o rest) = (at \o target) \o rest
    BY JoinedTwice, ZenonT(60)
  <2>3. at \o target \in Path
    BY Joined
  <2> QED
    BY <2>1, <2>2, <2>3, FoldPlainRest
<1> QED
  BY <1>2, <1>3

(* Where the links are. *)
LEMMA BeginningsAlike ==
    ASSUME NEW p \in Path, NEW q \in Path, IsPrefix(p, q), NEW i \in 0 .. Len(p)
    PROVE  SubSeq(q, 1, i) = SubSeq(p, 1, i) /\ i \in 0 .. Len(q)
<1> DEFINE a == SubSeq(q, 1, i)
           b == SubSeq(p, 1, i)
<1>1. Len(p) \in Nat /\ Len(q) \in Nat /\ Len(p) <= Len(q) /\ \A k \in 1 .. Len(p) : p[k] = q[k]
  BY PathLength, BeginningOf
<1>2. i \in 0 .. Len(q) /\ \A k \in 1 .. i : k \in 1 .. Len(p)
  BY <1>1
<1>3. /\ a \in Path /\ Len(a) = i /\ \A k \in 1 .. i : a[k] = q[k]
      /\ b \in Path /\ Len(b) = i /\ \A k \in 1 .. i : b[k] = p[k]
  BY <1>2, PartOfPath
<1> HIDE DEF a, b
<1>4. a = b
  BY <1>1, <1>2, <1>3, SeqEqual DEF Path
<1> QED
  BY <1>2, <1>4 DEF a, b

LEMMA LinksOfFront ==
    ASSUME NEW p \in Path, p # <<>>, Links(p, TRUE) = {}
    PROVE  Links(Front(p), TRUE) = {}
<1> DEFINE q == Front(p)
<1>1. q \in Path /\ Len(q) = Len(p) - 1 /\ IsPrefix(q, p) /\ Len(p) \in Nat /\ Len(q) \in Nat
  BY FrontOfPath, PathLength
<1> HIDE DEF q
<1>2. ASSUME NEW i \in 1 .. Len(q) PROVE LinkTarget(SubSeq(q, 1, i)) = NoLink
  <2>1. i \in 0 .. Len(q) /\ i \in 1 .. Len(p)
    BY <1>1
  <2>2. SubSeq(p, 1, i) = SubSeq(q, 1, i)
    BY <1>1, <2>1, BeginningsAlike
  <2> QED
    BY <2>1, <2>2 DEF Links
<1>3. Links(q, TRUE) = {}
  BY <1>2 DEF Links
<1> QED
  BY <1>3 DEF q

LEMMA LinksOneMore ==
    ASSUME NEW at \in Path, NEW c \in Name, Links(at, TRUE) = {}
    PROVE  /\ Links(Append(at, c), FALSE) = {}
           /\ LinkTarget(Append(at, c)) = NoLink => Links(Append(at, c), TRUE) = {}
<1> DEFINE q == Append(at, c)
<1>1. q \in Path /\ Len(q) = Len(at) + 1 /\ IsPrefix(at, q) /\ Len(at) \in Nat
  BY NextName, PathLength
<1> HIDE DEF q
<1>2. ASSUME NEW i \in 1 .. Len(q), i < Len(q) PROVE LinkTarget(SubSeq(q, 1, i)) = NoLink
  <2>1. i \in 0 .. Len(at) /\ i \in 1 .. Len(at)
    BY <1>1, <1>2
  <2>2. SubSeq(q, 1, i) = SubSeq(at, 1, i)
    BY <1>1, <2>1, BeginningsAlike
  <2> QED
    BY <2>1, <2>2 DEF Links
<1>3. Links(q, FALSE) = {}
  BY <1>2 DEF Links
<1>4. ASSUME LinkTarget(q) = NoLink PROVE Links(q, TRUE) = {}
  <2>1. SubSeq(q, 1, Len(q)) = q
    BY <1>1, SubSeqFull DEF Path
  <2>2. \A i \in 1 .. Len(q) : i < Len(q) \/ i = Len(q)
    BY <1>1
  <2> QED
    BY <1>2, <1>4, <2>1, <2>2 DEF Links
<1> QED
  BY <1>3, <1>4 DEF q

LEMMA NextIsFirstLink ==
    ASSUME NEW at \in Path, NEW c \in Name, NEW rest \in Path, NEW follow \in BOOLEAN,
           Links(at, TRUE) = {}, rest # <<>> \/ follow, LinkTarget(Append(at, c)) # NoLink
    PROVE  /\ Links(Append(at, c) \o rest, follow) # {}
           /\ Hop(Append(at, c) \o rest, follow) =
                  Normalize(at, LinkTarget(Append(at, c))) \o rest
<1> DEFINE here == Append(at, c)
           q == here \o rest
           i == Len(at) + 1
           first == Min(Links(q, follow))
<1>1. here \in Path /\ Len(here) = i /\ IsPrefix(at, here) /\ Len(at) \in Nat
  BY NextName, PathLength
<1> HIDE DEF here
<1>2. /\ q \in Path /\ Len(q) = i + Len(rest) /\ Len(rest) \in Nat /\ (rest # <<>> => Len(rest) # 0)
      /\ IsPrefix(here, q) /\ Below(here, q) = rest
  <2>1. q \in Path /\ Len(q) = Len(here) + Len(rest)
    BY <1>1, Joined
  <2>2. IsPrefix(here, q) /\ Below(here, q) = rest
    BY <1>1, BelowOfJoined
  <2>3. Len(rest) \in Nat /\ (rest # <<>> => Len(rest) # 0)
    BY PathLength
  <2> HIDE DEF q, i
  <2> QED
    BY <1>1, <2>1, <2>2, <2>3
<1> HIDE DEF q
<1>3. IsPrefix(at, q)
  BY <1>1, <1>2, PrefixOrder
<1>4. SubSeq(q, 1, i) = here /\ SubSeq(q, 1, i - 1) = at /\ SubSeq(q, i + 1, Len(q)) = rest
  <2>1. i - 1 = Len(at)
    BY <1>1
  <2>2. SubSeq(q, 1, Len(here)) = here /\ SubSeq(q, 1, Len(at)) = at
    BY <1>1, <1>2, <1>3, BeginningOf
  <2>3. SubSeq(q, Len(here) + 1, Len(q)) = rest
    BY <1>2 DEF Below
  <2> QED
    BY <1>1, <2>1, <2>2, <2>3
<1>5. i \in Links(q, follow)
  <2>1. i \in 1 .. Len(q) /\ (rest # <<>> => i < Len(q))
    BY <1>1, <1>2
  <2> QED
    BY <1>4, <2>1 DEF Links, here
<1>6. \A k \in 1 .. Len(at) : k \notin Links(q, follow)
  <2> SUFFICES ASSUME NEW k \in 1 .. Len(at) PROVE LinkTarget(SubSeq(q, 1, k)) = NoLink
    BY DEF Links
  <2>1. k \in 0 .. Len(at)
    BY <1>1
  <2>2. SubSeq(q, 1, k) = SubSeq(at, 1, k)
    BY <1>2, <1>3, <2>1, BeginningsAlike
  <2> QED
    BY <2>2 DEF Links
<1>7. first = i
  <2>1. first \in Links(q, follow) /\ first \in 1 .. Len(q)
    BY <1>2, <1>5, FirstLink
  <2>2. first <= i
    <3>1. Links(q, follow) \subseteq Nat
      BY <1>2 DEF Links
    <3> QED
      BY <1>5, <3>1, MinOfNumbers
  <2> HIDE DEF first
  <2>3. first \notin 1 .. Len(at)
    BY <1>6, <2>1
  <2> QED
    BY <1>1, <1>2, <2>1, <2>2, <2>3
<1>8. Hop(q, follow) = Spliced(q, i, LinkTarget(SubSeq(q, 1, i)))
  BY <1>5, <1>7 DEF Hop, first
<1>9. Spliced(q, i, LinkTarget(here)) = Normalize(at, LinkTarget(here)) \o rest
  BY <1>4 DEF Spliced
<1> QED
  BY <1>4, <1>5, <1>8, <1>9 DEF q, here

(* What the resolver makes of the names it has come to, one link after the *)
(* other, and what it answers of the last.  The walk is on the way as long *)
(* as the names behind it and those to go are the ones the resolver has    *)
(* after as many links, and none of those behind it is a link.             *)
Verdict(end, follow) ==
    IF Links(end, follow) # {} THEN Nothing("LOOP")
    ELSE IF VirtualLink(end) # NoLink THEN KernelLink(VirtualLink(end))
    ELSE Classify(end)
IsTrace(g, follow) ==
    /\ g \in [0 .. MaxHops -> Path]
    /\ \A n \in 1 .. MaxHops : g[n] = Hop(g[n - 1], follow)
OnTheWay(s, g, follow) ==
    /\ s \in Places /\ Plain(s.at) /\ Orderly(s.todo)
    /\ Normalize(s.at, s.todo) = g[s.hops]
    /\ Links(s.at, FALSE) = {}
    /\ s.todo # <<>> \/ follow => Links(s.at, TRUE) = {}

LEMMA TraceSettles ==
    ASSUME NEW follow \in BOOLEAN, NEW g, IsTrace(g, follow), NEW h \in 0 .. MaxHops,
           Links(g[h], follow) = {}
    PROVE  g[MaxHops] = g[h]
<1> DEFINE S == {n \in Nat : h + n <= MaxHops => g[h + n] = g[h]}
<1>1. MaxHops \in Nat /\ h \in Nat /\ h <= MaxHops
  BY Constants
<1>2. 0 \in S
  BY <1>1
<1>3. ASSUME NEW n \in Nat, n \in S, h + (n + 1) <= MaxHops PROVE g[h + (n + 1)] = g[h]
  <2>1. h + (n + 1) \in 1 .. MaxHops /\ (h + (n + 1)) - 1 = h + n /\ h + n <= MaxHops
    BY <1>1, <1>3
  <2>2. g[h + n] = g[h]
    BY <1>3, <2>1
  <2>3. g[h + (n + 1)] = Hop(g[h], follow)
    BY <2>1, <2>2 DEF IsTrace
  <2> QED
    BY <2>3 DEF Hop
<1>4. \A n \in Nat : n \in S => n + 1 \in S
  <2> SUFFICES ASSUME NEW n \in Nat, n \in S PROVE n + 1 \in S
    OBVIOUS
  <2>1. h + (n + 1) <= MaxHops => g[h + (n + 1)] = g[h]
    BY <1>3
  <2> QED
    BY <2>1
<1> HIDE DEF S
<1>5. MaxHops - h \in S
  <2>1. MaxHops - h \in Nat
    BY <1>1
  <2>2. \A n \in Nat : n \in S
    BY <1>2, <1>4, Induction
  <2> QED
    BY <2>1, <2>2
<1>6. h + (MaxHops - h) = MaxHops
  BY <1>1
<1> QED
  BY <1>1, <1>5, <1>6 DEF S

(* What is to follow is a link at the next name, and no other name. *)
LEMMA FollowedLink ==
    ASSUME NEW s \in Places, NEW follow \in BOOLEAN, s.todo # <<>>, Followed(s, follow) # NoLink
    PROVE  /\ Head(s.todo) \notin {"/", ".", ".."}
           /\ Followed(s, follow) = LinkTarget(Append(s.at, Head(s.todo)))
           /\ Tail(s.todo) # <<>> \/ follow
<1>1. Head(s.todo) \notin {"/", ".", ".."} /\ (Len(s.todo) > 1 \/ follow)
      /\ Followed(s, follow) = LinkTarget(Append(s.at, Head(s.todo)))
  BY DEF Followed
<1>2. Len(s.todo) > 1 => Tail(s.todo) # <<>>
  <2>1. s.todo \in Path
    BY DEF Places
  <2>2. Tail(s.todo) \in Path /\ Len(Tail(s.todo)) = Len(s.todo) - 1 /\ Len(s.todo) \in Nat
    BY <2>1, HeadAndTail, PathLength
  <2>3. \A n \in Nat : n > 1 => n - 1 # 0
    OBVIOUS
  <2>4. Len(s.todo) > 1 => Len(Tail(s.todo)) # 0
    BY <2>2, <2>3
  <2> QED
    BY <2>2, <2>4, PathLength
<1> QED
  BY <1>1, <1>2

LEMMA ArrivesRight ==
    ASSUME StateOK, NEW follow \in BOOLEAN, NEW g, IsTrace(g, follow),
           NEW s, OnTheWay(s, g, follow), Arrived(s, follow)
    PROVE  Found(s) = Verdict(g[MaxHops], follow)
<1>1. /\ s \in Places /\ s.at \in Path /\ s.todo \in Path /\ s.hops \in 0 .. MaxHops
      /\ Plain(s.at) /\ Orderly(s.todo) /\ Normalize(s.at, s.todo) = g[s.hops]
  BY DEF OnTheWay, Places
<1>2. CASE s.todo = <<>>
  <2>1. Normalize(s.at, s.todo) = s.at
    <3>1. ~Absolute(<<>>) /\ s.at \o <<>> = s.at
      BY <1>1, PathLength DEF Absolute
    <3> QED
      BY <1>1, <1>2, <3>1, FoldsToItself DEF Normalize
  <2>2. Links(s.at, follow) = {}
    <3>1. CASE follow = TRUE
      BY <3>1 DEF OnTheWay
    <3>2. CASE follow = FALSE
      BY <3>2 DEF OnTheWay
    <3> QED
      BY <3>1, <3>2
  <2>3. g[MaxHops] = s.at
    BY <1>1, <2>1, <2>2, TraceSettles
  <2> QED
    BY <1>2, <2>2, <2>3 DEF Found, Verdict
<1>3. CASE s.todo # <<>>
  <2> DEFINE c == Head(s.todo)
             rest == Tail(s.todo)
  <2>1. s.hops = MaxHops /\ Followed(s, follow) # NoLink
    BY <1>3 DEF Arrived
  <2>2. /\ c \notin {"/", ".", ".."} /\ LinkTarget(Append(s.at, c)) # NoLink
        /\ rest # <<>> \/ follow
    BY <1>1, <1>3, <2>1, FollowedLink
  <2>3. g[MaxHops] = Append(s.at, c) \o rest
    BY <1>1, <1>3, <2>1, <2>2, NormalizeName
  <2>4. c \in Name /\ rest \in Path
    BY <1>1, <1>3, HeadAndTail
  <2>5. Links(s.at, TRUE) = {}
    BY <1>3 DEF OnTheWay
  <2> HIDE DEF c, rest
  <2>6. Links(Append(s.at, c) \o rest, follow) # {}
    BY <1>1, <2>2, <2>4, <2>5, NextIsFirstLink, ZenonT(60)
  <2>7. Links(g[MaxHops], follow) # {}
    BY <2>3, <2>6
  <2> QED
    BY <1>3, <2>7 DEF Found, Verdict
<1> QED
  BY <1>2, <1>3

LEMMA StaysOnTheWay ==
    ASSUME StateOK, OrderlyTargets, Plain(cwd), NEW follow \in BOOLEAN, NEW g, IsTrace(g, follow),
           NEW s, OnTheWay(s, g, follow), ~Arrived(s, follow)
    PROVE  /\ OnTheWay(Onward(s, follow), g, follow)
           /\ \/ /\ Onward(s, follow).hops = s.hops
                 /\ Len(Onward(s, follow).todo) + 1 = Len(s.todo)
              \/ Onward(s, follow).hops = s.hops + 1
<1> DEFINE c == Head(s.todo)
           rest == Tail(s.todo)
           target == Followed(s, follow)
           next == Onward(s, follow)
           up == IF c = "/" THEN <<>> ELSE Under(s.at, c)
<1>1. /\ s \in Places /\ s.at \in Path /\ s.todo \in Path /\ s.hops \in 0 .. MaxHops
      /\ Plain(s.at) /\ Orderly(s.todo) /\ Normalize(s.at, s.todo) = g[s.hops]
      /\ s.todo # <<>> /\ (target # NoLink => s.hops # MaxHops)
      /\ Links(s.at, FALSE) = {} /\ Links(s.at, TRUE) = {}
  BY DEF OnTheWay, Places, Arrived
<1>2. next \in Places
  BY <1>1, OnwardIsPlace
<1>3. /\ c \in Name /\ rest \in Path /\ Len(rest) = Len(s.todo) - 1 /\ Len(s.todo) \in Nat
      /\ Orderly(rest) /\ (c \notin {"/", ".", ".."} => Plain(rest)) /\ target \in Path
  BY <1>1, HeadAndTail, RestIsOrderly, FollowedIsPath, PathLength
<1>4. target # NoLink => /\ c \notin {"/", ".", ".."} /\ target = LinkTarget(Append(s.at, c))
                         /\ rest # <<>> \/ follow
  BY <1>1, FollowedLink
<1>5. next = IF target # NoLink THEN Place(s.at, target \o rest, s.hops + 1)
             ELSE Place(up, rest, s.hops)
  BY DEF Onward
<1>6. CASE target # NoLink
  <2>1. next.at = s.at /\ next.todo = target \o rest /\ next.hops = s.hops + 1
    BY <1>5, <1>6 DEF Place
  <2>2. Append(s.at, c) \in Path /\ Plain(rest)
    BY <1>1, <1>3, <1>4, <1>6, NextName
  <2>3. Orderly(next.todo)
    <3>1. Orderly(target)
      BY <1>4, <1>6, <2>2, LinksAreOrderly
    <3> QED
      BY <1>3, <2>1, <2>2, <3>1, SplicedIsOrderly
  <2>4. Normalize(s.at, s.todo) = Append(s.at, c) \o rest
    BY <1>1, <1>4, <1>6, NormalizeName
  <2>5. Normalize(s.at, target \o rest) = Normalize(s.at, target) \o rest
    BY <1>1, <1>3, <1>6, <2>2, NormalizeTarget DEF NoLink
  <2> HIDE DEF c, rest, target
  <2>6. Hop(Append(s.at, c) \o rest, follow) = Normalize(s.at, target) \o rest
    <3>1. c \in Name /\ rest \in Path /\ target = LinkTarget(Append(s.at, c))
          /\ LinkTarget(Append(s.at, c)) # NoLink /\ (rest # <<>> \/ follow)
      BY <1>3, <1>4, <1>6
    <3>2. Hop(Append(s.at, c) \o rest, follow) =
              Normalize(s.at, LinkTarget(Append(s.at, c))) \o rest
      BY <1>1, <3>1, NextIsFirstLink
    <3> QED
      BY <3>1, <3>2
  <2>7. g[s.hops + 1] = Hop(g[s.hops], follow)
    <3>1. s.hops + 1 \in 1 .. MaxHops /\ (s.hops + 1) - 1 = s.hops
      BY <1>1, <1>6, Constants
    <3> QED
      BY <3>1 DEF IsTrace
  <2>8. Normalize(next.at, next.todo) = g[next.hops]
    BY <1>1, <2>1, <2>4, <2>5, <2>6, <2>7
  <2> HIDE DEF next
  <2>9. OnTheWay(next, g, follow)
    BY <1>1, <1>2, <2>1, <2>3, <2>8 DEF OnTheWay
  <2> QED
    BY <2>1, <2>9 DEF next
<1>7. CASE target = NoLink
  <2>1. next.at = up /\ next.todo = rest /\ next.hops = s.hops
    BY <1>5, <1>7 DEF Place
  <2>2. up \in Path /\ Plain(up)
    <3>1. Plain(<<>>)
      <4>1. \A i \in 1 .. Len(<<>>) : FALSE
        BY PathLength, EmptyIsPath
      <4> QED
        BY <4>1 DEF Plain
    <3>2. c # "/" => Under(s.at, c) \in Path /\ Plain(Under(s.at, c))
      <4>1. c \notin {"/", ".", ".."} => Plain(Append(s.at, c))
        BY <1>1, <1>3, PlainParts
      <4>2. s.at # <<>> => Plain(Front(s.at))
        BY <1>1, PlainParts
      <4> HIDE DEF c
      <4> QED
        BY <1>1, <1>3, <4>1, <4>2, UnderIsPath DEF Under
    <3> QED
      BY <3>1, <3>2, EmptyIsPath
  <2>3. Normalize(s.at, s.todo) = Normalize(up, rest)
    BY <1>1, NormalizeOnward
  <2>4. Links(up, FALSE) = {} /\ (rest # <<>> \/ follow => Links(up, TRUE) = {})
    <3>1. Links(<<>>, FALSE) = {} /\ Links(<<>>, TRUE) = {}
      <4>1. \A i \in 1 .. Len(<<>>) : FALSE
        BY PathLength, EmptyIsPath
      <4> QED
        BY <4>1 DEF Links
    <3>2. CASE c \in {"/", ".", ".."}
      <4>1. up \in {<<>>, s.at} \/ (s.at # <<>> /\ up = Front(s.at))
        BY <3>2 DEF Under
      <4>2. s.at # <<>> => Links(Front(s.at), TRUE) = {}
        BY <1>1, LinksOfFront
      <4>3. \A p : Links(p, TRUE) = {} => Links(p, FALSE) = {}
        BY DEF Links
      <4> HIDE DEF up
      <4> QED
        BY <1>1, <3>1, <4>1, <4>2, <4>3
    <3>3. CASE c \notin {"/", ".", ".."}
      <4>1. up = Append(s.at, c)
        BY <3>3 DEF Under
      <4>2. /\ Links(Append(s.at, c), FALSE) = {}
            /\ LinkTarget(Append(s.at, c)) = NoLink => Links(Append(s.at, c), TRUE) = {}
        BY <1>1, <1>3, LinksOneMore
      <4>3. rest # <<>> \/ follow => LinkTarget(Append(s.at, c)) = NoLink
        <5>1. rest # <<>> => Len(s.todo) > 1
          <6>1. rest # <<>> => Len(rest) \in Nat \ {0}
            BY <1>3, PathLength
          <6> QED
            BY <1>3, <6>1
        <5> QED
          BY <1>7, <3>3, <5>1 DEF Followed
      <4> HIDE DEF up
      <4> QED
        BY <4>1, <4>2, <4>3
    <3> QED
      BY <3>2, <3>3
  <2>5. Len(rest) + 1 = Len(s.todo)
    BY <1>3
  <2> HIDE DEF next, up, rest, c, target
  <2>6. OnTheWay(next, g, follow)
    BY <1>1, <1>2, <1>3, <2>1, <2>2, <2>3, <2>4 DEF OnTheWay
  <2> QED
    BY <2>1, <2>5, <2>6 DEF next
<1> QED
  BY <1>6, <1>7

LEMMA WalkIsRight ==
    ASSUME StateOK, OrderlyTargets, Plain(cwd), NEW follow \in BOOLEAN, NEW g, IsTrace(g, follow),
           NEW walk, \A s \in Places : walk[s] = IF Arrived(s, follow) THEN Found(s)
                                                 ELSE walk[Onward(s, follow)],
           NEW start, OnTheWay(start, g, follow)
    PROVE  walk[start] = Verdict(g[MaxHops], follow)
<1> DEFINE result == Verdict(g[MaxHops], follow)
           Going == {s \in Places : OnTheWay(s, g, follow)}
           S == {j \in Nat : \A s \in Going : s.hops + j = MaxHops + 1 => walk[s] = result}
<1>1. /\ MaxHops \in Nat
      /\ \A s \in Going : s.hops \in 0 .. MaxHops /\ s.todo \in Path /\ Len(s.todo) \in Nat
  BY Constants, PathLength DEF Places
<1>2. ASSUME NEW s \in Going
      PROVE  \/ walk[s] = result
             \/ /\ walk[s] = walk[Onward(s, follow)] /\ Onward(s, follow) \in Going
                /\ \/ /\ Onward(s, follow).hops = s.hops
                      /\ Len(Onward(s, follow).todo) + 1 = Len(s.todo)
                   \/ Onward(s, follow).hops = s.hops + 1
  <2>1. s \in Places /\ OnTheWay(s, g, follow)
    OBVIOUS
  <2>2. CASE Arrived(s, follow)
    BY <2>1, <2>2, ArrivesRight
  <2>3. CASE ~Arrived(s, follow)
    <3>1. Onward(s, follow) \in Places
      BY <2>1, <2>3, OnwardIsPlace
    <3>2. /\ OnTheWay(Onward(s, follow), g, follow)
          /\ \/ /\ Onward(s, follow).hops = s.hops
                /\ Len(Onward(s, follow).todo) + 1 = Len(s.todo)
             \/ Onward(s, follow).hops = s.hops + 1
      BY <2>1, <2>3, StaysOnTheWay
    <3>3. walk[s] = walk[Onward(s, follow)]
      BY <2>1, <2>3
    <3> QED
      BY <3>1, <3>2, <3>3
  <2> QED
    BY <2>2, <2>3
<1>3. start \in Going
  BY DEF OnTheWay
<1> HIDE DEF Going, result
<1>4. 0 \in S
  <2>1. \A h \in 0 .. MaxHops : h + 0 # MaxHops + 1
    BY <1>1
  <2> QED
    BY <1>1, <2>1
<1>5. ASSUME NEW j \in Nat, j \in S PROVE j + 1 \in S
  <2> DEFINE T == {k \in Nat : \A s \in Going : s.hops + j = MaxHops /\ Len(s.todo) = k
                                                    => walk[s] = result}
  <2>1. ASSUME NEW s \in Going, s.hops + j = MaxHops, Onward(s, follow) \in Going,
               Onward(s, follow).hops = s.hops + 1
        PROVE  walk[Onward(s, follow)] = result
    <3>1. (s.hops + 1) + j = MaxHops + 1
      BY <1>1, <2>1
    <3> QED
      BY <1>5, <2>1, <3>1
  <2>2. 0 \in T
    <3> SUFFICES ASSUME NEW s \in Going, s.hops + j = MaxHops, Len(s.todo) = 0
                 PROVE  walk[s] = result
      OBVIOUS
    <3>1. \A x \in Nat : x + 1 # 0
      OBVIOUS
    <3>2. Onward(s, follow) \in Going => Len(Onward(s, follow).todo) + 1 # Len(s.todo)
      BY <1>1, <3>1
    <3> QED
      BY <1>2, <2>1, <3>2
  <2>3. ASSUME NEW k \in Nat, k \in T PROVE k + 1 \in T
    <3> SUFFICES ASSUME NEW s \in Going, s.hops + j = MaxHops, Len(s.todo) = k + 1
                 PROVE  walk[s] = result
      OBVIOUS
    <3> DEFINE next == Onward(s, follow)
    <3>1. CASE /\ next \in Going /\ walk[s] = walk[next]
               /\ next.hops = s.hops /\ Len(next.todo) + 1 = Len(s.todo)
      <4>1. \A x, y \in Nat : x + 1 = y + 1 => x = y
        OBVIOUS
      <4>2. Len(next.todo) = k
        BY <1>1, <3>1, <4>1
      <4> QED
        BY <2>3, <3>1, <4>2
    <3>2. CASE next \in Going /\ next.hops = s.hops + 1 /\ walk[s] = walk[next]
      BY <2>1, <3>2
    <3> QED
      BY <1>2, <3>1, <3>2
  <2> HIDE DEF T
  <2>4. \A k \in Nat : k \in T
    BY <2>2, <2>3, Induction
  <2>5. ASSUME NEW s \in Going, s.hops + (j + 1) = MaxHops + 1 PROVE walk[s] = result
    <3>1. s.hops + j = MaxHops
      BY <1>1, <2>5
    <3>2. Len(s.todo) \in T
      BY <1>1, <2>4
    <3> QED
      BY <3>1, <3>2 DEF T
  <2> QED
    BY <2>5
<1> HIDE DEF S
<1>6. \A j \in Nat : j \in S
  BY <1>4, <1>5, Induction
<1>7. (MaxHops + 1) - start.hops \in Nat /\ start.hops + ((MaxHops + 1) - start.hops) = MaxHops + 1
  BY <1>1, <1>3
<1>8. (MaxHops + 1) - start.hops \in S
  BY <1>6, <1>7
<1> QED
  BY <1>3, <1>7, <1>8 DEF S, result

LEMMA ResolverWalks ==
    ASSUME StateOK, OrderlyTargets, Plain(cwd), NEW p \in Path, NEW follow \in BOOLEAN
    PROVE  Resolve(cwd, p, follow) = Walk(Normalize(cwd, p), follow)
<1> DEFINE path == Normalize(cwd, p)
<1>1. path \in Path /\ Plain(path)
  BY NormalizeIsPath, NormalizeIsPlain DEF StateOK
<1>2. Resolve(cwd, p, follow) = Verdict(Hopped(path, follow), follow)
  BY DEF Resolve, Verdict
<1> HIDE DEF path
<1>3. PICK g : IsTrace(g, follow) /\ g[0] = path /\ Hopped(path, follow) = g[MaxHops]
  BY <1>1, HoppedUnfolds DEF IsTrace
<1>4. PICK walk : /\ Walk(path, follow) = walk[Place(<<>>, path, 0)]
                  /\ \A s \in Places : walk[s] = IF Arrived(s, follow) THEN Found(s)
                                                 ELSE walk[Onward(s, follow)]
  BY <1>1, WalkUnfolds
<1> DEFINE start == Place(<<>>, path, 0)
<1>5. start.at = <<>> /\ start.todo = path /\ start.hops = 0
  BY DEF Place
<1>6. start \in Places
  BY <1>1, EmptyIsPath, Constants DEF Places, Place
<1> HIDE DEF start
<1>7. OnTheWay(start, g, follow)
  <2>1. \A i \in 1 .. Len(<<>>) : FALSE
    BY PathLength, EmptyIsPath
  <2>2. Plain(<<>>) /\ Links(<<>>, FALSE) = {} /\ Links(<<>>, TRUE) = {}
    BY <2>1 DEF Plain, Links
  <2>3. Orderly(path) /\ ~Absolute(path)
    <3>1. path # <<>> => 1 \in 1 .. Len(path)
      BY <1>1, PathLength
    <3> QED
      BY <1>1, <3>1 DEF Plain, Orderly, Absolute
  <2>4. Normalize(<<>>, path) = path
    <3>1. <<>> \o path = path
      BY <1>1, PathLength
    <3> QED
      BY <1>1, <2>3, <3>1, FoldsToItself DEF Normalize
  <2> QED
    BY <1>3, <1>5, <1>6, <2>2, <2>3, <2>4 DEF OnTheWay
<1>8. walk[start] = Verdict(g[MaxHops], follow)
  BY <1>3, <1>4, <1>7, WalkIsRight
<1> QED
  BY <1>2, <1>3, <1>4, <1>8 DEF start, path

(* A process works in the root or in one of the directories it has gone to. *)
AtHome == cwd \in Homes \cup {<<>>}

LEMMA StaysAtHome ==
    Spec => []AtHome
<1>1. Init => AtHome
  BY DEF Init, AtHome
<1>2. IInv /\ AtHome /\ [Next]_vars => AtHome'
  <2> SUFFICES ASSUME IInv, AtHome, [Next]_vars PROVE AtHome'
    OBVIOUS
  <2>1. AnyStep
    BY StepKinds DEF IInv
  <2>2. UNCHANGED cwd \/ cwd' \in Homes
    BY <2>1 DEF AnyStep, Same, MakeStep, RemoveStep, RenameStep, OpenStep, CreateStep, HandleStep,
                TruncateStep, ProcessStep
  <2> QED
    BY <2>2 DEF AtHome
<1> QED
  BY <1>1, <1>2, InvariantHolds, PTL DEF Spec

(* The resolver splices the target of a link in and starts again from the  *)
(* root, folding ".." before it has looked at what the names are: what it  *)
(* finds is what a walk finds that goes name by name from where it is, as  *)
(* long as no target goes up after it has gone down.                       *)
THEOREM ResolutionWalks ==
    ASSUME OrderlyTargets
    PROVE  Spec => []ResolutionIsAWalk
<1>1. ASSUME IInv, AtHome PROVE ResolutionIsAWalk
  <2> SUFFICES ASSUME NEW p \in Probes, NEW follow \in BOOLEAN
               PROVE  LET n == Resolve(cwd, p, follow)
                      IN  /\ n = Walk(Normalize(cwd, p), follow)
                          /\ follow =>
                                /\ n.is # "kernel link"
                                /\ n.is = "mounted" => NodeAt(tree[n.mount], n.rel).is # "link"
    BY DEF ResolutionIsAWalk
  <2>1. StateOK /\ cwd \in Path /\ p \in Path
    BY <1>1, AskedNames DEF IInv, StateOK
  <2>2. Plain(cwd)
    <3>1. \A i \in 1 .. Len(<<>>) : FALSE
      BY PathLength, EmptyIsPath
    <3> QED
      BY <1>1, <3>1 DEF AtHome, OrderlyTargets, Plain
  <2>3. Resolve(cwd, p, follow) = Walk(Normalize(cwd, p), follow)
    BY <2>1, <2>2, ResolverWalks
  <2>4. <<>> \notin Targets
    BY DEF OrderlyTargets
  <2>5. FollowedToTheEnd
    BY <2>1, <2>4, EndsAtNoLink
  <2>6. CASE follow = TRUE
    BY <2>1, <2>3, <2>5, <2>6 DEF FollowedToTheEnd
  <2>7. CASE follow = FALSE
    BY <2>3, <2>7
  <2> QED
    BY <2>6, <2>7
<1> QED
  BY <1>1, InvariantHolds, StaysAtHome, PTL
=============================================================================
