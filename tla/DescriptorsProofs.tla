------------------------- MODULE DescriptorsProofs -------------------------
(***************************************************************************)
(* For any number of tasks and any limits: reference counts never fall     *)
(* below the descriptors they stand for, pipes count their ends, and end   *)
(* of file and broken pipe are never reported while the other end is held. *)
(*                                                                         *)
(* The argument has two halves.  Section 1 counts: how one changed entry,  *)
(* or a set of entries taken away, changes the number of positions that    *)
(* point at a description.  Section 2 shows that Acquire and Release keep  *)
(* the invariant when what they add or drop is that change.  The steps     *)
(* then only have to say which entries they touch.  The same counts show   *)
(* in section 4 that a call that succeeds loses no reference.              *)
(***************************************************************************)
EXTENDS Descriptors, FiniteSetTheorems, TLAPS

Tables == [Positions -> FdEntry \cup {None}]
DescSlabs == [DescKeys -> Description \cup {None}]
PipeSlabs == [PipeKeys -> Pipe \cup {None}]

(* The positions of a table that point at a description. *)
At(t, k) == {x \in Positions : t[x] # None /\ t[x].desc = k}

(* 1 if an entry points at k, 0 otherwise. *)
Points(e, k) == IF e # None /\ e.desc = k THEN 1 ELSE 0

Covered(t, ds) ==
    \A k \in DescKeys :
        /\ ds[k] = None => At(t, k) = {}
        /\ ds[k] # None => Cardinality(At(t, k)) <= ds[k].refs

IsEnd(ds, k) == ds[k] # None /\ ds[k].kind # "file"

EndsCounted(ds, ps) ==
    /\ \A k \in DescKeys :
          IsEnd(ds, k) =>
             /\ ps[ds[k].pipe] # None
             /\ ds[k].kind = "read" => ps[ds[k].pipe].readers = 1
             /\ ds[k].kind = "write" => ps[ds[k].pipe].writers = 1
    /\ \A k, l \in DescKeys :
          /\ IsEnd(ds, k) /\ ds[l] # None
          /\ ds[l].kind = ds[k].kind /\ ds[l].pipe = ds[k].pipe
          => k = l
    /\ \A q \in PipeKeys : ps[q] # None => ps[q].readers + ps[q].writers > 0

IInv == TypeOK /\ RefsCoverDescriptors /\ PipesCountTheirEnds

LEMMA InvariantForms ==
    ASSUME TypeOK
    PROVE  /\ RefsCoverDescriptors <=> Covered(fds, descs)
           /\ PipesCountTheirEnds <=> EndsCounted(descs, pipes)
  BY DEF RefsCoverDescriptors, Covered, Holders, PointingIn, At,
         PipesCountTheirEnds, EndsCounted, IsEnd

-----------------------------------------------------------------------------
(* 1. Counting.                                                            *)

LEMMA PositionsFinite ==
    IsFiniteSet(Positions) /\ Cardinality(Positions) \in Nat
<1>1. IsFiniteSet(Fds)
  BY DescriptorsAssumption, FS_Interval DEF Fds
<1>2. IsFiniteSet(Positions)
  BY <1>1, DescriptorsAssumption, FS_Product DEF Positions
<1> QED
  BY <1>2, FS_CardinalityType

LEMMA AtFinite ==
    ASSUME NEW t, NEW k
    PROVE  /\ IsFiniteSet(At(t, k))
           /\ Cardinality(At(t, k)) \in Nat
           /\ Cardinality(At(t, k)) <= Cardinality(Positions)
<1>1. At(t, k) \in SUBSET Positions
  BY DEF At
<1> QED
  BY <1>1, PositionsFinite, FS_Subset, FS_CardinalityType

LEMMA CountIsAt ==
    ASSUME NEW R \in SUBSET Positions, NEW k \in DescKeys
    PROVE  /\ PointingIn(R, k) = R \cap At(fds, k)
           /\ Count(R)[k] = Cardinality(R \cap At(fds, k))
           /\ Count(R)[k] \in Nat
<1>1. PointingIn(R, k) = R \cap At(fds, k)
  BY DEF PointingIn, At
<1>2. IsFiniteSet(R \cap At(fds, k))
  BY AtFinite, FS_Intersection
<1> QED
  BY <1>1, <1>2, FS_CardinalityType DEF Count

LEMMA CountOne ==
    ASSUME NEW x \in Positions, NEW k \in DescKeys
    PROVE  Count({x})[k] = Points(fds[x], k)
<1>1. Count({x})[k] = Cardinality({x} \cap At(fds, k))
  BY CountIsAt
<1>2. CASE Points(fds[x], k) = 1
  <2>1. {x} \cap At(fds, k) = {x}
    BY <1>2 DEF Points, At
  <2> QED
    BY <1>1, <1>2, <2>1, FS_Singleton
<1>3. CASE Points(fds[x], k) = 0
  <2>1. {x} \cap At(fds, k) = {}
    BY <1>3 DEF Points, At
  <2> QED
    BY <1>1, <1>3, <2>1, FS_EmptySet
<1> QED
  BY <1>2, <1>3 DEF Points

(* One entry changes: what it pointed at loses one, what it now points at  *)
(* gains one.                                                              *)
LEMMA OneEntry ==
    ASSUME NEW t \in Tables, NEW x \in Positions,
           NEW e \in FdEntry \cup {None}, NEW k \in DescKeys
    PROVE  Cardinality(At([t EXCEPT ![x] = e], k))
               = Cardinality(At(t, k)) - Points(t[x], k) + Points(e, k)
<1> DEFINE u == [t EXCEPT ![x] = e]
           rest == At(t, k) \ {x}
<1>1. u \in Tables /\ \A y \in Positions : u[y] = IF y = x THEN e ELSE t[y]
  BY DEF Tables
<1>2. /\ IsFiniteSet(At(t, k)) /\ Cardinality(At(t, k)) \in Nat
      /\ IsFiniteSet(rest) /\ Cardinality(rest) \in Nat
      /\ Cardinality(rest) = IF x \in At(t, k) THEN Cardinality(At(t, k)) - 1
                                               ELSE Cardinality(At(t, k))
  BY AtFinite, FS_RemoveElement, FS_CardinalityType
<1>3. Cardinality(rest) = Cardinality(At(t, k)) - Points(t[x], k)
  BY <1>2 DEF At, Points
<1>4. Cardinality(rest \cup {x}) = Cardinality(rest) + 1
  BY <1>2, FS_AddElement
<1>5. At(u, k) = IF Points(e, k) = 1 THEN rest \cup {x} ELSE rest
  BY <1>1 DEF At, Points
<1> QED
  BY <1>2, <1>3, <1>4, <1>5 DEF Points

(* Entries are taken away: each description loses as many as pointed at it. *)
LEMMA EntriesRemoved ==
    ASSUME NEW R \in SUBSET Positions, NEW k \in DescKeys,
           NEW u, u = [x \in Positions |-> IF x \in R THEN None ELSE fds[x]]
    PROVE  Cardinality(At(u, k)) = Cardinality(At(fds, k)) - Count(R)[k]
<1>1. At(u, k) = At(fds, k) \ R
  BY DEF At
<1>2. At(fds, k) \cap R = R \cap At(fds, k)
  OBVIOUS
<1>3. IsFiniteSet(At(fds, k))
  BY AtFinite
<1>4. Cardinality(At(fds, k) \ R) = Cardinality(At(fds, k)) - Cardinality(At(fds, k) \cap R)
  BY <1>3, FS_Difference
<1>5. Count(R)[k] = Cardinality(R \cap At(fds, k))
  BY CountIsAt
<1> QED
  BY <1>1, <1>2, <1>4, <1>5

-----------------------------------------------------------------------------
(* 2. Acquire and Release.                                                 *)

LEMMA AcquireType ==
    ASSUME NEW ds \in DescSlabs, NEW n \in [DescKeys -> Nat]
    PROVE  /\ Acquire(ds, n) \in DescSlabs
           /\ \A k \in DescKeys :
                /\ Acquire(ds, n)[k] = None <=> ds[k] = None
                /\ ds[k] # None =>
                     /\ Acquire(ds, n)[k].kind = ds[k].kind
                     /\ Acquire(ds, n)[k].pipe = ds[k].pipe
                     /\ Acquire(ds, n)[k].refs =
                          IF ds[k].refs + n[k] > MaxRefs THEN MaxRefs
                                                         ELSE ds[k].refs + n[k]
  BY DescriptorsAssumption DEF DescSlabs, Description, Acquire

LEMMA AcquireCovers ==
    ASSUME NEW ds \in DescSlabs, NEW n \in [DescKeys -> Nat],
           NEW u,
           \A k \in DescKeys :
              /\ ds[k] = None => At(u, k) = {}
              /\ ds[k] # None => Cardinality(At(u, k)) <= ds[k].refs + n[k]
    PROVE  Covered(u, Acquire(ds, n))
<1> SUFFICES ASSUME NEW k \in DescKeys
             PROVE  /\ Acquire(ds, n)[k] = None => At(u, k) = {}
                    /\ Acquire(ds, n)[k] # None =>
                          Cardinality(At(u, k)) <= Acquire(ds, n)[k].refs
  BY DEF Covered
<1>1. Cardinality(At(u, k)) \in Nat /\ Cardinality(At(u, k)) <= MaxRefs
  BY AtFinite, PositionsFinite, DescriptorsAssumption
<1> QED
  BY <1>1, AcquireType

LEMMA AcquireEnds ==
    ASSUME NEW ds \in DescSlabs, NEW n \in [DescKeys -> Nat], NEW ps,
           EndsCounted(ds, ps)
    PROVE  EndsCounted(Acquire(ds, n), ps)
  BY AcquireType DEF EndsCounted, IsEnd

LEMMA ReleaseType ==
    ASSUME NEW ds \in DescSlabs, NEW ps \in PipeSlabs, NEW n \in [DescKeys -> Nat]
    PROVE  /\ DescsAfter(ds, n) \in DescSlabs
           /\ PipesAfter(ds, ps, n) \in PipeSlabs
           /\ \A k \in DescKeys :
                /\ DescsAfter(ds, n)[k] = None <=> ds[k] = None \/ LastGone(ds, n, k)
                /\ DescsAfter(ds, n)[k] # None =>
                     /\ DescsAfter(ds, n)[k].kind = ds[k].kind
                     /\ DescsAfter(ds, n)[k].pipe = ds[k].pipe
                     /\ DescsAfter(ds, n)[k].refs = ds[k].refs - n[k]
<1>1. \A k \in DescKeys : ds[k] # None /\ ~LastGone(ds, n, k) =>
          /\ [ds[k] EXCEPT !.refs = @ - n[k]] \in Description
          /\ [ds[k] EXCEPT !.refs = @ - n[k]].kind = ds[k].kind
          /\ [ds[k] EXCEPT !.refs = @ - n[k]].pipe = ds[k].pipe
          /\ [ds[k] EXCEPT !.refs = @ - n[k]].refs = ds[k].refs - n[k]
  BY DescriptorsAssumption DEF DescSlabs, Description, LastGone
<1>2. None \notin Description
  BY DescriptorsAssumption
<1>3. PipesAfter(ds, ps, n) \in PipeSlabs
  BY DEF PipesAfter, PipeSlabs, Pipe
<1> QED
  BY <1>1, <1>2, <1>3 DEF DescsAfter, DescSlabs, LastGone

LEMMA ReleaseCovers ==
    ASSUME NEW ds \in DescSlabs, NEW ps \in PipeSlabs,
           NEW n \in [DescKeys -> Nat], NEW u,
           \A k \in DescKeys :
              /\ ds[k] = None => At(u, k) = {}
              /\ ds[k] # None => Cardinality(At(u, k)) + n[k] <= ds[k].refs
    PROVE  Covered(u, DescsAfter(ds, n))
<1> SUFFICES ASSUME NEW k \in DescKeys
             PROVE  /\ DescsAfter(ds, n)[k] = None => At(u, k) = {}
                    /\ DescsAfter(ds, n)[k] # None =>
                          Cardinality(At(u, k)) <= DescsAfter(ds, n)[k].refs
  BY DEF Covered
<1>1. Cardinality(At(u, k)) \in Nat /\ IsFiniteSet(At(u, k)) /\ n[k] \in Nat
  BY AtFinite
<1>2. CASE ds[k] = None
  BY <1>2, ReleaseType
<1>3. CASE ds[k] # None /\ LastGone(ds, n, k)
  <2>1. ds[k].refs \in Nat
    BY <1>3, DescriptorsAssumption DEF DescSlabs, Description
  <2>2. Cardinality(At(u, k)) = 0
    BY <1>1, <1>3, <2>1 DEF LastGone
  <2>3. At(u, k) = {}
    BY <1>1, <2>2, FS_EmptySet
  <2> QED
    BY <1>3, <2>3, ReleaseType
<1>4. CASE ds[k] # None /\ ~LastGone(ds, n, k)
  <2>1. ds[k].refs \in Nat
    BY <1>4, DescriptorsAssumption DEF DescSlabs, Description
  <2>2. DescsAfter(ds, n)[k] # None /\ DescsAfter(ds, n)[k].refs = ds[k].refs - n[k]
    BY <1>4, ReleaseType
  <2> QED
    BY <1>1, <1>4, <2>1, <2>2
<1> QED
  BY <1>2, <1>3, <1>4

(* A pipe end that is still there is not the one that went, because no two *)
(* descriptions are the same end of a pipe.                                *)
LEMMA ReleaseEnds ==
    ASSUME NEW ds \in DescSlabs, NEW ps \in PipeSlabs,
           NEW n \in [DescKeys -> Nat], EndsCounted(ds, ps)
    PROVE  EndsCounted(DescsAfter(ds, n), PipesAfter(ds, ps, n))
<1> DEFINE es == DescsAfter(ds, n)
           os == PipesAfter(ds, ps, n)
<1>1. \A k \in DescKeys : IsEnd(es, k) =>
          /\ IsEnd(ds, k) /\ ~LastGone(ds, n, k)
          /\ es[k].kind = ds[k].kind /\ es[k].pipe = ds[k].pipe
          /\ ds[k].pipe \in PipeKeys
          /\ ds[k].kind \in {"read", "write"}
  BY ReleaseType DEF IsEnd, DescSlabs, Description
<1>2. ASSUME NEW k \in DescKeys, IsEnd(es, k)
      PROVE  /\ os[es[k].pipe] # None
             /\ es[k].kind = "read" => os[es[k].pipe].readers = 1
             /\ es[k].kind = "write" => os[es[k].pipe].writers = 1
  <2> DEFINE q == ds[k].pipe
  <2>1. ~EndGone(ds, n, ds[k].kind, q)
    BY <1>1, <1>2 DEF EndGone, EndsCounted, LastGone
  <2>2. q \in PipeKeys /\ ps[q] # None /\ ps[q] \in Pipe
    BY <1>1, <1>2 DEF EndsCounted, PipeSlabs
  <2>3. None \notin Pipe
    BY DescriptorsAssumption
  <2>4. CASE ds[k].kind = "read"
    <3>1. ps[q].readers = 1
      BY <1>1, <1>2, <2>4 DEF EndsCounted
    <3>2. os[q] = [readers |-> 1,
                   writers |-> IF EndGone(ds, n, "write", q) THEN 0 ELSE ps[q].writers]
      BY <2>1, <2>2, <2>4, <3>1 DEF PipesAfter
    <3>3. os[q] \in Pipe
      BY <3>2, <2>2 DEF Pipe
    <3> QED
      BY <1>1, <1>2, <2>3, <2>4, <3>2, <3>3
  <2>5. CASE ds[k].kind = "write"
    <3>1. ps[q].writers = 1
      BY <1>1, <1>2, <2>5 DEF EndsCounted
    <3>2. os[q] = [readers |-> IF EndGone(ds, n, "read", q) THEN 0 ELSE ps[q].readers,
                   writers |-> 1]
      BY <2>1, <2>2, <2>5, <3>1 DEF PipesAfter
    <3>3. os[q] \in Pipe
      BY <3>2, <2>2 DEF Pipe
    <3> QED
      BY <1>1, <1>2, <2>3, <2>5, <3>2, <3>3
  <2> QED
    BY <1>1, <1>2, <2>4, <2>5
<1>3. ASSUME NEW k \in DescKeys, NEW l \in DescKeys, IsEnd(es, k), es[l] # None,
             es[l].kind = es[k].kind, es[l].pipe = es[k].pipe
      PROVE  k = l
  <2>1. ds[l] # None /\ es[l].kind = ds[l].kind /\ es[l].pipe = ds[l].pipe
    BY <1>3, ReleaseType
  <2>2. /\ IsEnd(ds, k) /\ ds[l] # None
        /\ ds[l].kind = ds[k].kind /\ ds[l].pipe = ds[k].pipe
    BY <1>1, <1>3, <2>1
  <2>3. \A i, j \in DescKeys :
            /\ IsEnd(ds, i) /\ ds[j] # None
            /\ ds[j].kind = ds[i].kind /\ ds[j].pipe = ds[i].pipe
            => i = j
    BY DEF EndsCounted
  <2> QED
    BY <2>2, <2>3
<1>4. ASSUME NEW q \in PipeKeys, os[q] # None
      PROVE  os[q].readers + os[q].writers > 0
  <2> DEFINE r == IF EndGone(ds, n, "read", q) THEN 0 ELSE ps[q].readers
             w == IF EndGone(ds, n, "write", q) THEN 0 ELSE ps[q].writers
  <2>1. ps[q] # None /\ ps[q] \in Pipe
    BY <1>4 DEF PipesAfter, PipeSlabs
  <2>2. ~(r = 0 /\ w = 0) /\ os[q] = [readers |-> r, writers |-> w]
    BY <1>4, <2>1 DEF PipesAfter
  <2> QED
    BY <2>1, <2>2 DEF Pipe
<1> QED
  BY <1>2, <1>3, <1>4 DEF EndsCounted
-----------------------------------------------------------------------------
(* 3. The steps.  Each lemma shows the invariant after one system call.    *)

(* A set of descriptors that is not empty has a lowest one. *)
LEMMA LowestIn ==
    ASSUME NEW S \in SUBSET Fds, S # {}
    PROVE  Lowest(S) \in S
<1> DEFINE upTo(x) == {y \in S : y <= x}
           T == {upTo(x) : x \in S}
<1>1. S \subseteq Nat /\ IsFiniteSet(S)
  <2>1. IsFiniteSet(Fds)
    BY DescriptorsAssumption, FS_Interval DEF Fds
  <2>2. IsFiniteSet(S)
    BY <2>1, FS_Subset
  <2> QED
    BY <2>2, DescriptorsAssumption DEF Fds
<1>2. IsWellFoundedOn(StrictSubsetOrdering(S), FiniteSubsetsOf(S))
  BY FS_StrictSubsetOrderingWellFounded
<1>3. T \subseteq FiniteSubsetsOf(S) /\ T # {}
  <2>1. \A x \in S : upTo(x) \in SUBSET S
    OBVIOUS
  <2>2. \A x \in S : IsFiniteSet(upTo(x))
    BY <1>1, <2>1, FS_Subset
  <2> QED
    BY <2>1, <2>2 DEF FiniteSubsetsOf
<1>4. PICK A \in T : \A B \in T : <<B, A>> \notin StrictSubsetOrdering(S)
  <2> HIDE DEF T
  <2> QED
    BY <1>2, <1>3, WFMin
<1>5. PICK f \in S : A = upTo(f)
  OBVIOUS
<1>6. ASSUME NEW g \in S, g < f
      PROVE  FALSE
  <2>1. upTo(g) \subseteq upTo(f) /\ f \in upTo(f) /\ f \notin upTo(g)
    <3>1. f \in Nat /\ g \in Nat /\ \A y \in S : y \in Nat
      BY <1>1
    <3>2. \A y \in S : y <= g => y <= f
      BY <1>6, <3>1
    <3>3. f <= f /\ ~ (f <= g)
      BY <1>6, <3>1
    <3> QED
      BY ONLY <3>2, <3>3, f \in S
  <2>2. <<upTo(g), upTo(f)>> \in StrictSubsetOrdering(S)
    BY <2>1 DEF StrictSubsetOrdering
  <2> QED
    BY <1>4, <1>5, <2>2
<1>7. \A g \in S : f <= g
  BY <1>1, <1>6
<1> QED
  BY <1>7 DEF Lowest

LEMMA Assemble ==
    ASSUME TypeOK', Covered(fds', descs'), EndsCounted(descs', pipes')
    PROVE  IInv'
  BY DEF IInv, RefsCoverDescriptors, Covered, Holders, PointingIn, At,
         PipesCountTheirEnds, EndsCounted, IsEnd

(* What the steps use of the invariant. *)
LEMMA Unfold ==
    ASSUME IInv
    PROVE  /\ fds \in Tables /\ descs \in DescSlabs /\ pipes \in PipeSlabs
           /\ Covered(fds, descs)
           /\ EndsCounted(descs, pipes)
  BY InvariantForms DEF IInv, TypeOK, Tables, DescSlabs, PipeSlabs

(* The description of an open descriptor is there. *)
LEMMA OpenHasDesc ==
    ASSUME IInv, NEW x \in Positions, fds[x] # None
    PROVE  /\ fds[x] \in FdEntry /\ fds[x].desc \in DescKeys
           /\ descs[fds[x].desc] # None
<1>1. fds[x] \in FdEntry /\ fds[x].desc \in DescKeys
  BY Unfold DEF Tables, FdEntry
<1>2. x \in At(fds, fds[x].desc)
  BY DEF At
<1> QED
  BY <1>1, <1>2, Unfold DEF Covered

LEMMA EntryType ==
    ASSUME NEW k \in DescKeys, NEW c \in BOOLEAN
    PROVE  /\ Entry(k, c) \in FdEntry /\ Entry(k, c) # None
           /\ \A l : Points(Entry(k, c), l) = IF l = k THEN 1 ELSE 0
  BY DescriptorsAssumption DEF Entry, FdEntry, Points

(* A description nobody points at yet may take a free key... *)
LEMMA AddDesc ==
    ASSUME NEW t, NEW ds \in DescSlabs, Covered(t, ds),
           NEW k \in DescKeys, ds[k] = None,
           NEW d \in Description
    PROVE  /\ [ds EXCEPT ![k] = d] \in DescSlabs
           /\ Covered(t, [ds EXCEPT ![k] = d])
           /\ At(t, k) = {}
<1>1. At(t, k) = {} /\ Cardinality(At(t, k)) = 0
  BY FS_EmptySet DEF Covered
<1>2. d.refs \in Nat /\ d.refs >= 1
  BY DescriptorsAssumption DEF Description
<1> QED
  BY <1>1, <1>2 DEF Covered, DescSlabs

(* ...and then one free descriptor. *)
LEMMA PlaceEntry ==
    ASSUME NEW t \in Tables, NEW ds \in DescSlabs, Covered(t, ds),
           NEW x \in Positions, t[x] = None,
           NEW k \in DescKeys, ds[k] # None, At(t, k) = {}, NEW c \in BOOLEAN,
           NEW u, \A y \in Positions : u[y] = IF y = x THEN Entry(k, c) ELSE t[y]
    PROVE  /\ Covered(u, ds)
           /\ Cardinality(At(u, k)) = 1
           /\ \A l \in DescKeys : l # k => At(u, l) = At(t, l)
<1>1. \A l \in DescKeys : l # k => At(u, l) = At(t, l)
  BY DEF At, Entry
<1>2. Cardinality(At(u, k)) = 1
  <2>1. At(u, k) = {x}
    BY EntryType DEF At, Entry
  <2> QED
    BY <2>1, FS_Singleton
<1>3. ds[k].refs >= 1
  BY DescriptorsAssumption DEF DescSlabs, Description
<1>4. Covered(u, ds)
  BY <1>1, <1>2, <1>3 DEF Covered
<1> QED
  BY <1>1, <1>2, <1>4

LEMMA FlagsBoolean == Flags \subseteq BOOLEAN
  BY DescriptorsAssumption

LEMMA FreeFromPlace ==
    ASSUME NEW p \in Tasks, NEW min, NEW S \in SUBSET FreeFrom(p, min), S # {}
    PROVE  /\ Lowest(S) \in S
           /\ <<p, Lowest(S)>> \in Positions
           /\ fds[<<p, Lowest(S)>>] = None
<1>1. S \in SUBSET Fds
  BY DEF FreeFrom
<1>2. Lowest(S) \in S
  BY <1>1, LowestIn
<1> QED
  BY <1>2 DEF FreeFrom, Positions

LEMMA InitInvariant == Init => IInv
<1> SUFFICES ASSUME Init PROVE IInv
  OBVIOUS
<1>1. PICK std \in [0 .. 2 -> DescKeys] :
          /\ \A i, j \in 0 .. 2 : std[i] = std[j] => i = j
          /\ fds = [x \in Positions |->
                       IF x[1] = First /\ x[2] \in 0 .. 2
                       THEN Entry(std[x[2]], FALSE) ELSE None]
          /\ descs = [k \in DescKeys |->
                         IF \E i \in 0 .. 2 : std[i] = k THEN FileDesc ELSE None]
  BY DEF Init
<1>2. FileDesc \in Description /\ FileDesc # None /\ FileDesc.kind = "file"
      /\ FileDesc.refs = 1
  BY DescriptorsAssumption, PositionsFinite DEF FileDesc, Description
<1>3. TypeOK
  <2>1. fds \in [Positions -> FdEntry \cup {None}]
    BY <1>1, EntryType
  <2>2. descs \in [DescKeys -> Description \cup {None}]
    BY <1>1, <1>2
  <2>3. \A x \in Positions : x[1] \notin live => fds[x] = None
    BY <1>1 DEF Init
  <2> QED
    BY <2>1, <2>2, <2>3, DescriptorsAssumption DEF TypeOK, Init, Results
<1>4. Covered(fds, descs)
  <2> SUFFICES ASSUME NEW k \in DescKeys
               PROVE  /\ descs[k] = None => At(fds, k) = {}
                      /\ descs[k] # None => Cardinality(At(fds, k)) <= descs[k].refs
    BY DEF Covered
  <2>1. CASE \E i \in 0 .. 2 : std[i] = k
    <3>1. PICK i \in 0 .. 2 : std[i] = k
      BY <2>1
    <3>2. <<First, i>> \in Positions
      BY DescriptorsAssumption DEF Positions, Fds
    <3>3. \A x \in Positions : fds[x] # None =>
             x[1] = First /\ x[2] \in 0 .. 2 /\ fds[x] = Entry(std[x[2]], FALSE)
      BY <1>1
    <3>4. \A x \in Positions : fds[x] # None /\ fds[x].desc = k => x = <<First, i>>
      BY <1>1, <3>1, <3>3 DEF Entry, Positions
    <3>5. At(fds, k) \subseteq {<<First, i>>}
      BY <3>4 DEF At
    <3>6. Cardinality(At(fds, k)) <= 1
      <4>1. IsFiniteSet({<<First, i>>}) /\ Cardinality({<<First, i>>}) = 1
        BY FS_Singleton
      <4> QED
        BY <3>5, <4>1, FS_Subset
    <3>7. descs[k] = FileDesc
      BY <1>1, <2>1
    <3> QED
      BY <1>2, <3>6, <3>7
  <2>2. CASE ~ \E i \in 0 .. 2 : std[i] = k
    BY <1>1, <2>2 DEF At, Entry
  <2> QED
    BY <2>1, <2>2
<1>5. EndsCounted(descs, pipes)
  BY <1>1, <1>2 DEF EndsCounted, IsEnd, Init
<1> QED
  BY <1>3, <1>4, <1>5, InvariantForms DEF IInv

LEMMA OpenNewStep ==
    ASSUME IInv, NEW p \in Tasks, NEW cloexec \in Flags, OpenNew(p, cloexec)
    PROVE  IInv'
<1>1. CASE UNCHANGED <<fds, descs>> /\ result' = "MFILE"
  <2>1. TypeOK'
    BY <1>1 DEF OpenNew, IInv, TypeOK, Results
  <2>2. Covered(fds', descs') /\ EndsCounted(descs', pipes')
    BY <1>1, Unfold DEF OpenNew
  <2> QED
    BY <2>1, <2>2, Assemble
<1>2. ASSUME FreeFrom(p, 0) # {}, NEW k \in FreeDescs,
             descs' = [descs EXCEPT ![k] = FileDesc],
             fds' = [fds EXCEPT ![<<p, Lowest(FreeFrom(p, 0))>>] = Entry(k, cloexec)],
             result' = "ok"
      PROVE  IInv'
  <2> DEFINE x == <<p, Lowest(FreeFrom(p, 0))>>
  <2>1. x \in Positions /\ fds[x] = None
    BY <1>2, FreeFromPlace
  <2>2. FileDesc \in Description /\ FileDesc # None /\ FileDesc.kind = "file"
    BY DescriptorsAssumption, PositionsFinite DEF FileDesc, Description
  <2>3. k \in DescKeys /\ descs[k] = None
    BY DEF FreeDescs
  <2>4. descs' \in DescSlabs /\ Covered(fds, descs') /\ At(fds, k) = {}
    BY <1>2, <2>2, <2>3, AddDesc, Unfold
  <2>5. descs'[k] # None
    BY <1>2, <2>2, <2>3, Unfold DEF DescSlabs
  <2>6. fds' \in Tables /\ Covered(fds', descs')
    <3>1. /\ cloexec \in BOOLEAN /\ fds' \in Tables
          /\ \A z \in Positions : fds'[z] = IF z = x THEN Entry(k, cloexec) ELSE fds[z]
      BY <1>2, <2>1, <2>3, EntryType, Unfold, FlagsBoolean DEF Tables
    <3> HIDE DEF x
    <3> QED
      BY <2>1, <2>3, <2>4, <2>5, <3>1, PlaceEntry, Unfold
  <2>7. TypeOK'
    <3>1. \A y \in Positions : y[1] \notin live' => fds'[y] = None
      BY <1>2, <2>1, Unfold DEF OpenNew, IInv, TypeOK
    <3> QED
      BY <1>2, <2>4, <2>6, <3>1
         DEF OpenNew, IInv, TypeOK, Tables, DescSlabs, Results
  <2>8. EndsCounted(descs', pipes')
    BY <1>2, <2>2, <2>3, Unfold DEF EndsCounted, IsEnd, DescSlabs, OpenNew
  <2> QED
    BY <2>6, <2>7, <2>8, Assemble
<1> QED
  BY <1>1, <1>2 DEF OpenNew

(* A new reference and an entry for it, at one position. *)
LEMMA AcquireOne ==
    ASSUME IInv, NEW x \in Positions, NEW y \in Positions, fds[y] # None,
           NEW c \in BOOLEAN,
           NEW u \in Tables,
           \A z \in Positions : u[z] = IF z = x THEN Entry(fds[y].desc, c) ELSE fds[z]
    PROVE  \A k \in DescKeys :
              /\ descs[k] = None => At(u, k) = {}
              /\ Cardinality(At(u, k))
                   = Cardinality(At(fds, k)) - Points(fds[x], k) + Once(fds[y].desc)[k]
              /\ Cardinality(At(fds, k)) \in Nat
              /\ Points(fds[x], k) \in Nat
<1> DEFINE e == Entry(fds[y].desc, c)
<1>1. /\ fds[y].desc \in DescKeys /\ descs[fds[y].desc] # None
      /\ fds \in Tables /\ Covered(fds, descs)
  BY OpenHasDesc, Unfold
<1>2. e \in FdEntry /\ \A k : Points(e, k) = IF k = fds[y].desc THEN 1 ELSE 0
  BY <1>1, EntryType
<1>3. \A k \in DescKeys : Once(fds[y].desc)[k] = Points(e, k)
  BY <1>2 DEF Once
<1>4. u = [fds EXCEPT ![x] = e]
  BY <1>1, <1>2 DEF Tables
<1>5. \A k \in DescKeys : Cardinality(At(u, k))
             = Cardinality(At(fds, k)) - Points(fds[x], k) + Once(fds[y].desc)[k]
  <2>1. \A k \in DescKeys : Cardinality(At([fds EXCEPT ![x] = e], k))
                         = Cardinality(At(fds, k)) - Points(fds[x], k) + Points(e, k)
    <3> HIDE DEF e
    <3> QED
      BY <1>1, <1>2, OneEntry
  <2>2. \A k \in DescKeys : Cardinality(At(u, k))
                         = Cardinality(At(fds, k)) - Points(fds[x], k) + Points(e, k)
    BY ONLY <2>1, <1>4
  <2> QED
    BY <1>3, <2>2
<1>6. \A k \in DescKeys : descs[k] = None => At(u, k) = {}
  <2> SUFFICES ASSUME NEW k \in DescKeys, descs[k] = None
               PROVE  At(u, k) = {}
    OBVIOUS
  <2>1. At(fds, k) = {} /\ k # fds[y].desc
    BY <1>1 DEF Covered
  <2> QED
    BY <1>1, <2>1 DEF At, Entry
<1>7. \A k \in DescKeys : Points(fds[x], k) \in Nat /\ Cardinality(At(fds, k)) \in Nat
  BY AtFinite DEF Points
<1> QED
  BY <1>5, <1>6, <1>7

LEMMA OnceType ==
    ASSUME NEW key
    PROVE  /\ Once(key) \in [DescKeys -> Nat]
           /\ \A k \in DescKeys : Once(key)[k] \in 0 .. 1
  BY DEF Once

LEMMA DuplicateCounts ==
    ASSUME IInv, NEW p \in Tasks, NEW y \in Positions, fds[y] # None, NEW min,
           NEW cloexec \in Flags, FreeFrom(p, min) # {},
           fds' = [fds EXCEPT ![<<p, Lowest(FreeFrom(p, min))>>] = Entry(fds[y].desc, cloexec)]
    PROVE  /\ fds' \in Tables
           /\ \A k \in DescKeys :
                 /\ descs[k] = None => At(fds', k) = {}
                 /\ Cardinality(At(fds', k)) = Cardinality(At(fds, k)) + Once(fds[y].desc)[k]
<1> DEFINE x == <<p, Lowest(FreeFrom(p, min))>>
           n == Once(fds[y].desc)
<1>1. x \in Positions /\ fds[x] = None
  BY FreeFromPlace
<1>2. \A k : Points(fds[x], k) = 0
  BY <1>1 DEF Points
<1>3. \A k \in DescKeys : n[k] \in Nat /\ Cardinality(At(fds, k)) \in Nat
  BY OnceType, AtFinite
<1>4. cloexec \in BOOLEAN /\ fds \in Tables /\ fds[y].desc \in DescKeys
  BY FlagsBoolean, OpenHasDesc, Unfold
<1>5. /\ fds' \in Tables
      /\ \A z \in Positions :
            fds'[z] = IF z = x THEN Entry(fds[y].desc, cloexec) ELSE fds[z]
  BY <1>1, <1>4, EntryType DEF Tables
<1>6. \A k \in DescKeys :
         /\ descs[k] = None => At(fds', k) = {}
         /\ Cardinality(At(fds', k))
              = Cardinality(At(fds, k)) - Points(fds[x], k) + Once(fds[y].desc)[k]
  <2> DEFINE u == fds'
  <2>1. /\ u \in Tables
        /\ \A z \in Positions : u[z] = IF z = x THEN Entry(fds[y].desc, cloexec) ELSE fds[z]
    BY <1>5
  <2> HIDE DEF x, u
  <2>2. \A k \in DescKeys :
           /\ descs[k] = None => At(u, k) = {}
           /\ Cardinality(At(u, k))
                = Cardinality(At(fds, k)) - Points(fds[x], k) + Once(fds[y].desc)[k]
    BY <1>1, <1>4, <2>1, AcquireOne
  <2> QED
    BY <2>2 DEF u
<1>7. ASSUME NEW k \in DescKeys
      PROVE  Cardinality(At(fds', k)) = Cardinality(At(fds, k)) + n[k]
  <2>1. /\ Cardinality(At(fds', k)) = Cardinality(At(fds, k)) - Points(fds[x], k) + n[k]
        /\ Points(fds[x], k) = 0
    BY <1>2, <1>6
  <2>2. n[k] \in Nat /\ Cardinality(At(fds, k)) \in Nat
    BY <1>3
  <2> HIDE DEF n, x
  <2> QED
    BY <2>1, <2>2
<1> QED
  BY <1>5, <1>6, <1>7

LEMMA DuplicateStep ==
    ASSUME IInv, NEW p \in Tasks, NEW f \in Fds, NEW min \in 0 .. OpenFiles,
           NEW cloexec \in Flags, Duplicate(p, f, min, cloexec)
    PROVE  IInv'
<1> DEFINE y == <<p, f>>
           n == Once(fds[y].desc)
<1>1. y \in Positions /\ fds[y] # None
  BY DEF Duplicate, Open, Positions
<1>2. n \in [DescKeys -> Nat]
  BY OnceType
<1>3. descs' = Acquire(descs, n)
  BY DEF Duplicate
<1>4. descs' \in DescSlabs /\ EndsCounted(descs', pipes')
  BY <1>2, <1>3, AcquireType, AcquireEnds, Unfold DEF Duplicate
<1>5. CASE UNCHANGED fds /\ result' = "MFILE"
  <2>1. Covered(fds', descs')
    <3>1. \A k \in DescKeys :
             /\ descs[k] = None => At(fds, k) = {}
             /\ descs[k] # None => Cardinality(At(fds, k)) <= descs[k].refs + n[k]
      <4>1. \A k \in DescKeys : n[k] \in Nat /\ Cardinality(At(fds, k)) \in Nat
        BY <1>2, AtFinite
      <4>2. \A k \in DescKeys : descs[k] # None => descs[k].refs \in Nat
        BY Unfold, DescriptorsAssumption DEF DescSlabs, Description
      <4> HIDE DEF n
      <4> QED
        BY <4>1, <4>2, Unfold DEF Covered
    <3> QED
      BY <1>2, <1>3, <1>5, <3>1, AcquireCovers, Unfold
  <2>2. TypeOK'
    BY <1>4, <1>5 DEF Duplicate, IInv, TypeOK, DescSlabs, Results
  <2> QED
    BY <1>4, <2>1, <2>2, Assemble
<1>6. CASE /\ FreeFrom(p, min) # {}
           /\ fds' = [fds EXCEPT ![<<p, Lowest(FreeFrom(p, min))>>] =
                                     Entry(fds[y].desc, cloexec)]
           /\ result' = "ok"
  <2> DEFINE x == <<p, Lowest(FreeFrom(p, min))>>
  <2>1. x \in Positions /\ fds[x] = None
    BY <1>6, FreeFromPlace
  <2>2. /\ fds' \in Tables
        /\ \A k \in DescKeys :
              /\ descs[k] = None => At(fds', k) = {}
              /\ Cardinality(At(fds', k)) = Cardinality(At(fds, k)) + n[k]
    BY <1>1, <1>6, DuplicateCounts
  <2>3. Covered(fds', descs')
    <3>1. \A k \in DescKeys : descs[k] # None =>
             Cardinality(At(fds', k)) <= descs[k].refs + n[k]
      <4>1. \A k \in DescKeys : n[k] \in Nat /\ Cardinality(At(fds, k)) \in Nat
        BY <1>2, AtFinite
      <4>2. \A k \in DescKeys : descs[k] # None => descs[k].refs \in Nat
        BY Unfold, DescriptorsAssumption DEF DescSlabs, Description
      <4> HIDE DEF n
      <4> QED
        BY <2>2, <4>1, <4>2, Unfold DEF Covered
    <3> QED
      BY <1>2, <1>3, <2>2, <3>1, AcquireCovers, Unfold
  <2>4. TypeOK'
    <3>1. \A z \in Positions : z[1] \notin live' => fds'[z] = None
      BY <1>6, <2>1, Unfold DEF Duplicate, IInv, TypeOK
    <3> QED
      BY <1>4, <1>6, <2>2, <3>1
         DEF Duplicate, IInv, TypeOK, Tables, DescSlabs, Results
  <2> QED
    BY <1>4, <2>3, <2>4, Assemble
<1> QED
  BY <1>5, <1>6 DEF Duplicate

(* The steps that release what a set of entries pointed at. *)
LEMMA ReleaseKeeps ==
    ASSUME IInv, NEW ds \in DescSlabs, NEW n \in [DescKeys -> Nat],
           EndsCounted(ds, pipes), Release(ds, n),
           \A k \in DescKeys :
              /\ ds[k] = None => At(fds', k) = {}
              /\ ds[k] # None => Cardinality(At(fds', k)) + n[k] <= ds[k].refs
    PROVE  /\ Covered(fds', descs') /\ EndsCounted(descs', pipes')
           /\ descs' \in DescSlabs /\ pipes' \in PipeSlabs
<1>1. descs' = DescsAfter(ds, n) /\ pipes' = PipesAfter(ds, pipes, n)
  BY DEF Release
<1>2. pipes \in PipeSlabs
  BY Unfold
<1>3. Covered(fds', DescsAfter(ds, n))
  BY <1>2, ReleaseCovers
<1> QED
  BY <1>1, <1>2, <1>3, ReleaseType, ReleaseEnds

LEMMA CountType ==
    ASSUME NEW R \in SUBSET Positions
    PROVE  Count(R) \in [DescKeys -> Nat]
<1>1. \A k \in DescKeys : Count(R)[k] \in Nat
  BY CountIsAt
<1> QED
  BY <1>1 DEF Count

LEMMA RemoveCounts ==
    ASSUME NEW R \in SUBSET Positions,
           fds' = [x \in Positions |-> IF x \in R THEN None ELSE fds[x]]
    PROVE  \A k \in DescKeys : Cardinality(At(fds', k)) = Cardinality(At(fds, k)) - Count(R)[k]
<1> DEFINE u == [x \in Positions |-> IF x \in R THEN None ELSE fds[x]]
<1>1. \A k \in DescKeys : Cardinality(At(u, k)) = Cardinality(At(fds, k)) - Count(R)[k]
  BY EntriesRemoved
<1> QED
  BY <1>1

(* Close, exec and exit take entries away and release them. *)
LEMMA RemoveKeeps ==
    ASSUME IInv, NEW R \in SUBSET Positions,
           fds' = [x \in Positions |-> IF x \in R THEN None ELSE fds[x]],
           Release(descs, Count(R))
    PROVE  /\ fds' \in Tables
           /\ Covered(fds', descs') /\ EndsCounted(descs', pipes')
           /\ descs' \in DescSlabs /\ pipes' \in PipeSlabs
<1>1. fds' \in Tables
  BY Unfold DEF Tables
<1>2. \A k \in DescKeys : Cardinality(At(fds', k)) = Cardinality(At(fds, k)) - Count(R)[k]
  BY RemoveCounts
<1>3. \A k \in DescKeys : At(fds', k) \subseteq At(fds, k)
  BY DEF At
<1>4. \A k \in DescKeys :
         /\ descs[k] = None => At(fds', k) = {}
         /\ descs[k] # None => Cardinality(At(fds', k)) + Count(R)[k] <= descs[k].refs
  <2>1. \A k \in DescKeys : Count(R)[k] \in Nat /\ Cardinality(At(fds, k)) \in Nat
    BY CountIsAt, AtFinite
  <2>2. \A k \in DescKeys : descs[k] # None => descs[k].refs \in Nat
    BY Unfold, DescriptorsAssumption DEF DescSlabs, Description
  <2> QED
    BY <1>2, <1>3, <2>1, <2>2, Unfold DEF Covered
<1> QED
  BY <1>1, <1>4, CountType, ReleaseKeeps, Unfold

LEMMA CloseStep ==
    ASSUME IInv, NEW p \in Tasks, NEW f \in Fds, Close(p, f)
    PROVE  IInv'
<1>1. <<p, f>> \in Positions
  BY DEF Positions
<1>2. fds' = [x \in Positions |-> IF x \in {<<p, f>>} THEN None ELSE fds[x]]
  BY <1>1, Unfold DEF Close, Tables
<1>3. /\ fds' \in Tables
      /\ Covered(fds', descs') /\ EndsCounted(descs', pipes')
      /\ descs' \in DescSlabs /\ pipes' \in PipeSlabs
  BY <1>1, <1>2, RemoveKeeps DEF Close
<1>4. TypeOK'
  <2>1. \A x \in Positions : x[1] \notin live' => fds'[x] = None
    BY <1>2 DEF Close, IInv, TypeOK
  <2> QED
    BY <1>3, <2>1 DEF Close, IInv, TypeOK, Tables, DescSlabs, PipeSlabs, Results
<1> QED
  BY <1>3, <1>4, Assemble

LEMMA ExecStep ==
    ASSUME IInv, NEW p \in Tasks, Exec(p)
    PROVE  IInv'
<1> DEFINE closing == {x \in {p} \X Open(p) : fds[x].cloexec}
<1>1. closing \in SUBSET Positions
  BY DEF Open, Positions
<1>2. fds' = [x \in Positions |-> IF x \in closing THEN None ELSE fds[x]]
  BY DEF Exec
<1>3. Release(descs, Count(closing)) /\ live' = live /\ result' = "ok"
  BY DEF Exec
<1>4. /\ fds' \in Tables
      /\ Covered(fds', descs') /\ EndsCounted(descs', pipes')
      /\ descs' \in DescSlabs /\ pipes' \in PipeSlabs
  <2> HIDE DEF closing
  <2> QED
    BY <1>1, <1>2, <1>3, RemoveKeeps
<1>5. TypeOK'
  <2>1. \A x \in Positions : x[1] \notin live' => fds'[x] = None
    BY <1>2, <1>3 DEF IInv, TypeOK
  <2> QED
    BY <1>3, <1>4, <2>1 DEF IInv, TypeOK, Tables, DescSlabs, PipeSlabs, Results
<1> QED
  BY <1>4, <1>5, Assemble

LEMMA EndStep ==
    ASSUME IInv, NEW p \in Tasks, End(p)
    PROVE  IInv'
<1>1. {p} \X Fds \in SUBSET Positions
  BY DEF Positions
<1>2. fds' = [x \in Positions |-> IF x \in {p} \X Fds THEN None ELSE fds[x]]
  BY DEF End, Positions
<1>3. Release(descs, Count({p} \X Fds)) /\ live' = live \ {p} /\ result' = "ok"
  BY DEF End
<1>4. /\ fds' \in Tables
      /\ Covered(fds', descs') /\ EndsCounted(descs', pipes')
      /\ descs' \in DescSlabs /\ pipes' \in PipeSlabs
  BY <1>1, <1>2, <1>3, RemoveKeeps
<1>5. TypeOK'
  <2>1. \A x \in Positions : x[1] \notin live' => fds'[x] = None
    BY <1>2, <1>3 DEF IInv, TypeOK, Positions
  <2> QED
    BY <1>3, <1>4, <2>1 DEF IInv, TypeOK, Tables, DescSlabs, PipeSlabs, Results
<1> QED
  BY <1>4, <1>5, Assemble

LEMMA SetCloexecStep ==
    ASSUME IInv, NEW p \in Tasks, NEW f \in Fds, NEW on \in Flags, SetCloexec(p, f, on)
    PROVE  IInv'
<1> DEFINE x == <<p, f>>
           e == Entry(fds[x].desc, on)
<1>1. x \in Positions /\ fds[x] # None /\ on \in BOOLEAN /\ p \in live
  BY FlagsBoolean DEF SetCloexec, Open, Positions
<1>2. fds[x] \in FdEntry /\ fds[x].desc \in DescKeys
  BY <1>1, OpenHasDesc
<1>3. [fds[x] EXCEPT !.cloexec = on] = e
  BY <1>2 DEF FdEntry, Entry
<1>4. fds' = [fds EXCEPT ![x] = e]
  BY <1>1, <1>3, Unfold DEF SetCloexec, Tables
<1>5. e \in FdEntry /\ e # None /\ e.desc = fds[x].desc
  BY <1>1, <1>2, EntryType DEF Entry
<1>6. fds' \in Tables
  BY <1>1, <1>4, <1>5, Unfold DEF Tables
<1>7. \A y \in Positions : (fds'[y] # None <=> fds[y] # None) /\ fds'[y].desc = fds[y].desc
  BY <1>1, <1>4, <1>5, Unfold DEF Tables
<1>8. \A k : At(fds', k) = At(fds, k)
  BY <1>7 DEF At
<1>9. Covered(fds', descs') /\ EndsCounted(descs', pipes')
  BY <1>8, Unfold DEF Covered, SetCloexec
<1>10. TypeOK'
  <2>1. \A y \in Positions : y[1] \notin live' => fds'[y] = None
    BY <1>1, <1>7 DEF SetCloexec, IInv, TypeOK
  <2> QED
    BY <1>6, <2>1 DEF SetCloexec, IInv, TypeOK, Tables, Results
<1> QED
  BY <1>9, <1>10, Assemble

LEMMA Dup3Step ==
    ASSUME IInv, NEW p \in Tasks, NEW f \in Fds, NEW target \in 0 .. OpenFiles,
           NEW cloexec \in Flags, Dup3(p, f, target, cloexec)
    PROVE  IInv'
<1> DEFINE y == <<p, f>>
           x == <<p, target>>
           n == Once(fds[y].desc)
           taken == Acquire(descs, n)
<1>1. y \in Positions /\ fds[y] # None /\ p \in live
  BY DEF Dup3, Open, Positions
<1>2. /\ taken \in DescSlabs /\ EndsCounted(taken, pipes)
      /\ n \in [DescKeys -> Nat] /\ \A k \in DescKeys : n[k] \in 0 .. 1
  BY OnceType, AcquireType, AcquireEnds, Unfold
<1>3. ASSUME NEW k \in DescKeys
      PROVE  /\ n[k] \in 0 .. 1 /\ Cardinality(At(fds, k)) \in Nat
             /\ taken[k] = None => descs[k] = None /\ At(fds, k) = {}
             /\ taken[k] # None =>
                   /\ taken[k].refs \in Nat
                   /\ Cardinality(At(fds, k)) + n[k] <= taken[k].refs
  <2>1. /\ Cardinality(At(fds, k)) \in Nat /\ MaxRefs \in Nat
        /\ Cardinality(At(fds, k)) + 1 <= MaxRefs
    BY AtFinite, PositionsFinite, DescriptorsAssumption
  <2>2. descs[k] # None => descs[k].refs \in Nat
    BY Unfold, DescriptorsAssumption DEF DescSlabs, Description
  <2>3. /\ descs[k] = None => At(fds, k) = {}
        /\ descs[k] # None => Cardinality(At(fds, k)) <= descs[k].refs
    BY Unfold DEF Covered
  <2>4. /\ taken[k] = None <=> descs[k] = None
        /\ descs[k] # None =>
              taken[k].refs = IF descs[k].refs + n[k] > MaxRefs
                              THEN MaxRefs ELSE descs[k].refs + n[k]
    <3> HIDE DEF n
    <3> QED
      BY <1>2, AcquireType, Unfold
  <2>5. n[k] \in 0 .. 1
    BY <1>2
  <2> HIDE DEF n, taken
  <2> QED
    BY <2>1, <2>2, <2>3, <2>4, <2>5
<1>4. CASE descs' = taken /\ result' = "BADF" /\ UNCHANGED <<fds, pipes, live>>
  <2>1. Covered(fds, taken)
    <3> SUFFICES ASSUME NEW k \in DescKeys
                 PROVE  /\ taken[k] = None => At(fds, k) = {}
                        /\ taken[k] # None => Cardinality(At(fds, k)) <= taken[k].refs
      BY DEF Covered
    <3> HIDE DEF n, taken
    <3> QED
      BY <1>3
  <2>2. TypeOK'
    BY <1>2, <1>4 DEF IInv, TypeOK, DescSlabs, Results
  <2> QED
    BY <1>2, <1>4, <2>1, <2>2, Assemble
<1>5. CASE /\ target \in Fds
           /\ fds' = [fds EXCEPT ![x] = Entry(fds[y].desc, cloexec)]
           /\ Release(taken, Count({x}))
           /\ result' = "ok" /\ live' = live
  <2>1. x \in Positions
    BY <1>5 DEF Positions
  <2>2. cloexec \in BOOLEAN /\ fds \in Tables /\ fds[y].desc \in DescKeys
    BY <1>1, FlagsBoolean, OpenHasDesc, Unfold
  <2>3. /\ fds' \in Tables
        /\ \A z \in Positions :
              fds'[z] = IF z = x THEN Entry(fds[y].desc, cloexec) ELSE fds[z]
    BY <1>5, <2>1, <2>2, EntryType DEF Tables
  <2>4. \A k \in DescKeys :
           /\ descs[k] = None => At(fds', k) = {}
           /\ Cardinality(At(fds', k)) = Cardinality(At(fds, k)) - Points(fds[x], k) + n[k]
           /\ Points(fds[x], k) \in Nat
    <3> HIDE DEF x, y
    <3> QED
      BY <1>1, <2>1, <2>2, <2>3, AcquireOne
  <2>5. /\ Count({x}) \in [DescKeys -> Nat]
        /\ \A k \in DescKeys : Count({x})[k] = Points(fds[x], k)
    BY <2>1, CountType, CountOne
  <2>6. \A k \in DescKeys :
           /\ taken[k] = None => At(fds', k) = {}
           /\ taken[k] # None => Cardinality(At(fds', k)) + Count({x})[k] <= taken[k].refs
    <3> SUFFICES ASSUME NEW k \in DescKeys
                 PROVE  /\ taken[k] = None => At(fds', k) = {}
                        /\ taken[k] # None =>
                             Cardinality(At(fds', k)) + Count({x})[k] <= taken[k].refs
      OBVIOUS
    <3>1. Count({x})[k] = Points(fds[x], k)
      BY <2>5
    <3>2. /\ descs[k] = None => At(fds', k) = {}
          /\ Cardinality(At(fds', k)) = Cardinality(At(fds, k)) - Points(fds[x], k) + n[k]
          /\ Points(fds[x], k) \in Nat
      BY <2>4
    <3> HIDE DEF n, taken, x
    <3> QED
      BY <1>3, <3>1, <3>2
  <2>7. /\ Covered(fds', descs') /\ EndsCounted(descs', pipes')
        /\ descs' \in DescSlabs /\ pipes' \in PipeSlabs
    <3> HIDE DEF n, taken, x
    <3> QED
      BY <1>2, <1>5, <2>5, <2>6, ReleaseKeeps
  <2>8. TypeOK'
    <3>1. \A z \in Positions : z[1] \notin live' => fds'[z] = None
      BY <1>1, <1>5, <2>3 DEF IInv, TypeOK
    <3> QED
      BY <1>5, <2>3, <2>7, <3>1 DEF IInv, TypeOK, Tables, DescSlabs, PipeSlabs, Results
  <2> QED
    BY <2>7, <2>8, Assemble
<1> QED
  BY <1>4, <1>5 DEF Dup3

(* The child's entries are as many as its parent's. *)
LEMMA VforkCounts ==
    ASSUME IInv, NEW p \in Tasks, NEW c \in Tasks, c \notin live,
           fds' = [x \in Positions |-> IF x[1] = c THEN fds[<<p, x[2]>>] ELSE fds[x]],
           NEW k \in DescKeys
    PROVE  /\ At(fds, k) = {} => At(fds', k) = {}
           /\ Cardinality(At(fds', k)) = Cardinality(At(fds, k)) + Count({p} \X Fds)[k]
<1> DEFINE mine == {p} \X Fds
           n == Count(mine)
<1>1. mine \in SUBSET Positions
  BY DEF Positions
<1>2. n[k] = Cardinality(mine \cap At(fds, k))
  BY <1>1, CountIsAt
<1>3. /\ fds' = [x \in Positions |-> IF x[1] = c THEN fds[<<p, x[2]>>] ELSE fds[x]]
      /\ c \notin live
  OBVIOUS
<1>4. \A x \in Positions : x[2] \in Fds /\ <<p, x[2]>> \in Positions /\ x = <<x[1], x[2]>>
  BY DEF Positions
<1> DEFINE S == mine \cap At(fds, k)
           C == At(fds', k) \cap ({c} \X Fds)
           g == [x \in S |-> <<c, x[2]>>]
<1>5. IsFiniteSet(S) /\ IsFiniteSet(At(fds, k)) /\ Cardinality(At(fds, k)) \in Nat
  BY AtFinite, FS_Intersection
<1>6. ASSUME NEW x \in C
      PROVE  <<p, x[2]>> \in S /\ x = <<c, x[2]>>
  <2>1. x \in Positions /\ x[1] = c /\ x[2] \in Fds /\ x = <<c, x[2]>>
    BY DEF Positions
  <2>2. fds'[x] = fds[<<p, x[2]>>]
    BY <1>3, <2>1
  <2> QED
    BY <1>4, <2>1, <2>2 DEF At
<1>7. g \in Surjection(S, C)
  <2>1. ASSUME NEW x \in S
        PROVE  <<c, x[2]>> \in C
    <3>1. x \in Positions /\ x = <<p, x[2]>> /\ x[2] \in Fds
      BY DEF Positions
    <3>2. <<c, x[2]>> \in Positions
      BY <3>1 DEF Positions
    <3>3. fds'[<<c, x[2]>>] = fds[x]
      BY <1>3, <3>1, <3>2
    <3> QED
      BY <3>1, <3>2, <3>3 DEF At
  <2>2. ASSUME NEW x \in C
        PROVE  \E z \in S : g[z] = x
    BY <1>6
  <2> QED
    BY <2>1, <2>2 DEF Surjection
<1>8. IsFiniteSet(C) /\ Cardinality(C) = Cardinality(S)
  <2>1. g \in Injection(S, C)
    <3>1. \A z \in S : z = <<p, z[2]>>
      OBVIOUS
    <3>2. \A z, v \in S : g[z] = g[v] => z = v
      BY <3>1
    <3> QED
      BY <1>7, <3>2 DEF Injection, Surjection, IsInjective
  <2> HIDE DEF S, C, g
  <2> QED
    BY <1>5, <1>7, <2>1, FS_Surjection
<1>9. At(fds', k) = At(fds, k) \cup C
  <2>1. ASSUME NEW x \in At(fds, k)
        PROVE  x \in At(fds', k)
    <3>1. x \in Positions /\ fds[x] # None
      BY DEF At
    <3>2. x[1] # c
      BY <1>3, <3>1 DEF IInv, TypeOK
    <3> QED
      BY <1>3, <3>1, <3>2 DEF At
  <2>2. ASSUME NEW x \in At(fds', k), x \notin C
        PROVE  x \in At(fds, k)
    <3>1. x \in Positions
      BY DEF At
    <3>2. x[1] # c
      <4>1. x \notin {c} \X Fds
        BY <2>2
      <4>2. x = <<x[1], x[2]>> /\ x[2] \in Fds
        BY <1>4, <3>1
      <4>3. <<c, x[2]>> \in {c} \X Fds
        BY <4>2
      <4> QED
        BY <4>1, <4>2, <4>3
    <3> QED
      BY <1>3, <3>1, <3>2 DEF At
  <2> QED
    BY <2>1, <2>2
<1>10. Cardinality(At(fds, k) \cup C) = Cardinality(At(fds, k)) + Cardinality(C)
  <2>1. At(fds, k) \cap C = {}
    <3> SUFFICES ASSUME NEW x \in At(fds, k), x \in C PROVE FALSE
      OBVIOUS
    <3>1. x \in Positions /\ fds[x] # None /\ x[1] = c
      BY DEF At
    <3> QED
      BY <1>3, <3>1 DEF IInv, TypeOK
  <2>2. Cardinality(At(fds, k) \cap C) = 0 /\ Cardinality(C) \in Nat
    BY <1>8, <2>1, FS_EmptySet, FS_CardinalityType
  <2>3. Cardinality(At(fds, k) \cup C) = Cardinality(At(fds, k)) + Cardinality(C)
                                           - Cardinality(At(fds, k) \cap C)
    <3> HIDE DEF C
    <3> QED
      BY <1>5, <1>8, FS_Union
  <2> HIDE DEF C
  <2> QED
    BY <1>5, <2>2, <2>3
<1>11. n[k] = Cardinality(S) /\ n[k] \in Nat /\ Cardinality(C) \in Nat
      /\ Cardinality(At(fds, k) \cup C) \in Nat
  BY <1>2, <1>5, <1>8, FS_CardinalityType, FS_Union
<1>12. Cardinality(At(fds', k)) = Cardinality(At(fds, k)) + n[k]
  <2> HIDE DEF C, S, n
  <2> QED
    BY <1>5, <1>8, <1>9, <1>10, <1>11
<1>13. At(fds, k) = {} => At(fds', k) = {}
  BY <1>6, <1>9
<1> QED
  BY <1>12, <1>13

LEMMA VforkStep ==
    ASSUME IInv, NEW p \in Tasks, NEW c \in Tasks, Vfork(p, c)
    PROVE  IInv'
<1> DEFINE mine == {p} \X Fds
           n == Count(mine)
<1>1. mine \in SUBSET Positions
  BY DEF Positions
<1>2. /\ n \in [DescKeys -> Nat]
      /\ \A k \in DescKeys : n[k] = Cardinality(mine \cap At(fds, k))
  BY <1>1, CountType, CountIsAt
<1>3. /\ fds' = [x \in Positions |-> IF x[1] = c THEN fds[<<p, x[2]>>] ELSE fds[x]]
      /\ descs' = Acquire(descs, n)
      /\ c \notin live /\ live' = live \cup {c} /\ pipes' = pipes /\ result' = "ok"
  BY DEF Vfork
<1>4. \A x \in Positions : x[2] \in Fds /\ <<p, x[2]>> \in Positions /\ x = <<x[1], x[2]>>
  BY DEF Positions
<1>5. fds' \in Tables
  BY <1>3, <1>4, Unfold DEF Tables
<1>6. \A k \in DescKeys :
         /\ At(fds, k) = {} => At(fds', k) = {}
         /\ Cardinality(At(fds', k)) = Cardinality(At(fds, k)) + n[k]
  BY <1>3, VforkCounts
<1>7. \A k \in DescKeys :
         /\ descs[k] = None => At(fds', k) = {}
         /\ descs[k] # None => Cardinality(At(fds', k)) <= descs[k].refs + n[k]
  <2>1. \A k \in DescKeys : /\ Cardinality(At(fds, k)) \in Nat
                           /\ Cardinality(At(fds', k)) \in Nat /\ n[k] \in Nat
    BY <1>2, AtFinite
  <2>2. \A k \in DescKeys : descs[k] # None => descs[k].refs \in Nat
    BY Unfold, DescriptorsAssumption DEF DescSlabs, Description
  <2> HIDE DEF n
  <2> QED
    BY <1>6, <2>1, <2>2, Unfold DEF Covered
<1>8. Covered(fds', descs') /\ descs' \in DescSlabs /\ EndsCounted(descs', pipes')
  <2> HIDE DEF n
  <2> QED
    BY <1>2, <1>3, <1>7, AcquireCovers, AcquireType, AcquireEnds, Unfold
<1>9. TypeOK'
  <2>1. \A x \in Positions : x[1] \notin live' => fds'[x] = None
    BY <1>3 DEF IInv, TypeOK
  <2> QED
    BY <1>3, <1>5, <1>8, <2>1 DEF IInv, TypeOK, Tables, DescSlabs, Results
<1> QED
  BY <1>8, <1>9, Assemble

(* No description names a pipe that does not exist, so a new pipe can only *)
(* have the ends that pipe2 gives it.                                      *)
LEMMA PipeAdded ==
    ASSUME IInv, NEW q \in PipeKeys, pipes[q] = None,
           pipes' \in PipeSlabs, pipes'[q] # None,
           \A o \in PipeKeys : o # q => pipes'[o] = pipes[o],
           pipes'[q].readers + pipes'[q].writers > 0,
           descs' \in DescSlabs,
           \A k \in DescKeys : descs'[k] # descs[k] =>
              /\ IsEnd(descs', k) /\ descs'[k].pipe = q
              /\ descs'[k].kind = "read" => pipes'[q].readers = 1
              /\ descs'[k].kind = "write" => pipes'[q].writers = 1,
           \A k, l \in DescKeys :
              /\ descs'[k] # descs[k] /\ descs'[l] # descs[l]
              /\ descs'[k].kind = descs'[l].kind
              => k = l
    PROVE  EndsCounted(descs', pipes')
<1>1. EndsCounted(descs, pipes) /\ descs \in DescSlabs
  BY Unfold
<1>2. \A k \in DescKeys : IsEnd(descs', k) => descs'[k].pipe \in PipeKeys
  BY DEF IsEnd, DescSlabs, Description
<1>3. ASSUME NEW k \in DescKeys, IsEnd(descs', k), descs'[k] = descs[k]
      PROVE  IsEnd(descs, k) /\ descs'[k].pipe # q
  BY <1>1, <1>3 DEF IsEnd, EndsCounted
<1>4. ASSUME NEW k \in DescKeys, IsEnd(descs', k)
      PROVE  /\ pipes'[descs'[k].pipe] # None
             /\ descs'[k].kind = "read" => pipes'[descs'[k].pipe].readers = 1
             /\ descs'[k].kind = "write" => pipes'[descs'[k].pipe].writers = 1
  <2>1. CASE descs'[k] = descs[k]
    BY <1>1, <1>2, <1>3, <1>4, <2>1 DEF EndsCounted
  <2>2. CASE descs'[k] # descs[k]
    BY <1>4, <2>2
  <2> QED
    BY <2>1, <2>2
<1>5. ASSUME NEW k \in DescKeys, NEW l \in DescKeys, IsEnd(descs', k), descs'[l] # None,
             descs'[l].kind = descs'[k].kind, descs'[l].pipe = descs'[k].pipe
      PROVE  k = l
  <2>1. IsEnd(descs', l)
    BY <1>5 DEF IsEnd
  <2> QED
    BY <1>1, <1>3, <1>5, <2>1 DEF EndsCounted
<1>6. \A o \in PipeKeys : pipes'[o] # None => pipes'[o].readers + pipes'[o].writers > 0
  BY <1>1 DEF EndsCounted
<1> QED
  BY <1>4, <1>5, <1>6 DEF EndsCounted

(* The failing stages: no descriptor is placed. *)
LEMMA Pipe2Refused ==
    ASSUME IInv, fds' = fds, live' = live, result' \in Results,
           descs' \in DescSlabs, Covered(fds, descs'),
           pipes' \in PipeSlabs, EndsCounted(descs', pipes')
    PROVE  IInv'
<1>1. TypeOK'
  BY DEF IInv, TypeOK, DescSlabs, PipeSlabs
<1>2. Covered(fds', descs')
  OBVIOUS
<1> QED
  BY <1>1, <1>2, Assemble

LEMMA Pipe2FdsStep ==
    ASSUME IInv, NEW p \in Tasks, NEW cloexec \in Flags, p \in live, live' = live,
           NEW q \in FreePipes, NEW r \in FreeDescs, NEW w \in FreeDescs \ {r},
           Pipe2Fds(p, cloexec, q, r, w)
    PROVE  IInv'
<1> DEFINE R == EndDesc("read", q)
           W == EndDesc("write", q)
           one == [descs EXCEPT ![r] = R]
           made == [descs EXCEPT ![r] = R, ![w] = W]
           room == FreeFrom(p, 0)
           rest == room \ {Lowest(room)}
<1>1. /\ q \in PipeKeys /\ pipes[q] = None /\ NewPipe \in Pipe
      /\ NewPipe.readers = 1 /\ NewPipe.writers = 1
  BY DEF FreePipes, NewPipe, Pipe
<1>2. /\ r \in DescKeys /\ descs[r] = None /\ w \in DescKeys /\ descs[w] = None /\ r # w
  BY DEF FreeDescs
<1>3. /\ R \in Description /\ R # None /\ R.kind = "read" /\ R.pipe = q
      /\ W \in Description /\ W # None /\ W.kind = "write" /\ W.pipe = q
  BY <1>1, DescriptorsAssumption, PositionsFinite DEF EndDesc, Description
<1>4. /\ one \in DescSlabs /\ Covered(fds, one) /\ At(fds, r) = {} /\ one[w] = None
  <2> HIDE DEF R
  <2> QED
    BY <1>2, <1>3, AddDesc, Unfold
<1>5. made = [one EXCEPT ![w] = W]
  OBVIOUS
<1>6. made \in DescSlabs /\ Covered(fds, made) /\ At(fds, w) = {}
  <2> HIDE DEF R, W, one, made
  <2> QED
    BY <1>2, <1>3, <1>4, <1>5, AddDesc
<1>7. \A k \in DescKeys : made[k] = IF k = w THEN W ELSE IF k = r THEN R ELSE descs[k]
  <2> HIDE DEF R, W
  <2> QED
    BY <1>2, Unfold DEF DescSlabs
<1>8. CASE /\ pipes' = [pipes EXCEPT ![q] = NewPipe] /\ descs' = made
           /\ result' = "MFILE" /\ fds' = fds
  <2>1. EndsCounted(descs', pipes') /\ pipes' \in PipeSlabs
    <3>1. pipes' = [pipes EXCEPT ![q] = [readers |-> 1, writers |-> 1]]
      BY <1>8 DEF NewPipe
    <3>2. /\ pipes' \in PipeSlabs /\ pipes'[q] # None
          /\ pipes'[q].readers = 1 /\ pipes'[q].writers = 1
          /\ pipes'[q].readers + pipes'[q].writers > 0
          /\ \A o \in PipeKeys : o # q => pipes'[o] = pipes[o]
      BY <1>1, <3>1, Unfold, DescriptorsAssumption DEF PipeSlabs, Pipe
    <3>3. /\ descs' \in DescSlabs
          /\ \A k \in DescKeys :
                descs'[k] = IF k = w THEN W ELSE IF k = r THEN R ELSE descs[k]
      BY <1>6, <1>7, <1>8
    <3> HIDE DEF R, W
    <3> QED
      BY <1>1, <1>2, <1>3, <3>2, <3>3, PipeAdded DEF IsEnd
  <2> HIDE DEF made
  <2> QED
    BY <1>6, <1>8, <2>1, Pipe2Refused DEF Results
<1>9. CASE /\ pipes' = [pipes EXCEPT ![q] = [readers |-> 0, writers |-> 1]]
           /\ descs' = [made EXCEPT ![r] = None]
           /\ result' = "MFILE" /\ fds' = fds
  <2>1. descs' = [descs EXCEPT ![w] = W]
    <3>1. \A k \in DescKeys : descs'[k] = IF k = w THEN W ELSE descs[k]
      <4> HIDE DEF R, W, made
      <4> QED
        BY <1>2, <1>6, <1>7, <1>9 DEF DescSlabs
    <3> HIDE DEF R, W
    <3> QED
      BY <1>2, <1>9, <3>1, Unfold DEF DescSlabs
  <2>2. descs' \in DescSlabs /\ Covered(fds, descs')
    <3> HIDE DEF W
    <3> QED
      BY <1>2, <1>3, <2>1, AddDesc, Unfold
  <2>3. \A k \in DescKeys : descs'[k] = IF k = w THEN W ELSE descs[k]
    <3> HIDE DEF W
    <3> QED
      BY <1>2, <2>1, Unfold DEF DescSlabs
  <2>4. EndsCounted(descs', pipes') /\ pipes' \in PipeSlabs
    <3>1. /\ pipes' \in PipeSlabs /\ pipes'[q] # None
          /\ pipes'[q].readers = 0 /\ pipes'[q].writers = 1
          /\ pipes'[q].readers + pipes'[q].writers > 0
          /\ \A o \in PipeKeys : o # q => pipes'[o] = pipes[o]
      BY <1>1, <1>9, Unfold, DescriptorsAssumption DEF PipeSlabs, Pipe
    <3> HIDE DEF W
    <3> QED
      BY <1>1, <1>2, <1>3, <2>2, <2>3, <3>1, PipeAdded DEF IsEnd
  <2> QED
    BY <1>9, <2>2, <2>4, Pipe2Refused DEF Results
<1>10. CASE /\ room # {} /\ rest # {}
            /\ pipes' = [pipes EXCEPT ![q] = NewPipe] /\ descs' = made
            /\ fds' = [fds EXCEPT ![<<p, Lowest(room)>>] = Entry(r, cloexec),
                                  ![<<p, Lowest(rest)>>] = Entry(w, cloexec)]
            /\ result' \in {"ok", "FAULT"}
  <2> DEFINE x == <<p, Lowest(room)>>
             y == <<p, Lowest(rest)>>
             t == [fds EXCEPT ![x] = Entry(r, cloexec)]
  <2>1. /\ x \in Positions /\ fds[x] = None /\ y \in Positions /\ fds[y] = None
        /\ x # y
    <3>1. Lowest(rest) \in rest
      BY <1>10, FreeFromPlace
    <3> QED
      BY <1>10, <3>1, FreeFromPlace
  <2>2. cloexec \in BOOLEAN /\ fds \in Tables /\ made[r] # None /\ made[w] # None
    <3> HIDE DEF made, R, W
    <3> QED
      BY <1>2, <1>3, <1>7, FlagsBoolean, Unfold
  <2>3. t \in Tables /\ Covered(t, made) /\ At(t, w) = {}
    <3>1. t \in Tables /\ \A z \in Positions : t[z] = IF z = x THEN Entry(r, cloexec) ELSE fds[z]
      <4> HIDE DEF x
      <4> QED
        BY <1>2, <2>1, <2>2, EntryType DEF Tables
    <3> HIDE DEF made, x, t
    <3> QED
      BY <1>2, <1>4, <1>6, <2>1, <2>2, <3>1, PlaceEntry
  <2>4. t[y] = None
    <3> HIDE DEF x, y
    <3> QED
      BY <2>1, <2>2 DEF Tables
  <2>5. fds' = [t EXCEPT ![y] = Entry(w, cloexec)]
    BY <1>10
  <2>6. fds' \in Tables /\ Covered(fds', made)
    <3> HIDE DEF made, t, y
    <3>1. fds' \in Tables /\ \A z \in Positions : fds'[z] = IF z = y THEN Entry(w, cloexec) ELSE t[z]
      BY <1>2, <2>1, <2>2, <2>3, <2>5, EntryType DEF Tables
    <3> QED
      BY <1>2, <1>6, <2>1, <2>2, <2>3, <2>4, <3>1, PlaceEntry
  <2>7. EndsCounted(descs', pipes') /\ pipes' \in PipeSlabs
    <3>1. pipes' = [pipes EXCEPT ![q] = [readers |-> 1, writers |-> 1]]
      BY <1>10 DEF NewPipe
    <3>2. /\ pipes' \in PipeSlabs /\ pipes'[q] # None
          /\ pipes'[q].readers = 1 /\ pipes'[q].writers = 1
          /\ pipes'[q].readers + pipes'[q].writers > 0
          /\ \A o \in PipeKeys : o # q => pipes'[o] = pipes[o]
      BY <1>1, <3>1, Unfold, DescriptorsAssumption DEF PipeSlabs, Pipe
    <3>3. /\ descs' \in DescSlabs
          /\ \A k \in DescKeys :
                descs'[k] = IF k = w THEN W ELSE IF k = r THEN R ELSE descs[k]
      BY <1>6, <1>7, <1>10
    <3> HIDE DEF R, W
    <3> QED
      BY <1>1, <1>2, <1>3, <3>2, <3>3, PipeAdded DEF IsEnd
  <2>8. TypeOK'
    <3>1. \A z \in Positions : z[1] \notin live' => fds'[z] = None
      <4>1. \A z \in Positions : z # x /\ z # y => fds'[z] = fds[z]
        <5> HIDE DEF x, y
        <5> QED
          BY <2>1, <2>2, <2>5 DEF Tables
      <4> QED
        BY <4>1 DEF IInv, TypeOK
    <3> HIDE DEF made
    <3> QED
      BY <1>6, <1>10, <2>6, <2>7, <3>1
         DEF IInv, TypeOK, Tables, DescSlabs, PipeSlabs, Results
  <2> HIDE DEF made
  <2> QED
    BY <1>10, <2>6, <2>7, <2>8, Assemble
<1> QED
  BY <1>8, <1>9, <1>10 DEF Pipe2Fds

LEMMA Pipe2Step ==
    ASSUME IInv, NEW p \in Tasks, NEW cloexec \in Flags, Pipe2(p, cloexec)
    PROVE  IInv'
<1>1. p \in live /\ live' = live
  BY DEF Pipe2
<1>2. CASE result' = "MFILE" /\ UNCHANGED <<fds, descs, pipes>>
  BY <1>1, <1>2, Unfold, Pipe2Refused DEF Results
<1>3. ASSUME NEW q \in FreePipes,
             pipes' = [pipes EXCEPT ![q] = NewPipe], result' = "MFILE",
             UNCHANGED <<fds, descs>>
      PROVE  IInv'
  <2>1. q \in PipeKeys /\ pipes[q] = None /\ NewPipe \in Pipe
        /\ NewPipe.readers = 1 /\ NewPipe.writers = 1
    BY DEF FreePipes, NewPipe, Pipe
  <2>2. EndsCounted(descs, pipes') /\ pipes' \in PipeSlabs
    <3>1. pipes' = [pipes EXCEPT ![q] = [readers |-> 1, writers |-> 1]]
      BY <1>3 DEF NewPipe
    <3>2. /\ pipes' \in PipeSlabs /\ pipes'[q] # None
          /\ pipes'[q].readers = 1 /\ pipes'[q].writers = 1
          /\ pipes'[q].readers + pipes'[q].writers > 0
          /\ \A o \in PipeKeys : o # q => pipes'[o] = pipes[o]
      BY <2>1, <3>1, Unfold, DescriptorsAssumption DEF PipeSlabs, Pipe
    <3>3. descs' \in DescSlabs /\ descs' = descs
      BY <1>3, Unfold
    <3>4. EndsCounted(descs', pipes')
      BY <2>1, <3>2, <3>3, PipeAdded
    <3> QED
      BY <3>2, <3>3, <3>4
  <2> QED
    BY <1>1, <1>3, <2>2, Unfold, Pipe2Refused DEF Results
<1>4. ASSUME NEW q \in FreePipes, NEW r \in FreeDescs,
             pipes' = [pipes EXCEPT ![q] = NewPipe],
             descs' = [descs EXCEPT ![r] = EndDesc("read", q)],
             result' = "MFILE", fds' = fds
      PROVE  IInv'
  <2>1. q \in PipeKeys /\ pipes[q] = None /\ NewPipe \in Pipe
        /\ NewPipe.readers = 1 /\ NewPipe.writers = 1
    BY DEF FreePipes, NewPipe, Pipe
  <2>2. r \in DescKeys /\ descs[r] = None
    BY DEF FreeDescs
  <2>3. /\ EndDesc("read", q) \in Description /\ EndDesc("read", q) # None
        /\ EndDesc("read", q).kind = "read" /\ EndDesc("read", q).pipe = q
    BY <2>1, DescriptorsAssumption, PositionsFinite DEF EndDesc, Description
  <2>4. descs' \in DescSlabs /\ Covered(fds, descs')
    BY <1>4, <2>2, <2>3, AddDesc, Unfold
  <2>5. \A k \in DescKeys : descs'[k] = IF k = r THEN EndDesc("read", q) ELSE descs[k]
    BY <1>4, <2>2, Unfold DEF DescSlabs
  <2>6. EndsCounted(descs', pipes') /\ pipes' \in PipeSlabs
    <3>1. pipes' = [pipes EXCEPT ![q] = [readers |-> 1, writers |-> 1]]
      BY <1>4 DEF NewPipe
    <3>2. /\ pipes' \in PipeSlabs /\ pipes'[q] # None
          /\ pipes'[q].readers = 1 /\ pipes'[q].writers = 1
          /\ pipes'[q].readers + pipes'[q].writers > 0
          /\ \A o \in PipeKeys : o # q => pipes'[o] = pipes[o]
      BY <2>1, <3>1, Unfold, DescriptorsAssumption DEF PipeSlabs, Pipe
    <3> QED
      BY <2>1, <2>2, <2>3, <2>4, <2>5, <3>2, PipeAdded DEF IsEnd
  <2> QED
    BY <1>1, <1>4, <2>4, <2>6, Pipe2Refused DEF Results
<1>5. ASSUME NEW q \in FreePipes, NEW r \in FreeDescs, NEW w \in FreeDescs \ {r},
             Pipe2Fds(p, cloexec, q, r, w)
      PROVE  IInv'
  BY <1>1, <1>5, Pipe2FdsStep
<1> QED
  BY <1>2, <1>3, <1>4, <1>5 DEF Pipe2

-----------------------------------------------------------------------------
(* 4. Leaks.  Each lemma compares, after a call that succeeded, what a     *)
(* description counts with the descriptors that are left.                  *)

LEMMA SurplusSmaller ==
    ASSUME IInv, descs' \in DescSlabs, NEW k \in DescKeys,
           descs'[k] # None =>
              IF descs[k] = None
              THEN descs'[k].refs = Cardinality(At(fds', k))
              ELSE descs'[k].refs - Cardinality(At(fds', k))
                      <= descs[k].refs - Cardinality(At(fds, k))
    PROVE  Surplus(k)' <= Surplus(k)
<1>1. Holders(k) = At(fds, k) /\ Holders(k)' = At(fds', k)
  BY DEF Holders, PointingIn, At
<1>2. /\ Surplus(k) = IF descs[k] = None THEN 0 ELSE descs[k].refs - Cardinality(At(fds, k))
      /\ Surplus(k)' = IF descs'[k] = None THEN 0 ELSE descs'[k].refs - Cardinality(At(fds', k))
  BY <1>1 DEF Surplus
<1>3. /\ descs[k] # None => descs[k].refs \in Nat /\ Cardinality(At(fds, k)) <= descs[k].refs
      /\ descs'[k] # None => descs'[k].refs \in Nat
  BY Unfold, DescriptorsAssumption DEF Covered, DescSlabs, Description
<1>4. Cardinality(At(fds, k)) \in Nat /\ Cardinality(At(fds', k)) \in Nat
  BY AtFinite
<1> QED
  BY <1>2, <1>3, <1>4

(* References taken for as many new entries. *)
LEMMA AcquireLoses ==
    ASSUME IInv, NEW n \in [DescKeys -> Nat], descs' = Acquire(descs, n),
           \A k \in DescKeys : Cardinality(At(fds', k)) = Cardinality(At(fds, k)) + n[k]
    PROVE  \A k \in DescKeys : Surplus(k)' <= Surplus(k)
<1> SUFFICES ASSUME NEW k \in DescKeys
             PROVE  Surplus(k)' <= Surplus(k)
  OBVIOUS
<1>1. /\ descs' \in DescSlabs
      /\ descs'[k] = None <=> descs[k] = None
      /\ descs[k] # None =>
           descs'[k].refs = IF descs[k].refs + n[k] > MaxRefs THEN MaxRefs
                                                              ELSE descs[k].refs + n[k]
  BY Unfold, AcquireType
<1>2. descs[k] # None => descs[k].refs \in Nat
  BY Unfold, DescriptorsAssumption DEF DescSlabs, Description
<1>3. n[k] \in Nat /\ MaxRefs \in Nat /\ Cardinality(At(fds, k)) \in Nat
  BY AtFinite, DescriptorsAssumption
<1>4. descs'[k] # None =>
          /\ descs[k] # None
          /\ descs'[k].refs - Cardinality(At(fds', k))
                <= descs[k].refs - Cardinality(At(fds, k))
  BY <1>1, <1>2, <1>3
<1> QED
  BY <1>1, <1>4, SurplusSmaller

(* References released for as many entries as went, of a slab in which     *)
(* m[k] were taken for as many entries as came.                            *)
LEMMA ReleaseLoses ==
    ASSUME IInv, NEW m \in [DescKeys -> Nat], NEW n \in [DescKeys -> Nat],
           NEW ds \in DescSlabs, Release(ds, n),
           \A k \in DescKeys :
              ds[k] # None => descs[k] # None /\ ds[k].refs <= descs[k].refs + m[k],
           \A k \in DescKeys :
              Cardinality(At(fds', k)) = Cardinality(At(fds, k)) - n[k] + m[k]
    PROVE  \A k \in DescKeys : Surplus(k)' <= Surplus(k)
<1> SUFFICES ASSUME NEW k \in DescKeys
             PROVE  Surplus(k)' <= Surplus(k)
  OBVIOUS
<1>1. /\ descs' \in DescSlabs
      /\ descs'[k] # None => ds[k] # None /\ descs'[k].refs = ds[k].refs - n[k]
  BY Unfold, ReleaseType DEF Release
<1>2. /\ descs[k] # None => descs[k].refs \in Nat
      /\ ds[k] # None => ds[k].refs \in Nat
  BY Unfold, DescriptorsAssumption DEF DescSlabs, Description
<1>3. n[k] \in Nat /\ m[k] \in Nat /\ Cardinality(At(fds, k)) \in Nat
  BY AtFinite
<1>4. descs'[k] # None =>
          /\ descs[k] # None
          /\ descs'[k].refs - Cardinality(At(fds', k))
                <= descs[k].refs - Cardinality(At(fds, k))
  BY <1>1, <1>2, <1>3
<1> QED
  BY <1>1, <1>4, SurplusSmaller

(* Close, exec and exit. *)
LEMMA RemoveLoses ==
    ASSUME IInv, NEW R \in SUBSET Positions,
           fds' = [x \in Positions |-> IF x \in R THEN None ELSE fds[x]],
           Release(descs, Count(R))
    PROVE  \A k \in DescKeys : Surplus(k)' <= Surplus(k)
<1> DEFINE zero == [k \in DescKeys |-> 0]
           n == Count(R)
<1>1. zero \in [DescKeys -> Nat] /\ n \in [DescKeys -> Nat] /\ descs \in DescSlabs
  BY CountType, Unfold
<1>2. \A k \in DescKeys : descs[k] # None => descs[k].refs <= descs[k].refs + zero[k]
  BY Unfold, DescriptorsAssumption DEF DescSlabs, Description
<1>3. \A k \in DescKeys : Cardinality(At(fds', k)) = Cardinality(At(fds, k)) - n[k] + zero[k]
  <2>1. \A k \in DescKeys : Cardinality(At(fds', k)) = Cardinality(At(fds, k)) - n[k]
    BY RemoveCounts
  <2>2. \A k \in DescKeys : Cardinality(At(fds, k)) \in Nat /\ n[k] \in Nat /\ zero[k] = 0
    BY <1>1, AtFinite
  <2> HIDE DEF n, zero
  <2> QED
    BY <2>1, <2>2
<1> HIDE DEF zero
<1> QED
  BY <1>1, <1>2, <1>3, ReleaseLoses

LEMMA OpenNewLoses ==
    ASSUME IInv, NEW p \in Tasks, NEW cloexec \in Flags, OpenNew(p, cloexec), result' = "ok"
    PROVE  \A k \in DescKeys : Surplus(k)' <= Surplus(k)
<1>1. FreeFrom(p, 0) # {}
  BY DEF OpenNew
<1>2. PICK k \in FreeDescs :
         /\ descs' = [descs EXCEPT ![k] = FileDesc]
         /\ fds' = [fds EXCEPT ![<<p, Lowest(FreeFrom(p, 0))>>] = Entry(k, cloexec)]
  BY DEF OpenNew
<1> DEFINE x == <<p, Lowest(FreeFrom(p, 0))>>
<1>3. x \in Positions /\ fds[x] = None
  BY <1>1, FreeFromPlace
<1>4. FileDesc \in Description /\ FileDesc # None /\ FileDesc.refs = 1
  BY DescriptorsAssumption, PositionsFinite DEF FileDesc, Description
<1>5. k \in DescKeys /\ descs[k] = None
  BY DEF FreeDescs
<1>6. descs' \in DescSlabs /\ Covered(fds, descs') /\ At(fds, k) = {}
  BY <1>2, <1>4, <1>5, AddDesc, Unfold
<1>7. \A l \in DescKeys : descs'[l] = IF l = k THEN FileDesc ELSE descs[l]
  BY <1>2, <1>5, Unfold DEF DescSlabs
<1>8. /\ cloexec \in BOOLEAN
      /\ \A z \in Positions : fds'[z] = IF z = x THEN Entry(k, cloexec) ELSE fds[z]
  BY <1>2, <1>3, <1>5, EntryType, Unfold, FlagsBoolean DEF Tables
<1>9. /\ Cardinality(At(fds', k)) = 1
      /\ \A l \in DescKeys : l # k => At(fds', l) = At(fds, l)
  <2>1. descs'[k] # None
    BY <1>4, <1>5, <1>7
  <2> HIDE DEF x
  <2> QED
    BY <1>3, <1>5, <1>6, <1>8, <2>1, PlaceEntry, Unfold
<1>10. ASSUME NEW l \in DescKeys
       PROVE  Surplus(l)' <= Surplus(l)
  <2>1. CASE l = k
    BY <1>4, <1>5, <1>6, <1>7, <1>9, <2>1, SurplusSmaller
  <2>2. CASE l # k
    <3>1. descs'[l] = descs[l] /\ At(fds', l) = At(fds, l)
      BY <1>7, <1>9, <2>2
    <3>2. Cardinality(At(fds, l)) \in Nat /\ (descs[l] # None => descs[l].refs \in Nat)
      BY AtFinite, Unfold, DescriptorsAssumption DEF DescSlabs, Description
    <3> QED
      BY <1>6, <3>1, <3>2, SurplusSmaller
  <2> QED
    BY <2>1, <2>2
<1> QED
  BY <1>10

LEMMA DuplicateLoses ==
    ASSUME IInv, NEW p \in Tasks, NEW f \in Fds, NEW min \in 0 .. OpenFiles,
           NEW cloexec \in Flags, Duplicate(p, f, min, cloexec), result' = "ok"
    PROVE  \A k \in DescKeys : Surplus(k)' <= Surplus(k)
<1> DEFINE y == <<p, f>>
           n == Once(fds[y].desc)
<1>1. y \in Positions /\ fds[y] # None
  BY DEF Duplicate, Open, Positions
<1>2. /\ FreeFrom(p, min) # {}
      /\ fds' = [fds EXCEPT ![<<p, Lowest(FreeFrom(p, min))>>] = Entry(fds[y].desc, cloexec)]
      /\ descs' = Acquire(descs, n)
  BY DEF Duplicate
<1>3. \A k \in DescKeys : Cardinality(At(fds', k)) = Cardinality(At(fds, k)) + n[k]
  <2> HIDE DEF y
  <2> QED
    BY <1>1, <1>2, DuplicateCounts
<1>4. n \in [DescKeys -> Nat]
  BY OnceType
<1> HIDE DEF n
<1> QED
  BY <1>2, <1>3, <1>4, AcquireLoses

LEMMA Dup3Loses ==
    ASSUME IInv, NEW p \in Tasks, NEW f \in Fds, NEW target \in 0 .. OpenFiles,
           NEW cloexec \in Flags, Dup3(p, f, target, cloexec), result' = "ok"
    PROVE  \A k \in DescKeys : Surplus(k)' <= Surplus(k)
<1> DEFINE y == <<p, f>>
           x == <<p, target>>
           m == Once(fds[y].desc)
           n == Count({x})
           taken == Acquire(descs, m)
<1>1. y \in Positions /\ fds[y] # None
  BY DEF Dup3, Open, Positions
<1>2. /\ target \in Fds
      /\ fds' = [fds EXCEPT ![x] = Entry(fds[y].desc, cloexec)]
      /\ Release(taken, n)
  BY DEF Dup3
<1>3. x \in Positions
  BY <1>2 DEF Positions
<1>4. m \in [DescKeys -> Nat] /\ n \in [DescKeys -> Nat]
  BY <1>3, OnceType, CountType
<1>5. cloexec \in BOOLEAN /\ fds \in Tables /\ fds[y].desc \in DescKeys
  BY <1>1, FlagsBoolean, OpenHasDesc, Unfold
<1>6. /\ fds' \in Tables
      /\ \A z \in Positions :
            fds'[z] = IF z = x THEN Entry(fds[y].desc, cloexec) ELSE fds[z]
  BY <1>2, <1>3, <1>5, EntryType DEF Tables
<1>7. \A k \in DescKeys :
         /\ Cardinality(At(fds', k)) = Cardinality(At(fds, k)) - Points(fds[x], k) + m[k]
         /\ Points(fds[x], k) = n[k]
  <2>1. \A k \in DescKeys : Points(fds[x], k) = n[k]
    BY <1>3, CountOne
  <2> HIDE DEF x, y, n
  <2> QED
    BY <1>1, <1>3, <1>5, <1>6, <2>1, AcquireOne
<1>8. taken \in DescSlabs
  <2> HIDE DEF m
  <2> QED
    BY <1>4, AcquireType, Unfold
<1>9. ASSUME NEW k \in DescKeys, taken[k] # None
      PROVE  descs[k] # None /\ taken[k].refs <= descs[k].refs + m[k]
  <2> HIDE DEF m
  <2>1. /\ descs[k] # None
        /\ taken[k].refs = IF descs[k].refs + m[k] > MaxRefs THEN MaxRefs
                                                           ELSE descs[k].refs + m[k]
    BY <1>4, <1>9, AcquireType, Unfold
  <2>2. descs[k].refs \in Nat /\ m[k] \in Nat /\ MaxRefs \in Nat
    BY <1>4, <2>1, Unfold, DescriptorsAssumption DEF DescSlabs, Description
  <2> HIDE DEF taken
  <2> QED
    BY <2>1, <2>2
<1>10. \A k \in DescKeys :
          Cardinality(At(fds', k)) = Cardinality(At(fds, k)) - n[k] + m[k]
  <2> HIDE DEF n, m, x
  <2> QED
    BY <1>7
<1> HIDE DEF m, n, taken
<1> QED
  BY <1>2, <1>4, <1>8, <1>9, <1>10, ReleaseLoses

LEMMA VforkLoses ==
    ASSUME IInv, NEW p \in Tasks, NEW c \in Tasks, Vfork(p, c)
    PROVE  \A k \in DescKeys : Surplus(k)' <= Surplus(k)
<1> DEFINE n == Count({p} \X Fds)
<1>1. {p} \X Fds \in SUBSET Positions
  BY DEF Positions
<1>2. n \in [DescKeys -> Nat]
  BY <1>1, CountType
<1>3. /\ fds' = [x \in Positions |-> IF x[1] = c THEN fds[<<p, x[2]>>] ELSE fds[x]]
      /\ descs' = Acquire(descs, n) /\ c \notin live
  BY DEF Vfork
<1>4. \A k \in DescKeys : Cardinality(At(fds', k)) = Cardinality(At(fds, k)) + n[k]
  BY <1>3, VforkCounts
<1> HIDE DEF n
<1> QED
  BY <1>2, <1>3, <1>4, AcquireLoses

LEMMA CloseLoses ==
    ASSUME IInv, NEW p \in Tasks, NEW f \in Fds, Close(p, f)
    PROVE  \A k \in DescKeys : Surplus(k)' <= Surplus(k)
<1>1. <<p, f>> \in Positions
  BY DEF Positions
<1>2. fds' = [x \in Positions |-> IF x \in {<<p, f>>} THEN None ELSE fds[x]]
  BY <1>1, Unfold DEF Close, Tables
<1> QED
  BY <1>1, <1>2, RemoveLoses DEF Close

LEMMA ExecLoses ==
    ASSUME IInv, NEW p \in Tasks, Exec(p)
    PROVE  \A k \in DescKeys : Surplus(k)' <= Surplus(k)
<1> DEFINE closing == {x \in {p} \X Open(p) : fds[x].cloexec}
<1>1. closing \in SUBSET Positions
  BY DEF Open, Positions
<1>2. /\ fds' = [x \in Positions |-> IF x \in closing THEN None ELSE fds[x]]
      /\ Release(descs, Count(closing))
  BY DEF Exec
<1> HIDE DEF closing
<1> QED
  BY <1>1, <1>2, RemoveLoses

LEMMA EndLoses ==
    ASSUME IInv, NEW p \in Tasks, End(p)
    PROVE  \A k \in DescKeys : Surplus(k)' <= Surplus(k)
<1>1. {p} \X Fds \in SUBSET Positions
  BY DEF Positions
<1>2. /\ fds' = [x \in Positions |-> IF x \in {p} \X Fds THEN None ELSE fds[x]]
      /\ Release(descs, Count({p} \X Fds))
  BY DEF End, Positions
<1> QED
  BY <1>1, <1>2, RemoveLoses

(* The entries change at most their close-on-exec flag. *)
LEMMA SameEntriesLose ==
    ASSUME IInv, descs' = descs, \A k \in DescKeys : At(fds', k) = At(fds, k)
    PROVE  \A k \in DescKeys : Surplus(k)' <= Surplus(k)
<1> SUFFICES ASSUME NEW k \in DescKeys
             PROVE  Surplus(k)' <= Surplus(k)
  OBVIOUS
<1>1. descs' \in DescSlabs /\ (descs[k] # None => descs[k].refs \in Nat)
  BY Unfold, DescriptorsAssumption DEF DescSlabs, Description
<1>2. Cardinality(At(fds, k)) \in Nat /\ At(fds', k) = At(fds, k)
  BY AtFinite
<1> QED
  BY <1>1, <1>2, SurplusSmaller

LEMMA SetCloexecLoses ==
    ASSUME IInv, NEW p \in Tasks, NEW f \in Fds, NEW on \in Flags, SetCloexec(p, f, on)
    PROVE  \A k \in DescKeys : Surplus(k)' <= Surplus(k)
<1> DEFINE x == <<p, f>>
<1>1. x \in Positions /\ fds[x] # None
  BY DEF SetCloexec, Open, Positions
<1>2. fds[x] \in FdEntry /\ None \notin FdEntry /\ on \in BOOLEAN
  BY <1>1, OpenHasDesc, FlagsBoolean, DescriptorsAssumption
<1>3. /\ [fds[x] EXCEPT !.cloexec = on] # None
      /\ [fds[x] EXCEPT !.cloexec = on].desc = fds[x].desc
  BY <1>2 DEF FdEntry
<1>4. fds' = [fds EXCEPT ![x] = [fds[x] EXCEPT !.cloexec = on]]
  BY <1>1, Unfold DEF SetCloexec, Tables
<1>5. \A z \in Positions : (fds'[z] # None <=> fds[z] # None) /\ fds'[z].desc = fds[z].desc
  BY <1>1, <1>3, <1>4, Unfold DEF Tables
<1>6. \A k \in DescKeys : At(fds', k) = At(fds, k)
  BY <1>5 DEF At
<1> QED
  BY <1>6, SameEntriesLose DEF SetCloexec

(* Both ends get one reference and one descriptor each. *)
LEMMA Pipe2Loses ==
    ASSUME IInv, NEW p \in Tasks, NEW cloexec \in Flags, Pipe2(p, cloexec), result' = "ok"
    PROVE  \A k \in DescKeys : Surplus(k)' <= Surplus(k)
<1> DEFINE room == FreeFrom(p, 0)
           rest == room \ {Lowest(room)}
           R(q) == EndDesc("read", q)
           W(q) == EndDesc("write", q)
<1>1. PICK q \in FreePipes, r \in FreeDescs, w \in FreeDescs :
         r # w /\ Pipe2Fds(p, cloexec, q, r, w)
  BY DEF Pipe2
<1>2. /\ room # {} /\ rest # {}
      /\ descs' = [descs EXCEPT ![r] = R(q), ![w] = W(q)]
      /\ fds' = [fds EXCEPT ![<<p, Lowest(room)>>] = Entry(r, cloexec),
                            ![<<p, Lowest(rest)>>] = Entry(w, cloexec)]
  BY <1>1 DEF Pipe2Fds
<1> DEFINE x == <<p, Lowest(room)>>
           y == <<p, Lowest(rest)>>
           t == [fds EXCEPT ![x] = Entry(r, cloexec)]
           one == [descs EXCEPT ![r] = R(q)]
<1>3. /\ r \in DescKeys /\ descs[r] = None /\ w \in DescKeys /\ descs[w] = None /\ r # w
      /\ q \in PipeKeys
  BY <1>1 DEF FreeDescs, FreePipes
<1>4. /\ R(q) \in Description /\ R(q) # None /\ R(q).refs = 1
      /\ W(q) \in Description /\ W(q) # None /\ W(q).refs = 1
  BY <1>3, DescriptorsAssumption, PositionsFinite DEF EndDesc, Description
<1>5. one \in DescSlabs /\ Covered(fds, one) /\ At(fds, r) = {} /\ one[w] = None
  <2> HIDE DEF R
  <2> QED
    BY <1>3, <1>4, AddDesc, Unfold
<1>6. descs' = [one EXCEPT ![w] = W(q)]
  BY <1>2
<1>7. descs' \in DescSlabs /\ Covered(fds, descs') /\ At(fds, w) = {}
  <2> HIDE DEF R, W, one
  <2> QED
    BY <1>3, <1>4, <1>5, <1>6, AddDesc
<1>8. \A k \in DescKeys : descs'[k] = IF k = w THEN W(q) ELSE IF k = r THEN R(q) ELSE descs[k]
  <2> HIDE DEF R, W
  <2> QED
    BY <1>2, <1>3, Unfold DEF DescSlabs
<1>9. /\ x \in Positions /\ fds[x] = None /\ y \in Positions /\ fds[y] = None
      /\ x # y
  <2>1. Lowest(rest) \in rest
    BY <1>2, FreeFromPlace
  <2> QED
    BY <1>2, <2>1, FreeFromPlace
<1>10. cloexec \in BOOLEAN /\ fds \in Tables /\ descs'[r] # None /\ descs'[w] # None
  <2> HIDE DEF R, W
  <2> QED
    BY <1>3, <1>4, <1>8, FlagsBoolean, Unfold
<1>11. /\ t \in Tables
       /\ \A z \in Positions : t[z] = IF z = x THEN Entry(r, cloexec) ELSE fds[z]
  <2> HIDE DEF x
  <2> QED
    BY <1>3, <1>9, <1>10, EntryType DEF Tables
<1>12. /\ Covered(t, descs') /\ Cardinality(At(t, r)) = 1
       /\ \A k \in DescKeys : k # r => At(t, k) = At(fds, k)
  <2> HIDE DEF x, t
  <2> QED
    BY <1>3, <1>5, <1>7, <1>9, <1>10, <1>11, PlaceEntry
<1>13. fds' = [t EXCEPT ![y] = Entry(w, cloexec)] /\ t[y] = None
  BY <1>2, <1>9, <1>11
<1>14. \A z \in Positions : fds'[z] = IF z = y THEN Entry(w, cloexec) ELSE t[z]
  <2> HIDE DEF y, t
  <2> QED
    BY <1>9, <1>11, <1>13 DEF Tables
<1>15. /\ Cardinality(At(fds', w)) = 1
       /\ \A k \in DescKeys : k # w => At(fds', k) = At(t, k)
  <2> DEFINE u == fds'
             ds == descs'
  <2>1. /\ \A z \in Positions : u[z] = IF z = y THEN Entry(w, cloexec) ELSE t[z]
        /\ ds \in DescSlabs /\ Covered(t, ds) /\ ds[w] # None
    BY <1>7, <1>10, <1>12, <1>14
  <2>2. At(t, w) = {} /\ w \in DescKeys
    BY <1>3, <1>7, <1>12
  <2>3. y \in Positions /\ t \in Tables /\ t[y] = None /\ cloexec \in BOOLEAN
    BY <1>9, <1>10, <1>11, <1>13
  <2> HIDE DEF y, t, u, ds
  <2>4. /\ Cardinality(At(u, w)) = 1
        /\ \A k \in DescKeys : k # w => At(u, k) = At(t, k)
    BY <2>1, <2>2, <2>3, PlaceEntry
  <2> QED
    BY <2>4 DEF u
<1>16. ASSUME NEW k \in DescKeys
       PROVE  Surplus(k)' <= Surplus(k)
  <2>1. CASE k = r
    <3>1. descs'[k].refs = 1 /\ Cardinality(At(fds', k)) = 1 /\ descs[k] = None
      BY <1>3, <1>4, <1>8, <1>12, <1>15, <2>1
    <3> QED
      BY <1>7, <3>1, SurplusSmaller
  <2>2. CASE k = w
    <3>1. descs'[k].refs = 1 /\ Cardinality(At(fds', k)) = 1 /\ descs[k] = None
      BY <1>3, <1>4, <1>8, <1>15, <2>2
    <3> QED
      BY <1>7, <3>1, SurplusSmaller
  <2>3. CASE k # r /\ k # w
    <3>1. descs'[k] = descs[k] /\ At(fds', k) = At(fds, k)
      BY <1>8, <1>12, <1>15, <2>3
    <3>2. Cardinality(At(fds, k)) \in Nat /\ (descs[k] # None => descs[k].refs \in Nat)
      BY AtFinite, Unfold, DescriptorsAssumption DEF DescSlabs, Description
    <3> QED
      BY <1>7, <3>1, <3>2, SurplusSmaller
  <2> QED
    BY <2>1, <2>2, <2>3
<1> QED
  BY <1>16

LEMMA NextLoses ==
    ASSUME IInv, [Next]_vars, result' = "ok"
    PROVE  \A k \in DescKeys : Surplus(k)' <= Surplus(k)
<1> DEFINE Smaller == \A k \in DescKeys : Surplus(k)' <= Surplus(k)
<1> SUFFICES Smaller
  OBVIOUS
<1> HIDE DEF Smaller
<1>1. CASE UNCHANGED vars
  <2>1. descs' = descs /\ \A k \in DescKeys : At(fds', k) = At(fds, k)
    BY <1>1 DEF vars
  <2> QED
    BY <2>1, SameEntriesLose DEF Smaller
<1>2. ASSUME NEW p \in Tasks, NEW cloexec \in Flags,
             OpenNew(p, cloexec) \/ Pipe2(p, cloexec)
      PROVE  Smaller
  BY <1>2, OpenNewLoses, Pipe2Loses DEF Smaller
<1>3. ASSUME NEW p \in Tasks, NEW f \in Fds, NEW cloexec \in Flags,
             \/ \E min \in 0 .. OpenFiles : Duplicate(p, f, min, cloexec)
             \/ \E target \in 0 .. OpenFiles : Dup3(p, f, target, cloexec)
             \/ SetCloexec(p, f, cloexec)
      PROVE  Smaller
  BY <1>3, DuplicateLoses, Dup3Loses, SetCloexecLoses DEF Smaller
<1>4. ASSUME NEW p \in Tasks, NEW f \in Fds, Close(p, f)
      PROVE  Smaller
  BY <1>4, CloseLoses DEF Smaller
<1>5. ASSUME NEW p \in Tasks, NEW c \in Tasks, Vfork(p, c)
      PROVE  Smaller
  BY <1>5, VforkLoses DEF Smaller
<1>6. ASSUME NEW p \in Tasks, Exec(p) \/ End(p)
      PROVE  Smaller
  BY <1>6, ExecLoses, EndLoses DEF Smaller
<1> QED
  BY <1>1, <1>2, <1>3, <1>4, <1>5, <1>6 DEF Next

-----------------------------------------------------------------------------
(* 5. The theorems.                                                        *)

LEMMA NextInvariant == IInv /\ [Next]_vars => IInv'
<1> SUFFICES ASSUME IInv, [Next]_vars
             PROVE  IInv'
  OBVIOUS
<1>1. CASE UNCHANGED vars
  BY <1>1 DEF vars, IInv, TypeOK, RefsCoverDescriptors, Holders, PointingIn,
              PipesCountTheirEnds
<1>2. ASSUME NEW p \in Tasks, NEW cloexec \in Flags,
             OpenNew(p, cloexec) \/ Pipe2(p, cloexec)
      PROVE  IInv'
  BY <1>2, OpenNewStep, Pipe2Step
<1>3. ASSUME NEW p \in Tasks, NEW f \in Fds, NEW cloexec \in Flags,
             \/ \E min \in 0 .. OpenFiles : Duplicate(p, f, min, cloexec)
             \/ \E target \in 0 .. OpenFiles : Dup3(p, f, target, cloexec)
             \/ SetCloexec(p, f, cloexec)
      PROVE  IInv'
  BY <1>3, DuplicateStep, Dup3Step, SetCloexecStep
<1>4. ASSUME NEW p \in Tasks, NEW f \in Fds, Close(p, f)
      PROVE  IInv'
  BY <1>4, CloseStep
<1>5. ASSUME NEW p \in Tasks, NEW c \in Tasks, Vfork(p, c)
      PROVE  IInv'
  BY <1>5, VforkStep
<1>6. ASSUME NEW p \in Tasks, Exec(p) \/ End(p)
      PROVE  IInv'
  BY <1>6, ExecStep, EndStep
<1> QED
  BY <1>1, <1>2, <1>3, <1>4, <1>5, <1>6 DEF Next

(* Tables, slabs and counts keep their types through every call, and a     *)
(* task that ended keeps no descriptors.                                   *)
THEOREM DescriptorsTypeCorrect == Spec => []TypeOK
<1>1. IInv => TypeOK
  BY DEF IInv
<1> QED
  BY <1>1, InitInvariant, NextInvariant, PTL DEF Spec

(* No descriptor outlives its description: reference counts are never      *)
(* below the number of descriptors, whichever calls are refused.           *)
THEOREM ReferencesSuffice == Spec => []RefsCoverDescriptors
<1>1. IInv => RefsCoverDescriptors
  BY DEF IInv
<1> QED
  BY <1>1, InitInvariant, NextInvariant, PTL DEF Spec

(* Every pipe end that is open is counted by its pipe, once. *)
THEOREM PipeEndsCounted == Spec => []PipesCountTheirEnds
<1>1. IInv => PipesCountTheirEnds
  BY DEF IInv
<1> QED
  BY <1>1, InitInvariant, NextInvariant, PTL DEF Spec

(* A pipe reports end of file, or a broken pipe, only once no task has a   *)
(* descriptor for the other end.                                           *)
THEOREM EndOfFileIsTrue == Spec => []NoFalseEndOfFile
<1>1. IInv => NoFalseEndOfFile
  <2> SUFFICES ASSUME IInv, NEW x \in Positions, NEW q \in PipeKeys,
                      fds[x] # None, descs[fds[x].desc] # None,
                      descs[fds[x].desc].pipe = q
               PROVE  /\ pipes[q] # None
                      /\ descs[fds[x].desc].kind = "write" => pipes[q].writers = 1
                      /\ descs[fds[x].desc].kind = "read" => pipes[q].readers = 1
    BY DEF NoFalseEndOfFile
  <2> DEFINE k == fds[x].desc
  <2>1. k \in DescKeys
    BY OpenHasDesc
  <2>2. descs[k] \in Description
    BY <2>1, Unfold DEF DescSlabs
  <2>3. descs[k].kind # "file"
    BY <2>2, DescriptorsAssumption DEF Description
  <2> QED
    BY <2>1, <2>3 DEF IInv, PipesCountTheirEnds
<1> QED
  BY <1>1, InitInvariant, NextInvariant, PTL DEF Spec

(* A description gains references that no descriptor stands for only in a  *)
(* call that was refused: open, dup, dup3, close, pipe2, vfork, exec and   *)
(* exit take and give back one reference for each descriptor that comes    *)
(* or goes.                                                                *)
THEOREM OnlyRefusalsLose == Spec => OnlyRefusalsLeak
<1> DEFINE Step == result' = "ok" => \A k \in DescKeys : Surplus(k)' <= Surplus(k)
<1>1. IInv /\ [Next]_vars => [Step]_vars
  BY NextLoses
<1> HIDE DEF Step
<1>2. Spec => []IInv
  BY InitInvariant, NextInvariant, PTL DEF Spec
<1>3. Spec => [][Step]_vars
  BY <1>1, <1>2, PTL DEF Spec
<1> QED
  BY <1>3 DEF OnlyRefusalsLeak, Step
=============================================================================
