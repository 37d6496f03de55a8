----------------------------- MODULE SlabProofs -----------------------------
(***************************************************************************)
(* For every cap: the slab's free list is exactly its empty slots, and the *)
(* slab implements the keyed store.                                        *)
(***************************************************************************)
EXTENDS Slab, SequenceTheorems, TLAPS

IInv == TypeOK /\ FreeListIsEmptySlots

(* What Vec::pop leaves behind. *)
LEMMA AllButLast ==
    ASSUME NEW s \in Seq(Nat), s # << >>
    PROVE  /\ SubSeq(s, 1, Len(s) - 1) \in Seq(Nat)
           /\ Len(SubSeq(s, 1, Len(s) - 1)) = Len(s) - 1
           /\ \A i \in 1 .. Len(s) - 1 : SubSeq(s, 1, Len(s) - 1)[i] = s[i]
<1> DEFINE m == Len(s) - 1
<1>1. m \in Nat
  OBVIOUS
<1>2. \A i \in 1 .. m : s[i] \in Nat
  BY <1>1
<1> HIDE DEF m
<1>3. /\ SubSeq(s, 1, m) \in Seq(Nat)
      /\ Len(SubSeq(s, 1, m)) = IF 1 <= m THEN m - 1 + 1 ELSE 0
  BY <1>1, <1>2, SubSeqProperties
<1>4. \A i \in 1 .. m : SubSeq(s, 1, m)[i] = s[i]
  BY <1>1, <1>2
<1>5. Len(SubSeq(s, 1, m)) = m
  BY <1>1, <1>3
<1> QED
  BY <1>3, <1>4, <1>5 DEF m

(* A key popped off the free list is an empty slot, and no longer listed.  *)
LEMMA PoppedKey ==
    ASSUME IInv, free # << >>
    PROVE  LET k == free[Len(free)]
               rest == SubSeq(free, 1, Len(free) - 1) IN
           /\ k \in Nat /\ k < Len(slots) /\ slots[k + 1] = None
           /\ rest \in Seq(Nat) /\ Len(rest) = Len(free) - 1
           /\ \A i \in 1 .. Len(rest) : rest[i] = free[i]
           /\ {rest[i] : i \in 1 .. Len(rest)} = EmptySlots \ {k}
<1> DEFINE n == Len(free)
           k == free[n]
           rest == SubSeq(free, 1, n - 1)
<1>1. free \in Seq(Nat) /\ slots \in Seq(Value \cup {None})
  BY DEF IInv, TypeOK
<1>2. n \in Nat /\ n >= 1
  BY <1>1, EmptySeq, LenProperties
<1>3. k \in Nat /\ k \in FreeKeySet
  BY <1>1, <1>2, ElementOfSeq DEF FreeKeySet
<1>4. k < Len(slots) /\ slots[k + 1] = None
  BY <1>3 DEF IInv, FreeListIsEmptySlots, EmptySlots
<1>5. /\ rest \in Seq(Nat) /\ Len(rest) = n - 1
      /\ \A i \in 1 .. n - 1 : rest[i] = free[i]
  BY <1>1, AllButLast
<1>6. {rest[i] : i \in 1 .. Len(rest)} = FreeKeySet \ {k}
  <2>1. \A i \in 1 .. n - 1 : rest[i] \in FreeKeySet /\ rest[i] # k
    <3> SUFFICES ASSUME NEW i \in 1 .. n - 1
                 PROVE  rest[i] \in FreeKeySet /\ rest[i] # k
      OBVIOUS
    <3>1. i \in 1 .. n /\ n \in 1 .. n /\ i # n
      BY <1>2
    <3> QED
      BY <3>1, <1>5 DEF IInv, FreeListIsEmptySlots, FreeKeySet
  <2>2. \A x \in FreeKeySet \ {k} : \E i \in 1 .. n - 1 : x = rest[i]
    <3> SUFFICES ASSUME NEW x \in FreeKeySet, x # k
                 PROVE  \E i \in 1 .. n - 1 : x = rest[i]
      OBVIOUS
    <3>1. PICK i \in 1 .. n : x = free[i]
      BY DEF FreeKeySet
    <3>2. i \in 1 .. n - 1
      BY <3>1, <1>2
    <3> QED
      BY <3>1, <3>2, <1>5
  <2> QED
    BY <2>1, <2>2, <1>5
<1> QED
  BY <1>3, <1>4, <1>5, <1>6 DEF IInv, FreeListIsEmptySlots

LEMMA InitInv == Init => IInv
  BY SlabAssumption
     DEF Init, IInv, TypeOK, FreeListIsEmptySlots, FreeKeySet, EmptySlots, Limit

LEMMA InsertReusedInv ==
    ASSUME IInv, NEW v \in Value, InsertReused(v)
    PROVE  IInv'
<1> DEFINE k == free[Len(free)]
<1>1. /\ free # << >>
      /\ k \in Nat /\ k < Len(slots) /\ slots[k + 1] = None
      /\ free' \in Seq(Nat) /\ Len(free') = Len(free) - 1
      /\ \A i \in 1 .. Len(free') : free'[i] = free[i]
      /\ {free'[i] : i \in 1 .. Len(free')} = EmptySlots \ {k}
  BY PoppedKey DEF InsertReused
<1>2. slots' = [slots EXCEPT ![k + 1] = v]
  BY <1>1 DEF InsertReused
<1>3. slots \in Seq(Value \cup {None}) /\ free \in Seq(Nat) /\ Len(slots) <= Limit
  BY DEF IInv, TypeOK
<1>4. slots' \in Seq(Value \cup {None}) /\ Len(slots') = Len(slots)
  BY <1>1, <1>2, <1>3, ExceptSeq
<1>5. \A j \in 0 .. Len(slots) - 1 :
         slots'[j + 1] = IF j = k THEN v ELSE slots[j + 1]
  BY <1>1, <1>2, <1>3
<1>6. EmptySlots' = EmptySlots \ {k}
  BY <1>1, <1>4, <1>5, SlabAssumption DEF EmptySlots
<1>7. \A i, j \in 1 .. Len(free') : free'[i] = free'[j] => i = j
  <2> SUFFICES ASSUME NEW i \in 1 .. Len(free'), NEW j \in 1 .. Len(free'),
                      free'[i] = free'[j]
               PROVE  i = j
    OBVIOUS
  <2>0. Len(free) \in Nat /\ Len(free') = Len(free) - 1
    BY <1>1, <1>3
  <2>1. i \in 1 .. Len(free) /\ j \in 1 .. Len(free)
    BY <2>0
  <2>2. free[i] = free[j]
    BY <1>1
  <2> QED
    BY <2>1, <2>2 DEF IInv, FreeListIsEmptySlots
<1> QED
  BY <1>1, <1>3, <1>4, <1>6, <1>7
     DEF IInv, TypeOK, FreeListIsEmptySlots, FreeKeySet, Limit

LEMMA InsertGrownInv ==
    ASSUME IInv, NEW v \in Value, InsertGrown(v)
    PROVE  IInv'
<1>1. /\ free = << >> /\ free' = free /\ slots' = Append(slots, v)
      /\ Len(slots) < Limit
      /\ slots \in Seq(Value \cup {None}) /\ Limit \in Nat
  BY SlabAssumption DEF InsertGrown, IInv, TypeOK, Limit
<1>2. /\ slots' \in Seq(Value \cup {None}) /\ Len(slots') = Len(slots) + 1
      /\ \A j \in 1 .. Len(slots) : slots'[j] = slots[j]
      /\ slots'[Len(slots) + 1] = v
  BY <1>1
<1>3. EmptySlots = {}
  BY <1>1 DEF IInv, FreeListIsEmptySlots, FreeKeySet
<1>4. EmptySlots' = {}
  <2> SUFFICES ASSUME NEW j \in 0 .. Len(slots), slots'[j + 1] = None
               PROVE  FALSE
    BY <1>1, <1>2 DEF EmptySlots
  <2>1. CASE j = Len(slots)
    BY <2>1, <1>2, SlabAssumption
  <2>2. CASE j # Len(slots)
    <3>1. j \in 0 .. Len(slots) - 1 /\ j + 1 \in 1 .. Len(slots)
      BY <2>2, <1>1
    <3> QED
      BY <3>1, <1>2, <1>3 DEF EmptySlots
  <2> QED
    BY <2>1, <2>2
<1>5. TypeOK'
  BY <1>1, <1>2 DEF IInv, TypeOK, Limit
<1> QED
  BY <1>1, <1>4, <1>5 DEF IInv, FreeListIsEmptySlots, FreeKeySet

LEMMA RemoveInv ==
    ASSUME IInv, NEW k \in Asked, Remove(k)
    PROVE  IInv'
<1>0. /\ k \in Nat /\ slots \in Seq(Value \cup {None}) /\ free \in Seq(Nat)
      /\ Len(slots) <= Limit
  BY SlabAssumption DEF IInv, TypeOK
<1>1. CASE UNCHANGED <<slots, free>>
  BY <1>1 DEF IInv, TypeOK, FreeListIsEmptySlots, FreeKeySet, EmptySlots, Limit
<1>2. CASE k < Len(slots)
  <2>1. slots' = [slots EXCEPT ![k + 1] = None]
    BY <1>2, <1>0 DEF Remove
  <2>2. /\ slots' \in Seq(Value \cup {None}) /\ Len(slots') = Len(slots)
        /\ \A j \in 0 .. Len(slots) - 1 :
              slots'[j + 1] = IF j = k THEN None ELSE slots[j + 1]
    BY <2>1, <1>0, <1>2, ExceptSeq
  <2>3. EmptySlots' = EmptySlots \cup {k}
    BY <2>2, <1>0, <1>2 DEF EmptySlots
  <2>4. CASE slots[k + 1] = None
    <3>1. free' = free /\ k \in EmptySlots
      BY <2>4, <1>0, <1>2 DEF Remove, EmptySlots
    <3> QED
      BY <3>1, <2>2, <2>3, <1>0
         DEF IInv, TypeOK, FreeListIsEmptySlots, FreeKeySet, Limit
  <2>5. CASE slots[k + 1] # None
    <3>1. free' = Append(free, k) /\ k \notin FreeKeySet
      BY <2>5, <1>0, <1>2 DEF Remove, EmptySlots, IInv, FreeListIsEmptySlots
    <3>2. /\ free' \in Seq(Nat) /\ Len(free') = Len(free) + 1
          /\ \A i \in 1 .. Len(free) : free'[i] = free[i]
          /\ free'[Len(free) + 1] = k
      BY <3>1, <1>0
    <3>3. FreeKeySet' = FreeKeySet \cup {k}
      <4>1. \A i \in 1 .. Len(free) + 1 : free'[i] \in FreeKeySet \cup {k}
        <5> TAKE i \in 1 .. Len(free) + 1
        <5>1. CASE i = Len(free) + 1
          BY <5>1, <3>2
        <5>2. CASE i \in 1 .. Len(free)
          BY <5>2, <3>2 DEF FreeKeySet
        <5> QED
          BY <5>1, <5>2, <1>0
      <4>2. \A x \in FreeKeySet : \E i \in 1 .. Len(free) + 1 : x = free'[i]
        <5> TAKE x \in FreeKeySet
        <5>1. PICK i \in 1 .. Len(free) : x = free[i]
          BY DEF FreeKeySet
        <5> QED
          BY <5>1, <3>2, <1>0
      <4>3. Len(free) + 1 \in 1 .. Len(free) + 1
        BY <1>0
      <4> QED
        BY <4>1, <4>2, <4>3, <3>2 DEF FreeKeySet
    <3>4. \A i, j \in 1 .. Len(free') : free'[i] = free'[j] => i = j
      <4> SUFFICES ASSUME NEW i \in 1 .. Len(free) + 1,
                          NEW j \in 1 .. Len(free) + 1,
                          free'[i] = free'[j]
                   PROVE  i = j
        BY <3>2
      <4>1. CASE i \in 1 .. Len(free) /\ j \in 1 .. Len(free)
        BY <4>1, <3>2 DEF IInv, FreeListIsEmptySlots
      <4>2. CASE i \in 1 .. Len(free) /\ j = Len(free) + 1
        BY <4>2, <3>1, <3>2 DEF FreeKeySet
      <4>3. CASE i = Len(free) + 1 /\ j \in 1 .. Len(free)
        BY <4>3, <3>1, <3>2 DEF FreeKeySet
      <4>4. CASE i = Len(free) + 1 /\ j = Len(free) + 1
        BY <4>4
      <4> QED
        BY <4>1, <4>2, <4>3, <4>4, <1>0
    <3>5. TypeOK'
      BY <2>2, <3>2, <1>0 DEF TypeOK, Limit
    <3> QED
      BY <3>3, <3>4, <3>5, <2>3 DEF IInv, FreeListIsEmptySlots
  <2> QED
    BY <2>4, <2>5
<1> QED
  BY <1>1, <1>2 DEF Remove

LEMMA NextInv == IInv /\ [Next]_vars => IInv'
<1> SUFFICES ASSUME IInv, [Next]_vars PROVE IInv'
  OBVIOUS
<1>1. ASSUME NEW v \in Value, InsertReused(v) PROVE IInv'
  BY <1>1, InsertReusedInv
<1>2. ASSUME NEW v \in Value, InsertGrown(v) PROVE IInv'
  BY <1>2, InsertGrownInv
<1>3. CASE InsertRefused
  BY <1>3 DEF InsertRefused, IInv, TypeOK, FreeListIsEmptySlots,
              FreeKeySet, EmptySlots, Limit
<1>4. ASSUME NEW k \in Asked, Remove(k) PROVE IInv'
  BY <1>4, RemoveInv
<1>5. CASE UNCHANGED vars
  BY <1>5 DEF vars, IInv, TypeOK, FreeListIsEmptySlots,
              FreeKeySet, EmptySlots, Limit
<1> QED
  BY <1>1, <1>2, <1>3, <1>4, <1>5 DEF Next

(* In every reachable state of a slab of any cap the free list is exactly  *)
(* the empty slots, each once (slab.rs insert and remove).                 *)
THEOREM FreeListCorrect == Spec => [](TypeOK /\ FreeListIsEmptySlots)
<1>1. IInv => TypeOK /\ FreeListIsEmptySlots
  BY DEF IInv
<1> QED
  BY <1>1, InitInv, NextInv, PTL DEF Spec

(* The keyed store's view of the slots. *)
View == [k \in 0 .. Limit - 1 |-> IF k < Len(slots) THEN slots[k + 1] ELSE None]

LEMMA ViewOfEmptySlot ==
    ASSUME IInv, NEW k \in 0 .. Limit - 1
    PROVE  View[k] = None <=> k >= Len(slots) \/ k \in FreeKeySet
  BY SlabAssumption
     DEF View, IInv, TypeOK, FreeListIsEmptySlots, EmptySlots, Limit

LEMMA ViewAfterStore ==
    ASSUME NEW x \in Value \cup {None}, NEW k \in Nat, k < Len(slots),
           slots \in Seq(Value \cup {None}), Len(slots) <= Limit,
           slots' = [slots EXCEPT ![k + 1] = x]
    PROVE  View' = [View EXCEPT ![k] = x]
<1>1. /\ Len(slots') = Len(slots) /\ Len(slots) \in Nat /\ Limit \in Nat
      /\ \A j \in 0 .. Len(slots) - 1 :
            slots'[j + 1] = IF j = k THEN x ELSE slots[j + 1]
  BY ExceptSeq, SlabAssumption DEF Limit
<1>2. View' = [j \in 0 .. Limit - 1 |->
                  IF j < Len(slots) THEN slots'[j + 1] ELSE None]
  BY <1>1 DEF View, Limit
<1>3. \A j \in 0 .. Limit - 1 :
         View'[j] = IF j = k THEN x ELSE View[j]
  BY <1>1, <1>2 DEF View
<1> QED
  BY <1>2, <1>3 DEF View

(* Every step of the slab is a step of the keyed store: an insert takes a  *)
(* key that is not out, is refused only when all of them are, and a remove *)
(* gives back what was stored under the key.                               *)
LEMMA StepImplementsStore ==
    IInv /\ [Next]_vars => [Store!Next]_(Store!storeVars)
<1> SUFFICES ASSUME IInv, [Next]_vars
             PROVE  [Store!Next]_(Store!storeVars)
  OBVIOUS
<1>0. /\ slots \in Seq(Value \cup {None}) /\ Len(slots) \in Nat
      /\ Len(slots) <= Limit /\ Limit \in Nat
  BY SlabAssumption DEF IInv, TypeOK, Limit
<1>1. ASSUME NEW v \in Value, InsertReused(v) PROVE Store!Next
  <2> DEFINE k == free[Len(free)]
  <2>1. free # << >> /\ k \in Nat /\ k < Len(slots) /\ slots[k + 1] = None
    BY <1>1, PoppedKey DEF InsertReused
  <2>2. slots' = [slots EXCEPT ![k + 1] = v] /\ answer' = Answer("insert", k, v)
    BY <2>1, <1>1 DEF InsertReused
  <2>3. k \in 0 .. Limit - 1 /\ View[k] = None
    BY <2>1, <1>0 DEF View
  <2>4. View' = [View EXCEPT ![k] = v]
    BY <2>1, <2>2, <1>0, ViewAfterStore
  <2>5. Store!Insert(v)
    BY <2>2, <2>3, <2>4 DEF Store!Insert, Store!FreeKeys, Store!Keys, View, Answer
  <2> QED
    BY <2>5 DEF Store!Next
<1>2. ASSUME NEW v \in Value, InsertGrown(v) PROVE Store!Next
  <2> DEFINE k == Len(slots)
  <2>1. slots' = Append(slots, v) /\ answer' = Answer("insert", k, v) /\ k < Limit
    BY <1>2 DEF InsertGrown
  <2>2. k \in 0 .. Limit - 1 /\ View[k] = None
    BY <2>1, <1>0 DEF View
  <2>3. /\ Len(slots') = Len(slots) + 1 /\ slots'[k + 1] = v
        /\ \A j \in 0 .. Len(slots) - 1 : slots'[j + 1] = slots[j + 1]
    BY <2>1, <1>0
  <2>4. View' = [j \in 0 .. Limit - 1 |->
                    IF j < Len(slots) + 1 THEN slots'[j + 1] ELSE None]
    BY <2>3 DEF View, Limit
  <2>5. \A j \in 0 .. Limit - 1 : View'[j] = IF j = k THEN v ELSE View[j]
    BY <2>3, <2>4, <1>0 DEF View
  <2>6. View' = [View EXCEPT ![k] = v]
    BY <2>4, <2>5 DEF View
  <2>7. Store!Insert(v)
    BY <2>1, <2>2, <2>6 DEF Store!Insert, Store!FreeKeys, Store!Keys, View, Answer
  <2> QED
    BY <2>7 DEF Store!Next
<1>3. ASSUME NEW v \in Value, InsertRefused PROVE Store!Next
  <2>1. /\ FreeKeySet = {} /\ Len(slots) = Limit /\ UNCHANGED slots
        /\ answer' = Answer("insert", None, None)
    BY <1>3, <1>0 DEF InsertRefused, FreeKeySet
  <2>2. \A k \in 0 .. Limit - 1 : View[k] # None
    BY <2>1, <1>0, ViewOfEmptySlot
  <2>3. View' = View
    BY <2>1 DEF View, Limit
  <2>4. Store!Insert(v)
    BY <2>1, <2>2, <2>3
       DEF Store!Insert, Store!FreeKeys, Store!Keys, Store!Refused, View, Answer
  <2> QED
    BY <2>4 DEF Store!Next
<1>4. ASSUME NEW k \in Asked, Remove(k) PROVE Store!Next
  <2>0. k \in Nat
    BY SlabAssumption
  <2>1. CASE k < Len(slots)
    <3>1. /\ slots' = [slots EXCEPT ![k + 1] = None]
          /\ answer' = Answer("remove", k, slots[k + 1])
      BY <1>4, <2>1, <1>0, <2>0 DEF Remove
    <3>2. k \in 0 .. Limit - 1 /\ View[k] = slots[k + 1]
      BY <2>1, <2>0, <1>0 DEF View
    <3>3. View' = [View EXCEPT ![k] = None]
      BY <2>1, <2>0, <3>1, <1>0, ViewAfterStore
    <3> QED
      BY <3>1, <3>2, <3>3 DEF Store!Next, Store!Remove, Store!Keys, View, Answer
  <2>2. CASE k >= Len(slots)
    <3>1. answer' = Answer("remove", k, None) /\ UNCHANGED slots
      BY <1>4, <2>2, <2>0, <1>0 DEF Remove
    <3>2. View' = View
      BY <3>1 DEF View, Limit
    <3>3. View = [View EXCEPT ![k] = None]
      BY <2>2, <2>0, <1>0 DEF View
    <3>4. k \in 0 .. Limit - 1 => View[k] = None
      BY <2>2, <2>0, <1>0 DEF View
    <3> QED
      BY <3>1, <3>2, <3>3, <3>4
         DEF Store!Next, Store!Remove, Store!Keys, View, Answer
  <2> QED
    BY <2>1, <2>2, <2>0, <1>0
<1>5. CASE UNCHANGED vars
  BY <1>5 DEF vars, Store!storeVars, Limit
<1> QED
  BY <1>1, <1>2, <1>3, <1>4, <1>5 DEF Next

(* The slab implements the keyed store for every cap (slab.rs): no key is  *)
(* handed out while it is out, and no insert fails while a key is free.    *)
THEOREM SlabImplementsStore == Spec => ImplementsStore
<1>1. Init => Store!Init
  BY SlabAssumption DEF Init, Store!Init, Store!Keys, Limit, Answer
<1>2. IInv /\ [Next]_vars => [Store!Next]_(Store!storeVars)
  BY StepImplementsStore
<1>3. Spec => []IInv
  BY InitInv, NextInv, PTL DEF Spec
<1> QED
  BY <1>1, <1>2, <1>3, PTL DEF Spec, ImplementsStore, Store!Spec
=============================================================================
