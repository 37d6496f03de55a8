-------------------------------- MODULE Slab --------------------------------
(***************************************************************************)
(* The index-keyed store with a free list that holds every shared kernel   *)
(* object: open file descriptions and pipes (slab.rs).  Keys are indices   *)
(* into a vector of slots that never shrinks; freed indices are kept on a  *)
(* stack and reused last in, first out.                                    *)
(*                                                                         *)
(* A key is an index from 0, a slot's place in the sequence is key + 1.    *)
(***************************************************************************)
EXTENDS Integers, Sequences

CONSTANTS Value,        \* what is stored
          Cap,          \* the cap every insert of one slab passes
          KeyMax,       \* Key::MAX, 2^32 - 1 in the code
          Asked,        \* the keys callers ask to remove, u32 in the code
          None          \* an empty slot, Option::None

ASSUME SlabAssumption ==
    /\ Cap \in Nat
    /\ KeyMax \in Nat
    /\ Asked \subseteq Nat
    /\ None \notin Value

VARIABLES slots,        \* Vec<Option<T>>
          free,         \* Vec<Key>, the free list
          answer        \* what the last call returned

vars == <<slots, free, answer>>

(* The vector stops growing at whichever limit comes first. *)
Limit == IF Cap <= KeyMax THEN Cap ELSE KeyMax

Answer(call, key, value) == [call |-> call, key |-> key, value |-> value]

Init ==
    /\ slots = << >>
    /\ free = << >>
    /\ answer = Answer("new", None, None)

(* insert, when a freed key can be reused.  The key is off the free list   *)
(* before its slot is looked up, and a slot that is not there loses it.    *)
InsertReused(v) ==
    /\ free # << >>
    /\ LET k == free[Len(free)]
            inRange == k < Len(slots) IN
         /\ free' = SubSeq(free, 1, Len(free) - 1)
         /\ slots' = IF inRange THEN [slots EXCEPT ![k + 1] = v] ELSE slots
         /\ answer' = IF inRange THEN Answer("insert", k, v)
                                 ELSE Answer("insert", None, None)

(* insert, when the vector has to grow. *)
InsertGrown(v) ==
    /\ free = << >>
    /\ Len(slots) < Limit
    /\ slots' = Append(slots, v)
    /\ answer' = Answer("insert", Len(slots), v)
    /\ UNCHANGED free

(* insert, at the cap. *)
InsertRefused ==
    /\ free = << >>
    /\ Len(slots) >= Limit
    /\ answer' = Answer("insert", None, None)
    /\ UNCHANGED <<slots, free>>

(* Mutant: a key is pushed though its slot was empty already. *)
RemovePushing(k) ==
    /\ k < Len(slots)
    /\ answer' = Answer("remove", k, slots[k + 1])
    /\ slots' = [slots EXCEPT ![k + 1] = None]
    /\ free' = Append(free, k)

(* remove: a key out of range or an empty slot gives None, and only a slot *)
(* that held something goes on the free list.                              *)
Remove(k) ==
    \/ /\ k < Len(slots)
       /\ answer' = Answer("remove", k, slots[k + 1])
       /\ slots' = [slots EXCEPT ![k + 1] = None]
       /\ free' = IF slots[k + 1] # None THEN Append(free, k) ELSE free
    \/ /\ k >= Len(slots)
       /\ answer' = Answer("remove", k, None)
       /\ UNCHANGED <<slots, free>>

Next ==
    \/ \E v \in Value : InsertReused(v) \/ InsertGrown(v) \/ InsertRefused
    \/ \E k \in Asked : Remove(k)

Spec == Init /\ [][Next]_vars

-----------------------------------------------------------------------------
EmptySlots == {k \in 0 .. Len(slots) - 1 : slots[k + 1] = None}
FreeKeySet == {free[i] : i \in 1 .. Len(free)}

(* The vectors hold what their types say and the slots stay within the cap. *)
TypeOK ==
    /\ slots \in Seq(Value \cup {None})
    /\ Len(slots) <= Limit
    /\ free \in Seq(Nat)

(* The free list is exactly the empty slots, each on it once: a key pushed *)
(* twice would be handed to two owners, a key not pushed is lost for good. *)
FreeListIsEmptySlots ==
    /\ FreeKeySet = EmptySlots
    /\ \A i, j \in 1 .. Len(free) : free[i] = free[j] => i = j

(* The slab implements the keyed store: a key that is out is never handed  *)
(* out again, and an insert is refused only when every key is out.         *)
Store == INSTANCE KeyedStore
            WITH Capacity <- Limit,
                 Nothing <- None,
                 held <- [k \in 0 .. Limit - 1 |->
                             IF k < Len(slots) THEN slots[k + 1] ELSE None]

ImplementsStore == Store!Spec
=============================================================================
