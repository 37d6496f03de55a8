----------------------------- MODULE KeyedStore -----------------------------
(***************************************************************************)
(* What the kernel's shared object tables promise their users: a store of  *)
(* at most Capacity values, each under a key of its own.  Storing hands    *)
(* out a key nobody holds and is refused only when every key is held;      *)
(* removing gives the value back once.  Which free key is handed out is    *)
(* left open.  Module Slab is the implementation (slab.rs).                *)
(***************************************************************************)
EXTENDS Integers

CONSTANTS Value,        \* what is stored
          Nothing,      \* the absence of a value
          Capacity,     \* how many values fit
          Asked         \* the keys callers ask about

Keys == 0 .. Capacity - 1

VARIABLES held,         \* the value under each key, or Nothing
          answer        \* what the last call returned

storeVars == <<held, answer>>

FreeKeys == {k \in Keys : held[k] = Nothing}

Refused == [call |-> "insert", key |-> Nothing, value |-> Nothing]

Init ==
    /\ held = [k \in Keys |-> Nothing]
    /\ answer = [call |-> "new", key |-> Nothing, value |-> Nothing]

Insert(v) ==
    \/ \E k \in FreeKeys :
          /\ held' = [held EXCEPT ![k] = v]
          /\ answer' = [call |-> "insert", key |-> k, value |-> v]
    \/ /\ FreeKeys = {}
       /\ answer' = Refused
       /\ UNCHANGED held

(* Any key may be asked for: one that is not held gives Nothing. *)
Remove(k) ==
    /\ answer' = [call |-> "remove", key |-> k,
                  value |-> IF k \in Keys THEN held[k] ELSE Nothing]
    /\ held' = IF k \in Keys THEN [held EXCEPT ![k] = Nothing] ELSE held

Next == (\E v \in Value : Insert(v)) \/ (\E k \in Asked : Remove(k))

Spec == Init /\ [][Next]_storeVars
=============================================================================
