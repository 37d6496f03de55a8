--------------------------- MODULE MCDescriptors ---------------------------
(* Descriptors for TLC.  Keys are interchangeable: nothing orders them.    *)
EXTENDS Descriptors, TLC

CONSTANT MaxLost        \* bound: references lost before a behaviour is cut off

KeySymmetry == Permutations(DescKeys)

(* Behaviours are followed until they have lost more than MaxLost          *)
(* references: a refusal at the limit can be repeated for ever.            *)
LostBound == \A k \in DescKeys : Surplus(k) <= MaxLost
LostOnce == Cardinality({k \in DescKeys : Surplus(k) > 0}) <= 1
=============================================================================
