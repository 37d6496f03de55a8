------------------------------- MODULE MCSlab -------------------------------
(* Slab for TLC.  The keys asked for reach past the cap, so removals of    *)
(* dead and of out-of-range keys are included.                             *)
EXTENDS Slab

MCAsked == 0 .. Cap + 1
=============================================================================
