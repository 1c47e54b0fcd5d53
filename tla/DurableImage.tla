---------------------------- MODULE DurableImage ----------------------------
(***************************************************************************)
(* What frothy_snapshot.c promises of the overlay image across save,       *)
(* restore, wipe and power loss, without slots, headers or checksums.      *)
(*                                                                         *)
(* image   the overlay of the running program                              *)
(* last    the image a restore brings back (None: it resets to base)       *)
(* prev    the image the other slot would bring back if last were erased   *)
(* age     the generation of last; 0 with no snapshot                      *)
(***************************************************************************)
EXTENDS Naturals

CONSTANTS Images, Base, None, GenModulus

VARIABLES image, last, prev, age

vars == <<image, last, prev, age>>

Init ==
  /\ image = Base
  /\ last = None
  /\ prev = None
  /\ age = 0

(* The program redefines overlay slots. *)
Edit ==
  /\ image' \in Images
  /\ UNCHANGED <<last, prev, age>>

(* The one step of a save that takes effect. *)
Commit ==
  /\ age < GenModulus - 1
  /\ last' = image
  /\ prev' = last
  /\ age' = age + 1
  /\ UNCHANGED image

(* Generations are exhausted: the save is kept, but not where a restore    *)
(* looks for it.                                                           *)
CommitExhausted ==
  /\ age = GenModulus - 1
  /\ prev' = image
  /\ UNCHANGED <<image, last, age>>

(* A save that has not taken effect can only spoil prev, or leave the      *)
(* image being saved there.                                                *)
Spill ==
  /\ prev' \in {None, image}
  /\ UNCHANGED <<image, last, age>>

(* One of the two erasures of a wipe.                                      *)
ErasePrev ==
  /\ prev' = None
  /\ UNCHANGED <<image, last, age>>

EraseLast ==
  /\ last' = prev
  /\ prev' = None
  /\ age' \in 0 .. GenModulus - 1
  /\ UNCHANGED image

(* A restore, or a start of the device: the last image, or base.           *)
Restore ==
  /\ image' \in {last, Base} \ {None}
  /\ UNCHANGED <<last, prev, age>>

Next ==
  \/ Edit
  \/ Commit
  \/ CommitExhausted
  \/ Spill
  \/ ErasePrev
  \/ EraseLast
  \/ Restore

Spec == Init /\ [][Next]_vars
=============================================================================
