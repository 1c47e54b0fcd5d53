--------------------------- MODULE MCSnapshotStore ---------------------------
(* SnapshotStore with two overlay images besides base and generations that *)
(* wrap after a few saves.                                                 *)
EXTENDS SnapshotStore, TLC

CONSTANTS ImageA, ImageB

MCImages == {Base, ImageA, ImageB}

(* The overlay images are interchangeable; Base is not.                    *)
MCSymmetry == Permutations({ImageA, ImageB})
=============================================================================
