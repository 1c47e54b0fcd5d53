--------------------------- MODULE MCPayloadArena ---------------------------
(* A small arena: three objects, so a free list of three entries, over nine *)
(* units: room for free and owned spans to alternate until the list is full.*)
EXTENDS PayloadArena

MCRequests == 0 .. 3
=============================================================================
