----------------------------- MODULE MCBaseImage -----------------------------
(* BaseImage with two built-in names, one board binding, a base library of *)
(* two forms, and room for one more slot than that and one or two objects. *)
EXTENDS BaseImage

MCNatives == <<"save", "boot">>
MCFfi == <<"gpio">>
MCLib == <<"led", "blink">>
MCUserNames == {"save", "led", "mine", "yours"}
=============================================================================
