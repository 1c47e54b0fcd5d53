------------------------- MODULE MCEditorController -------------------------
(* Any two commands at once on a connected controller, two that connect on a *)
(* fresh one, and the threes in which the third meets a command that waits   *)
(* for something the first one does.                                         *)
EXTENDS EditorController

MCFresh == {<<a, b>> : a, b \in {"connect", "disconnect", "force", "eval"}}

MCConnected ==
    {<<a, b>> : a, b \in Kinds}
        \cup {<<"eval", "file", "disconnect">>, <<"eval", "interrupt", "file">>,
              <<"connect", "disconnect", "connect">>}
=============================================================================
