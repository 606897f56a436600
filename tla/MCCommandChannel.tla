--------------------------- MODULE MCCommandChannel -------------------------
(* Small instances of the command channel.                                 *)
EXTENDS CommandChannel

CONSTANTS l1, e1

\* A command behind text that cannot be parsed.
texts  == <<"malformed", "command">>
noText == <<>>

always == [l \in Listeners |-> TRUE]

auth == {Answer("return", 200, "falsy"), Answer("PermissionError", 200, "none"),
         Answer("Exception", 200, "none"), NoHandler}
=============================================================================
