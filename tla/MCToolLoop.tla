------------------------------ MODULE MCToolLoop ------------------------------
(* Tools and calls for TLC: a free, a gated, an injected and a gated injected *)
(* tool.                                                                      *)
EXTENDS ToolLoop

Tools == [c1 |-> "read", c2 |-> "shell", c3 |-> "skill"]
Injected == [c1 |-> "read", c2 |-> "deploy", c3 |-> "skill"]
StaticTools == {"read", "shell"}
ProvidedTools == {"skill", "deploy"}
GatedTools == {"shell", "deploy"}
Resumable == {<<>>, <<"c2">>, <<"c1", "c2">>, <<"c2", "c2">>, <<"c2", "c3">>}
Fresh == {<<>>}
===============================================================================
