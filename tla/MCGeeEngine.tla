---------------------------- MODULE MCGeeEngine ----------------------------
(* An instance of GeeEngine for TLC.  ":f" and "*f" have the same name.  //a *)
(* is a path, and / a prefix, on which groups and router disagree; the group *)
(* /a/a has a prefix of /a/ab/ by its characters.                            *)
EXTENDS GeeEngine

MCPrefixes == {<<"a">>, <<":f">>, <<"">>}
MCSuffixes == {<<"">>, <<"*f">>}
MCPaths == {<<"", "a">>, <<"a", "ab", "">>}

MCParts == {"", "a", "ab", ":f", "*f"}
MCBegins == [s \in MCParts |-> CASE s = "" -> MCParts
                                 [] s = "a" -> {"a", "ab"}
                                 [] OTHER -> {s}]
MCNames == [w \in {":f", "*f"} |-> "f"]

=============================================================================
