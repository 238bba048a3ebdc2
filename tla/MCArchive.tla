----------------------------- MODULE MCArchive -----------------------------
(***************************************************************************)
(* Archive for TLC: packed directories with a file beside a directory and  *)
(* two nodes in it, and perhaps a name that Unpack refuses; and every      *)
(* made-up archive of at most three entries over names that are spelt      *)
(* twice, climb, leave and come back.                                      *)
(***************************************************************************)
EXTENDS Archive

Bad == <<"bad">>

Spelled == {<<"a">>, <<"a", "b">>, <<"a", "..">>, <<"b", "..", "a">>, <<"a", "..", "..", "b">>,
            <<"..", "a">>, Bad}
Refused == {Bad}
Order == <<<<"a">>, <<"a", "b">>, <<"a", "c">>, <<"d">>, Bad>>
=============================================================================
