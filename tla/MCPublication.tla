--------------------------- MODULE MCPublication ---------------------------
(* Two compilers and three versions of a suite.  Version 2 edits file 2      *)
(* under the manifest of version 1; version 3 has file 3 in place of file 2  *)
(* and another file 1.  Two faults are enough for a crash in a publication   *)
(* that recovers from a crash, and for an edit in one.                       *)
EXTENDS Publication

MCManifest == <<"A", "A", "B">>
MCOwned == [A |-> {1, 2}, B |-> {1, 3}]
MCContent == << <<"c1", "c2", "-">>, <<"c1", "d2", "-">>, <<"e1", "-", "e3">> >>
=============================================================================
