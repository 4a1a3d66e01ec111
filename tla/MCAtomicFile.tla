---------------------------- MODULE MCAtomicFile ----------------------------
(***************************************************************************)
(* Two commands that follow each other, one query, two contents beside the *)
(* defaults.                                                               *)
(***************************************************************************)
EXTENDS AtomicFile

CONSTANTS c1, c2, q1, v1, v2

MCCommands == {c1, c2}
MCQueries == {q1}
MCContents == {Default, v1, v2}
=============================================================================
