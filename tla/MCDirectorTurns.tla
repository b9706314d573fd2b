--------------------------- MODULE MCDirectorTurns ---------------------------
(* Small instances of DirectorTurns for TLC.                                 *)
EXTENDS DirectorTurns, TLC
=============================================================================
