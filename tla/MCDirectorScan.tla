--------------------------- MODULE MCDirectorScan ---------------------------
(* Small instances of DirectorScan for TLC.                                  *)
EXTENDS DirectorScan, TLC
=============================================================================
