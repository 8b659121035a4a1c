--------------------------- MODULE MCSpoolReader ---------------------------
(***************************************************************************)
(* Records of one byte, chunks of three: a line of two bytes is too long   *)
(* but fits a chunk, one of three does not, and one of seven takes three   *)
(* reads to scan.                                                          *)
(***************************************************************************)
EXTENDS SpoolReader
=============================================================================
