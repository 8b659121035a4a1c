------------------------- MODULE MCDaemonSupervisor -------------------------
(***************************************************************************)
(* Model-checking instances of DaemonSupervisor.  Processes that play the  *)
(* same part are interchangeable.                                          *)
(***************************************************************************)
EXTENDS DaemonSupervisor, TLC

Symmetric == Permutations(Ensures) \cup Permutations(Daemons \ Old)

=============================================================================
