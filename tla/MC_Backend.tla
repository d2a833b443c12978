----------------------------- MODULE MC_Backend -----------------------------
(***************************************************************************)
(* An instance of Backend.  The exceptions of the other processes and the  *)
(* work of the plugin meet only in the loop of the main process, so a      *)
(* behaviour has one or the other.                                         *)
(***************************************************************************)
EXTENDS Backend

MCInit == Init /\ (todo = {} \/ faults = 0)
MCSpec == MCInit /\ [][Next]_vars /\ Fairness

=============================================================================
