---------------------------- MODULE MC_Intercom ----------------------------
(***************************************************************************)
(* Two requests of the frontend, for one task and one search, and chunk    *)
(* keys for both of them.                                                  *)
(***************************************************************************)
EXTENDS Intercom

CONSTANTS c1, c2, k1, k2, k3, k4

\* The clients can be exchanged: the first one is the one that searches; if both do,
\* the one with the large response, and one response is large.
MCInit ==
    /\ Init
    /\ kind[c2] = "search" => kind[c1] = "search" /\ Response(c1) \in large

MCSpec == MCInit /\ [][Next]_vars /\ Fairness
=============================================================================
