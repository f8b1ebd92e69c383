------------------------------ MODULE MCSendQueue ------------------------------
(***************************************************************************)
(* SendQueue for TLC.                                                      *)
(***************************************************************************)
EXTENDS SendQueue, TLC

\* No action tells one reply, connection structure, client or descriptor from
\* another.
Symmetry == Permutations(Msgs) \cup Permutations(Conns)
              \cup Permutations(Clients) \cup Permutations(Fds)
===============================================================================
