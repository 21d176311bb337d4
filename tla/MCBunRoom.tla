------------------------------ MODULE MCBunRoom ------------------------------
(***************************************************************************)
(* The room on Bun on a small instance.  Connections and users are         *)
(* interchangeable.                                                        *)
(***************************************************************************)
EXTENDS BunRoom, TLC

Symmetry == Permutations(Sockets) \cup Permutations(Users)
=============================================================================
