------------------------------- MODULE MCRoom -------------------------------
(***************************************************************************)
(* Room on small instances.  Connections and users are interchangeable.    *)
(***************************************************************************)
EXTENDS Room, TLC

Symmetry == Permutations(Sockets) \cup Permutations(Users)
=============================================================================
