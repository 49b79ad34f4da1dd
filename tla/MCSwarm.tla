------------------------------- MODULE MCSwarm -------------------------------
(***************************************************************************)
(* Model checking of Swarm.  Peers are interchangeable: no definition      *)
(* tells one from another, so the safety runs take them as symmetric.      *)
(***************************************************************************)
EXTENDS Swarm, TLC

PeerSymmetry == Permutations(Peer)

=============================================================================
