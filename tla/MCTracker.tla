------------------------------ MODULE MCTracker ------------------------------
(***************************************************************************)
(* An instance of Tracker: two processes of one torrent, of which p1 has a *)
(* piece to download and p2 seeds, and may lose its requests.              *)
(***************************************************************************)
EXTENDS Tracker

CONSTANTS p1, p2

OneTorrent == [x \in Peer |-> "h1"]
OneLeecher == [x \in Peer |-> IF x = p1 THEN 1 ELSE 0]

=============================================================================
