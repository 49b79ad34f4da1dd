----------------------------- MODULE MCTransport -----------------------------
(***************************************************************************)
(* Instances of Transport: who dials whom.  In Cross, a and b dial each    *)
(* other; in Stray, a dials b and an address that another torrent uses now.*)
(***************************************************************************)
EXTENDS Transport

CONSTANTS a, b, other, c1, c2

\* a dials b (c1) and b dials a (c2).
CrossDialer == [c \in Conn |-> IF c = c1 THEN a ELSE b]
CrossAcceptor == [c \in Conn |-> IF c = c1 THEN b ELSE a]
OneHash == [n \in Node |-> "h"]

\* a dials b (c1) and a node of another torrent (c2).
StrayDialer == [c \in Conn |-> a]
StrayAcceptor == [c \in Conn |-> IF c = c1 THEN b ELSE other]
TwoHashes == [n \in Node |-> IF n = other THEN "h2" ELSE "h"]

=============================================================================
