--------------------------- MODULE MCTorrentServer ---------------------------
(***************************************************************************)
(* Instances of TorrentServer: a seeder s, leechers x and y, and who is    *)
(* linked to whom.  good and odd are two contents a piece may have; odd is *)
(* what a seeder that cut the same file at another piece size holds.       *)
(***************************************************************************)
EXTENDS TorrentServer

CONSTANTS s, x, y, good, odd

MCGoodData == [i \in Piece |-> good]

Holding(d) == [i \in Piece |-> d]

\* s seeds, everyone else starts with nothing.
OneSeeder == [n \in Node |-> Holding(IF n = s THEN good ELSE NoData)]

\* s seeds the file, y the same bytes cut differently.
OddSeeder == [n \in Node |-> Holding(IF n = s THEN good ELSE IF n = y THEN odd ELSE NoData)]

NoLinks == {}
OneLink == {{s, x}}
Triangle == {{s, x}, {s, y}, {x, y}}

=============================================================================
