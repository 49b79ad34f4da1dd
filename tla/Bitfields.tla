------------------------------ MODULE Bitfields ------------------------------
(***************************************************************************)
(* The bitfields of p2p/piece_manager.go and p2p/swarm.go byte by byte: one*)
(* node's copy of the bitfield of a peer, and its own pieces.  Bits are    *)
(* numbered from the low end of a byte, pieces from the high end of the    *)
(* first byte.  The two nodes may have been told different numbers of      *)
(* pieces (-n of the download command).                                    *)
(***************************************************************************)
EXTENDS Integers, Sequences

CONSTANTS
    Bits,           \* 8
    Counts          \* bound: numbers of pieces a node may be told

ASSUME BitfieldConstants ==
    /\ Bits \in Nat \ {0}
    /\ Counts \subseteq Nat

VARIABLES
    numPieces,      \* of this node
    peerPieces,     \* of the peer
    mine,           \* the pieces this node has
    known,          \* Swarm.peerBitfields has an entry for the peer,
    field,          \* and this is it
    told            \* history: the pieces the peer has said it has

bitVars == <<numPieces, peerPieces, mine, known, field, told>>

\* Bytes for n pieces.
Size(n) == (n + Bits - 1) \div Bits

ByteIndex(i) == i \div Bits
BitIndex(i) == Bits - 1 - (i % Bits)

Byte == SUBSET (0..Bits - 1)

\* Sequences begin at 1, slices at 0.
HasPiece(bf, i) == ByteIndex(i) < Len(bf) /\ BitIndex(i) \in bf[ByteIndex(i) + 1]

\* PieceManager.Bitfield.
Bitfield(n, pieces) ==
    [k \in 1..Size(n) |->
        { BitIndex(i) : i \in { j \in pieces : j < n /\ ByteIndex(j) = k - 1 } }]

\* MissingPieces, and the candidates of GetRarestMissingPieces.
MissingPieces(bf) == { i \in 0..numPieces - 1 : HasPiece(bf, i) /\ i \notin mine }

\* The bit of the piece in a byte that counts from the low end.
WithPieceLSB(bf, i) ==
    IF ByteIndex(i) < Len(bf)
    THEN [bf EXCEPT ![ByteIndex(i) + 1] = @ \cup {i % Bits}]
    ELSE bf

\* A piece past the end is ignored.
WithPiece(bf, i) ==
    IF ByteIndex(i) < Len(bf)
    THEN [bf EXCEPT ![ByteIndex(i) + 1] = @ \cup {BitIndex(i)}]
    ELSE bf

-----------------------------------------------------------------------------
BitInit ==
    /\ numPieces \in Counts
    /\ peerPieces \in Counts
    /\ mine \in SUBSET (0..numPieces - 1)
    /\ known = FALSE
    /\ field = <<>>
    /\ told = {}

\* A BITFIELD of the peer, which may hold less than its HAVEs have said: it was
\* made before them and sent after.
UpdatePeerBitfield(pieces) ==
    /\ pieces \subseteq 0..peerPieces - 1
    /\ known' = TRUE
    /\ field' = Bitfield(peerPieces, pieces)
    /\ told' = pieces
    /\ UNCHANGED <<numPieces, peerPieces, mine>>

\* A HAVE, with or without a bitfield before it.
SetPeerHasPiece(i) ==
    /\ i < peerPieces
    /\ known' = TRUE
    /\ field' = WithPiece(IF known THEN field ELSE Bitfield(numPieces, {}), i)
    /\ told' = told \cup {i}
    /\ UNCHANGED <<numPieces, peerPieces, mine>>

AddPiece(i) ==
    /\ i < numPieces /\ i \notin mine
    /\ mine' = mine \cup {i}
    /\ UNCHANGED <<numPieces, peerPieces, known, field, told>>

BitNext ==
    \/ \E pieces \in SUBSET (0..peerPieces - 1) : UpdatePeerBitfield(pieces)
    \/ \E i \in 0..peerPieces - 1 : SetPeerHasPiece(i)
    \/ \E i \in 0..numPieces - 1 : AddPiece(i)

BitSpec == BitInit /\ [][BitNext]_bitVars

-----------------------------------------------------------------------------
(* The bytes say what the peer has said: a piece is wanted of the peer     *)
(* exactly when this node knows it, lacks it and was told of it.  No bit is*)
(* lost past the end of a field, made up in its last byte, or taken for    *)
(* another piece's, even when the two nodes count pieces differently       *)
(* (Bitfield, SetPeerHasPiece and MissingPieces agree on the layout).      *)
BytesMeanPieces ==
    MissingPieces(field) = ((0..numPieces - 1) \cap told) \ mine

=============================================================================
