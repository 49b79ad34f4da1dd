---------------------------- MODULE Dissemination ----------------------------
(***************************************************************************)
(* What a swarm promises about the data, with no connection, message or    *)
(* choking in sight: pieces spread by copying from a node that has them,   *)
(* a node that was given piece hashes takes a piece only if it matches,    *)
(* nothing held is ever replaced, and a node saves the file when it has    *)
(* every piece.  TorrentServer implements this.                            *)
(***************************************************************************)
CONSTANTS
    Node,           \* the nodes of one swarm
    Piece,          \* piece indexes
    Data,           \* piece contents
    NoData,         \* a piece that is missing
    GoodData,       \* [Piece -> Data], what the piece hashes stand for
    Verifying,      \* nodes whose PieceManager has piece hashes
    InitialStore    \* [Node -> [Piece -> Data or NoData]]: seeders hold a file

VARIABLES
    store,  \* PieceManager.pieces of each node
    saved   \* the nodes that have written the file

Init ==
    /\ store = InitialStore
    /\ saved = {}

Complete(n) == \A i \in Piece : store[n][i] # NoData

\* n takes piece i, which it misses, from a node that has it.
Copy(n, from, i) ==
    /\ store[n][i] = NoData
    /\ store[from][i] # NoData
    /\ n \in Verifying => store[from][i] = GoodData[i]
    /\ store' = [store EXCEPT ![n][i] = store[from][i]]
    /\ UNCHANGED saved

Save(n) ==
    /\ Complete(n)
    /\ saved' = saved \cup {n}
    /\ UNCHANGED store

Next ==
    \/ \E n, from \in Node, i \in Piece : Copy(n, from, i)
    \/ \E n \in Node : Save(n)

Spec == Init /\ [][Next]_<<store, saved>>

=============================================================================
