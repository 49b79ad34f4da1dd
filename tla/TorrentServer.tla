---------------------------- MODULE TorrentServer ----------------------------
(***************************************************************************)
(* A swarm of nodes running torrent_server (handler.go, server.go) over    *)
(* p2p/swarm.go and p2p/piece_manager.go: how pieces are announced, asked  *)
(* for, served, verified and saved, and how choking gets in the way.       *)
(*                                                                         *)
(* A node has one loop goroutine, which takes the messages of its peers    *)
(* one at a time, and a goroutine per connection, which runs OnPeer once   *)
(* when the handshake is done.  The two meet on Swarm.mu and in the        *)
(* PieceManager.  OnPeer is two steps here, with Swarm.mu held in between  *)
(* (joinPeer): the loop may still add a piece then.  handlePiece is two    *)
(* steps: the piece is stored, then announced.  The other handlers are     *)
(* one step.                                                               *)
(*                                                                         *)
(* chan[a][b] is the way from a's Send to b's loop: a's outbox, the        *)
(* socket, b's share of its rpc channel.  A connection is made once, as    *)
(* bootstrapNetwork dials once, and its two ends notice a break apart from *)
(* each other.  Download rates are left out (module Swarm has them): a     *)
(* round may rank the interested peers in any order.                       *)
(***************************************************************************)
EXTENDS ChokePolicy, Sequences

CONSTANTS
    Node,
    Piece,
    Data,
    NoData,
    GoodData,
    Verifying,
    InitialStore,
    NoPiece,
    Link,           \* the pairs {a, b} of nodes between which one dials
    Breakable,      \* the links that may break
    OutboxCap,      \* messages one direction of a connection can hold
    RoundsAhead,    \* bound: choke messages a peer may leave unread
    WriteOutcomes   \* {TRUE}, or BOOLEAN when os.WriteFile may fail

ASSUME NetworkConstants ==
    /\ IsFiniteSet(Node) /\ NoPeer \notin Node
    /\ IsFiniteSet(Piece) /\ NoPiece \notin Piece
    /\ NoData \notin Data
    /\ GoodData \in [Piece -> Data]
    /\ Verifying \subseteq Node
    /\ InitialStore \in [Node -> [Piece -> Data \cup {NoData}]]
    /\ \A n \in Verifying, i \in Piece : InitialStore[n][i] \in {GoodData[i], NoData}
    /\ \A l \in Link : \E a, b \in Node : a # b /\ l = {a, b}
    /\ Breakable \subseteq Link
    /\ OutboxCap \in Nat
    /\ RoundsAhead \in Nat
    /\ WriteOutcomes \subseteq BOOLEAN

VARIABLES
    store,          \* PieceManager.pieces
    saved,          \* nodes that have written the file
    announcing,     \* the piece handlePiece has stored and not announced
    peers,          \* Swarm.peers (and peerStates: nothing removes a peer)
    joinPeer,       \* the peer whose OnPeer holds Swarm.mu
    joinBits,       \* the bitfield that OnPeer has read
    views,          \* Swarm.peerBitfields, as sets of pieces
    amChoking,      \* PeerState.AmChoking of each peer
    peerChoking,    \* PeerState.PeerChoking
    peerInterested, \* PeerState.PeerInterested
    optimisticPeer,
    unchokeRound,
    pending,        \* TorrentServer.pendingRequests, <<>> when absent
    closed,         \* peers whose connection this end has closed
    chan,           \* messages under way
    lost            \* history: directions that have lost a message

swarmVars == <<peers, joinPeer, joinBits>>
chokeVars == <<amChoking, peerChoking, peerInterested, optimisticPeer, unchokeRound>>
fileVars  == <<store, saved, announcing>>
wireVars  == <<closed, chan, lost>>
vars == <<fileVars, swarmVars, views, chokeVars, pending, wireVars>>

-----------------------------------------------------------------------------
(* Messages. *)

InterestedMsg    == [type |-> "interested"]
ChokeMsg         == [type |-> "choke"]
UnchokeMsg       == [type |-> "unchoke"]
HaveMsg(i)       == [type |-> "have", piece |-> i]
RequestMsg(i)    == [type |-> "request", piece |-> i]
PieceMsg(i, d)   == [type |-> "piece", piece |-> i, data |-> d]
BitfieldMsg(bits) == [type |-> "bitfield", pieces |-> bits]

Message ==
    [type : {"interested", "choke", "unchoke"}]
    \cup [type : {"have", "request"}, piece : Piece]
    \cup [type : {"piece"}, piece : Piece, data : Data]
    \cup [type : {"bitfield"}, pieces : SUBSET Piece]

\* What a handler sends, to each node.
Nothing == [q \in Node |-> <<>>]
To(p, ms) == [q \in Node |-> IF q = p THEN ms ELSE <<>>]
ToAll(S, ms) == [q \in Node |-> IF q \in S THEN ms ELSE <<>>]

\* Send returns nil: the end is open and its outbox has room.
CanSend(n, p) == p \notin closed[n] /\ Len(chan[n][p]) < OutboxCap

\* What gets into the channel: no more than there is room for, and nothing
\* when either end is closed (the far end's Send still returns nil).
Accepted(n, p, ms) ==
    IF p \in closed[n] \/ n \in closed[p]
    THEN <<>>
    ELSE SubSeq(ms, 1, IF Len(ms) <= OutboxCap - Len(chan[n][p])
                       THEN Len(ms) ELSE OutboxCap - Len(chan[n][p]))

\* Node n sends out[q] to every q, after taking the head of chan[from][n].
Exchange(n, from, out) ==
    /\ chan' = [a \in Node |-> [b \in Node |->
            IF a = n THEN chan[a][b] \o Accepted(a, b, out[b])
            ELSE IF a = from /\ b = n THEN Tail(chan[a][b])
            ELSE chan[a][b]]]
    /\ lost' = lost \cup
            {<<n, q>> : q \in {x \in Node : Accepted(n, x, out[x]) # out[x]}}
    /\ UNCHANGED closed

-----------------------------------------------------------------------------
Held(n) == { i \in Piece : store[n][i] # NoData }

Complete(n) == Held(n) = Piece

Init ==
    /\ store = InitialStore
    /\ saved = {}
    /\ announcing = [n \in Node |-> NoPiece]
    /\ peers = [n \in Node |-> {}]
    /\ joinPeer = [n \in Node |-> NoPeer]
    /\ joinBits = [n \in Node |-> {}]
    /\ views = [n \in Node |-> [p \in Node |-> {}]]
    /\ amChoking = [n \in Node |-> [p \in Node |-> TRUE]]
    /\ peerChoking = [n \in Node |-> [p \in Node |-> TRUE]]
    /\ peerInterested = [n \in Node |-> [p \in Node |-> FALSE]]
    /\ optimisticPeer = [n \in Node |-> NoPeer]
    /\ unchokeRound = [n \in Node |-> 0]
    /\ pending = [n \in Node |-> [p \in Node |-> <<>>]]
    /\ closed = [n \in Node |-> {}]
    /\ chan = [n \in Node |-> [p \in Node |-> <<>>]]
    /\ lost = {}

\* OnPeer does not keep Swarm.mu until the bitfield is sent.
NeverLocked(n) == FALSE

\* Swarm.mu is held by a connection goroutine.
SwarmLocked(n) == joinPeer[n] # NoPeer

\* The loop is between two messages and can take Swarm.mu.
LoopReady(n) == announcing[n] = NoPiece /\ ~SwarmLocked(n)

-----------------------------------------------------------------------------
(* Connection goroutines: Swarm.OnPeer, and the end of a connection. *)

\* The peer is registered with NewPeerState and the bitfield is read.
OnPeerRegister(n, p) ==
    /\ {n, p} \in Link
    /\ p \notin peers[n]
    /\ joinPeer[n] = NoPeer
    /\ peers' = [peers EXCEPT ![n] = @ \cup {p}]
    /\ joinPeer' = [joinPeer EXCEPT ![n] = p]
    /\ joinBits' = [joinBits EXCEPT ![n] = Held(n)]
    /\ UNCHANGED <<fileVars, views, chokeVars, pending, wireVars>>

\* The bitfield is sent and Swarm.mu released.
OnPeerSend(n) ==
    /\ joinPeer[n] # NoPeer
    /\ Exchange(n, NoPeer, To(joinPeer[n], <<BitfieldMsg(joinBits[n])>>))
    /\ joinPeer' = [joinPeer EXCEPT ![n] = NoPeer]
    /\ joinBits' = [joinBits EXCEPT ![n] = {}]
    /\ UNCHANGED <<fileVars, peers, views, chokeVars, pending>>

\* n's end of the connection closes: the socket failed, the peer closed its
\* end, or the rpc channel was full.  A suffix of what is under way is lost;
\* the rest is in the receiver's rpc channel.  n stays registered.
CloseEnd(n, p) ==
    /\ {n, p} \in Breakable
    /\ p \in peers[n] \ closed[n]
    /\ joinPeer[n] # p
    /\ closed' = [closed EXCEPT ![n] = @ \cup {p}]
    /\ \E j \in 0..Len(chan[n][p]), k \in 0..Len(chan[p][n]) :
          chan' = [chan EXCEPT ![n][p] = SubSeq(@, 1, j), ![p][n] = SubSeq(@, 1, k)]
    /\ lost' = lost \cup {<<n, p>>, <<p, n>>}
    /\ UNCHANGED <<fileVars, swarmVars, views, chokeVars, pending>>

-----------------------------------------------------------------------------
(* The loop: one handler per message. *)

\* The read loop of a connection starts after OnPeer.
Receives(n, p, type) ==
    /\ p \in peers[n]
    /\ joinPeer[n] # p
    /\ announcing[n] = NoPiece
    /\ chan[p][n] # <<>>
    /\ Head(chan[p][n]).type = type

HandleInterested(n, p) ==
    /\ Receives(n, p, "interested")
    /\ LoopReady(n)
    /\ peerInterested' = [peerInterested EXCEPT ![n][p] = TRUE]
    /\ Exchange(n, p, Nothing)
    /\ UNCHANGED <<fileVars, swarmVars, views, amChoking, peerChoking,
                   optimisticPeer, unchokeRound, pending>>

\* CHOKE is taken for UNCHOKE.
HandleChokeInverted(n, p) ==
    /\ Receives(n, p, "choke")
    /\ LoopReady(n)
    /\ peerChoking' = [peerChoking EXCEPT ![n][p] = FALSE]
    /\ Exchange(n, p, Nothing)
    /\ UNCHANGED <<fileVars, swarmVars, views, amChoking, peerInterested,
                   optimisticPeer, unchokeRound, pending>>

HandleChoke(n, p) ==
    /\ Receives(n, p, "choke")
    /\ LoopReady(n)
    /\ peerChoking' = [peerChoking EXCEPT ![n][p] = TRUE]
    /\ Exchange(n, p, Nothing)
    /\ UNCHANGED <<fileVars, swarmVars, views, amChoking, peerInterested,
                   optimisticPeer, unchokeRound, pending>>

Requests(ps) == [k \in 1..Len(ps) |-> RequestMsg(ps[k])]

\* UNCHOKE is noted and the pending requests are dropped unsent.
HandleUnchokeForgets(n, p) ==
    /\ Receives(n, p, "unchoke")
    /\ LoopReady(n)
    /\ peerChoking' = [peerChoking EXCEPT ![n][p] = FALSE]
    /\ pending' = [pending EXCEPT ![n][p] = <<>>]
    /\ Exchange(n, p, Nothing)
    /\ UNCHANGED <<fileVars, swarmVars, views, amChoking, peerInterested,
                   optimisticPeer, unchokeRound>>

\* SetPeerChoking(false), then sendPendingRequests: the entry is deleted and
\* each of its requests is sent, a Send that fails being logged only.
HandleUnchoke(n, p) ==
    /\ Receives(n, p, "unchoke")
    /\ LoopReady(n)
    /\ peerChoking' = [peerChoking EXCEPT ![n][p] = FALSE]
    /\ pending' = [pending EXCEPT ![n][p] = <<>>]
    /\ Exchange(n, p, To(p, Requests(pending[n][p])))
    /\ UNCHANGED <<fileVars, swarmVars, views, amChoking, peerInterested,
                   optimisticPeer, unchokeRound>>

\* SetPeerHasPiece.  Nothing is asked for.
HandleHave(n, p) ==
    /\ Receives(n, p, "have")
    /\ LoopReady(n)
    /\ views' = [views EXCEPT ![n][p] = @ \cup {Head(chan[p][n]).piece}]
    /\ Exchange(n, p, Nothing)
    /\ UNCHANGED <<fileVars, swarmVars, chokeVars, pending>>

Availability(n, view, i) == Cardinality({ q \in Node : i \in view[n][q] })

\* One piece more than there is is asked for.
RarestMissingPastEnd(n, view, bits) ==
    { [k \in 1..1 |-> NoPiece] }

\* The possible results of GetRarestMissingPieces: the pieces of bits that n
\* misses, rarest first among the bitfields n knows, ties in any order.
RarestMissing(n, view, bits) ==
    LET wanted == bits \ Held(n)
    IN  { ps \in [1..Cardinality(wanted) -> wanted] :
            \A j, k \in DOMAIN ps : j < k =>
                /\ ps[j] # ps[k]
                /\ Availability(n, view, ps[j]) <= Availability(n, view, ps[k]) }

\* UpdatePeerBitfield, then, if the peer has something that is missing,
\* INTERESTED and a new list of pending requests.
HandleBitfield(n, p) ==
    /\ Receives(n, p, "bitfield")
    /\ LoopReady(n)
    /\ LET bits == Head(chan[p][n]).pieces
       IN  /\ views' = [views EXCEPT ![n][p] = bits]
           /\ \E ps \in RarestMissing(n, views', bits) :
                IF ps = <<>>
                THEN Exchange(n, p, Nothing) /\ UNCHANGED pending
                ELSE /\ Exchange(n, p, To(p, <<InterestedMsg>>))
                     /\ pending' = IF CanSend(n, p)
                                   THEN [pending EXCEPT ![n][p] = ps]
                                   ELSE pending
    /\ UNCHANGED <<fileVars, swarmVars, chokeVars>>

\* A request for a piece that is missing, or from a choked peer, is dropped.
HandleRequest(n, p) ==
    /\ Receives(n, p, "request")
    /\ LoopReady(n)
    /\ LET i == Head(chan[p][n]).piece
       IN  Exchange(n, p,
             IF ~amChoking[n][p] /\ i \in Held(n)
             THEN To(p, <<PieceMsg(i, store[n][i])>>)
             ELSE Nothing)
    /\ UNCHANGED <<fileVars, swarmVars, views, chokeVars, pending>>

\* handlePiece without VerifyPiece.
AcceptsAll(n, i, d) == TRUE

\* VerifyPiece: a node without piece hashes takes anything.
Accepts(n, i, d) == n \in Verifying => d = GoodData[i]

\* A rejected piece is announced all the same.
RejectPieceAnnounces(n, p) ==
    /\ Receives(n, p, "piece")
    /\ LET m == Head(chan[p][n])
       IN  /\ ~Accepts(n, m.piece, m.data)
           /\ announcing' = [announcing EXCEPT ![n] = m.piece]
    /\ Exchange(n, p, Nothing)
    /\ UNCHANGED <<store, saved, swarmVars, views, chokeVars, pending>>

\* VerifyPiece failed: nothing is recorded, and nothing is asked for again.
RejectPiece(n, p) ==
    /\ Receives(n, p, "piece")
    /\ LET m == Head(chan[p][n]) IN ~Accepts(n, m.piece, m.data)
    /\ Exchange(n, p, Nothing)
    /\ UNCHANGED <<fileVars, swarmVars, views, chokeVars, pending>>

\* handlePiece up to AddPiece.  A piece that is there already is an error
\* nobody looks at: the handler goes on as if the piece were new.
StorePiece(n, p) ==
    /\ Receives(n, p, "piece")
    /\ LET m == Head(chan[p][n])
       IN  /\ Accepts(n, m.piece, m.data)
           /\ store' = [store EXCEPT ![n][m.piece] = IF @ = NoData THEN m.data ELSE @]
           /\ announcing' = [announcing EXCEPT ![n] = m.piece]
    /\ Exchange(n, p, Nothing)
    /\ UNCHANGED <<saved, swarmVars, views, chokeVars, pending>>

\* handlePiece after AddPiece, pieces still missing: HAVE, then the whole
\* bitfield, to every peer.
AnnounceProgress(n) ==
    /\ announcing[n] # NoPiece
    /\ ~SwarmLocked(n)
    /\ ~Complete(n)
    /\ Exchange(n, NoPeer, ToAll(peers[n], <<HaveMsg(announcing[n]), BitfieldMsg(Held(n))>>))
    /\ announcing' = [announcing EXCEPT ![n] = NoPiece]
    /\ UNCHANGED <<store, saved, swarmVars, views, chokeVars, pending>>

\* handlePiece after AddPiece, all pieces there: HAVE only; the file is
\* written, and if that succeeds "completed" is announced to the tracker.
AnnounceComplete(n) ==
    /\ announcing[n] # NoPiece
    /\ ~SwarmLocked(n)
    /\ Complete(n)
    /\ Exchange(n, NoPeer, ToAll(peers[n], <<HaveMsg(announcing[n])>>))
    /\ announcing' = [announcing EXCEPT ![n] = NoPiece]
    /\ \E written \in WriteOutcomes : saved' = IF written THEN saved \cup {n} ELSE saved
    /\ UNCHANGED <<store, swarmVars, views, chokeVars, pending>>

\* Rounds are ten seconds apart; a peer is at most RoundsAhead of them late.
RoundsRead(n) ==
    \A p \in Node :
        Cardinality({ k \in DOMAIN chan[n][p] : chan[n][p][k].type \in {"choke", "unchoke"} })
            < RoundsAhead

\* The unchoke ticker: RunUnchokeAlgorithm and the sends of runUnchokeRound.
UnchokeRound(n, opt) ==
    /\ LoopReady(n)
    /\ RoundsRead(n)
    /\ unchokeRound' = [unchokeRound EXCEPT ![n] = (@ + 1) % OptimisticUnchokeInterval]
    /\ LET wanting == { p \in peers[n] : peerInterested[n][p] }
       IN  \E regular \in RegularUnchokes(wanting, [p \in Node |-> 0]) :
             LET toUnchoke == regular \cup ({opt} \cap peers[n])
             IN  /\ opt \in OptimisticChoices(unchokeRound'[n], optimisticPeer[n],
                                              wanting \ regular)
                 /\ optimisticPeer' = [optimisticPeer EXCEPT ![n] = opt]
                 /\ amChoking' = [amChoking EXCEPT ![n] = [p \in Node |->
                        IF p \in peers[n] THEN p \notin toUnchoke ELSE amChoking[n][p]]]
                 /\ Exchange(n, NoPeer, [p \in Node |->
                        IF amChoking'[n][p] = amChoking[n][p] THEN <<>>
                        ELSE IF amChoking'[n][p] THEN <<ChokeMsg>> ELSE <<UnchokeMsg>>])
    /\ UNCHANGED <<fileVars, swarmVars, views, peerChoking, peerInterested, pending>>

-----------------------------------------------------------------------------
Handle(n, p) ==
    \/ HandleInterested(n, p)
    \/ HandleChoke(n, p)
    \/ HandleUnchoke(n, p)
    \/ HandleHave(n, p)
    \/ HandleBitfield(n, p)
    \/ HandleRequest(n, p)
    \/ RejectPiece(n, p)
    \/ StorePiece(n, p)

Announce(n) == AnnounceProgress(n) \/ AnnounceComplete(n)

Round(n) == \E opt \in Node \cup {NoPeer} : UnchokeRound(n, opt)

Next ==
    \E n \in Node :
        \/ \E p \in Node : OnPeerRegister(n, p) \/ CloseEnd(n, p) \/ Handle(n, p)
        \/ OnPeerSend(n)
        \/ Announce(n)
        \/ Round(n)

Spec == Init /\ [][Next]_vars

\* Dialled links connect, goroutines are scheduled, the rpc channel hands out
\* messages in order and Go's select does not starve the ticker; the random
\* draw picks every candidate that is offered infinitely often.  Connections
\* need not break.
Joins(n) == OnPeerSend(n) \/ \E p \in Node : OnPeerRegister(n, p)

Draws(n, p) == UnchokeRound(n, p) /\ optimisticPeer'[n] # optimisticPeer[n]

FairSpec ==
    /\ Spec
    /\ \A n \in Node :
        /\ WF_vars(Joins(n))
        /\ WF_vars(Announce(n))
        /\ WF_vars(Round(n))
        /\ \A p \in Node : {n, p} \in Link => WF_vars(Handle(n, p)) /\ SF_vars(Draws(n, p))

-----------------------------------------------------------------------------
TypeOK ==
    /\ store \in [Node -> [Piece -> Data \cup {NoData}]]
    /\ saved \subseteq Node
    /\ announcing \in [Node -> Piece \cup {NoPiece}]
    /\ peers \in [Node -> SUBSET Node]
    /\ joinPeer \in [Node -> Node \cup {NoPeer}]
    /\ joinBits \in [Node -> SUBSET Piece]
    /\ views \in [Node -> [Node -> SUBSET Piece]]
    /\ amChoking \in [Node -> [Node -> BOOLEAN]]
    /\ peerChoking \in [Node -> [Node -> BOOLEAN]]
    /\ peerInterested \in [Node -> [Node -> BOOLEAN]]
    /\ optimisticPeer \in [Node -> Node \cup {NoPeer}]
    /\ unchokeRound \in [Node -> 0..(OptimisticUnchokeInterval - 1)]
    /\ pending \in [Node -> [Node -> Seq(Piece)]]
    /\ closed \in [Node -> SUBSET Node]
    /\ chan \in [Node -> [Node -> Seq(Message)]]
    /\ lost \subseteq Node \X Node

InFlight(a, b) == { chan[a][b][k] : k \in DOMAIN chan[a][b] }

\* What a message from a to b says is so, now and for ever.
Honest(a, b, m) ==
    /\ m.type = "have" => m.piece \in Held(a)
    /\ m.type = "bitfield" => m.pieces \subseteq Held(a)
    /\ m.type = "piece" => store[a][m.piece] = m.data
    /\ m.type = "request" => m.piece \in Held(b)

(* Availability is never overstated.  Whatever is announced, remembered,   *)
(* about to be asked for or on its way is held by its owner, with losses,  *)
(* rejected pieces and joins in the middle of handlePiece: the branch of   *)
(* handlePieceRequest for a piece that is not there is not for peers like  *)
(* these.                                                                  *)
MessagesHonest == \A a, b \in Node : \A m \in InFlight(a, b) : Honest(a, b, m)
ViewsHeld == \A a, b \in Node : views[a][b] \subseteq Held(b)
PendingHeld == \A a, b \in Node : \A k \in DOMAIN pending[a][b] : pending[a][b][k] \in Held(b)
JoinBitsHeld == \A n \in Node : joinBits[n] \subseteq Held(n)
AnnouncingHeld == \A n \in Node : announcing[n] # NoPiece => announcing[n] \in Held(n)

NoOverclaim ==
    MessagesHonest /\ ViewsHeld /\ PendingHeld /\ JoinBitsHeld /\ AnnouncingHeld

(* Nor is it understated for long: a peer that has read everything sent to *)
(* it knows every piece, whichever way its OnPeer and the storing and      *)
(* announcing of a piece were interleaved.                                 *)
NoLostAnnouncement ==
    \A a, b \in Node :
        ( /\ b \in peers[a] /\ joinPeer[a] # b /\ announcing[a] = NoPiece
          /\ \A m \in InFlight(a, b) : m.type \notin {"have", "bitfield"}
          /\ <<a, b>> \notin lost )
        => views[b][a] = Held(a)

(* Flow control: once the choke messages between two nodes are read, both  *)
(* agree on who is choked.                                                 *)
ChokeAgreement ==
    \A a, b \in Node :
        ( /\ b \in peers[a] /\ <<a, b>> \notin lost
          /\ \A m \in InFlight(a, b) : m.type \notin {"choke", "unchoke"} )
        => peerChoking[b][a] = amChoking[a][b]

(* With piece hashes it does not matter who serves the pieces, or how the  *)
(* messages interleave: what VerifyPiece lets in and ReconstructData puts  *)
(* together is the whole file of the info hash.                            *)
VerifiedFileIntact == \A n \in saved \cap Verifying : store[n] = GoodData

Leecher(n) == \E i \in Piece : InitialStore[n][i] = NoData

(* Every download finishes, and the file is on disk.                       *)
Downloads == <>(\A n \in Node : Complete(n) /\ (Leecher(n) => n \in saved))

D == INSTANCE Dissemination WITH store <- store, saved <- saved

(* The protocol only ever does what Dissemination allows: a piece a node   *)
(* holds is the one another node held when it was copied, it was verified, *)
(* it is not replaced, and only a complete file is written.                *)
Disseminates == D!Spec

=============================================================================
