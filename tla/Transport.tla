------------------------------ MODULE Transport ------------------------------
(***************************************************************************)
(* p2p/tcp_transport.go with p2p/handshake.go and Swarm.OnPeer: how a      *)
(* connection comes up, is refused, carries messages and goes down.        *)
(*                                                                         *)
(* A connection has two ends, each with a handleConn goroutine (handshake, *)
(* OnPeer, read loop, Close on the way out), a writeLoop goroutine that    *)
(* empties the outbox into the socket, and the owner's loop that calls     *)
(* Send and takes messages off the owner's one rpc channel.  Messages of   *)
(* an end are numbered in the order Send accepted them.  A node's peer ID  *)
(* is the node itself.                                                     *)
(***************************************************************************)
EXTENDS Integers, FiniteSets, Sequences

CONSTANTS
    Node,
    Conn,           \* the dials that are made
    Dialer,         \* [Conn -> Node]
    Acceptor,       \* [Conn -> Node], a node may be given its own address
    InfoHash,       \* [Node -> info hash], an address may be reused
    NoEnd,
    OutboxCap,      \* 2048 in the code
    RpcCap,         \* 1024 in the code
    Breakable,      \* connections the network may break
    Oversized,      \* messages that are longer than MaxMessageLength
    MaxSends        \* bound: messages an end sends

ASSUME TransportConstants ==
    /\ Dialer \in [Conn -> Node]
    /\ Acceptor \in [Conn -> Node]
    /\ NoEnd \notin Conn \X {"out", "in"}
    /\ OutboxCap \in Nat \ {0}
    /\ RpcCap \in Nat \ {0}
    /\ Breakable \subseteq Conn
    /\ Oversized \subseteq Nat
    /\ MaxSends \in Nat \ {0}

End == Conn \X {"out", "in"}
Other(e) == <<e[1], IF e[2] = "out" THEN "in" ELSE "out">>
Owner(e) == IF e[2] = "out" THEN Dialer[e[1]] ELSE Acceptor[e[1]]
Remote(e) == Owner(Other(e))

VARIABLES
    stage,          \* where handleConn is
    outboxClosed,   \* TCPPeer.closed
    writer,         \* the writeLoop is running
    outbox,
    wire,           \* what an end has written and the other has not read
    broken,         \* connections the network has broken
    swarm,          \* Swarm.peers of each node
    rpc,            \* rpcch of each node
    sent,           \* history: messages Send has accepted
    got             \* history: the last message the receiving loop took

vars == <<stage, outboxClosed, writer, outbox, wire, broken, swarm, rpc, sent, got>>

Stage == {"idle", "write", "read", "register", "open", "closing", "closed"}
HS == 0     \* the handshake, written to the socket before any message

TypeOK ==
    /\ stage \in [End -> Stage]
    /\ outboxClosed \in [End -> BOOLEAN]
    /\ writer \in [End -> BOOLEAN]
    /\ outbox \in [End -> Seq(1..MaxSends)]
    /\ \A e \in End : Len(outbox[e]) <= OutboxCap
    /\ wire \in [End -> Seq(0..MaxSends)]
    /\ broken \subseteq Breakable
    /\ swarm \in [Node -> [Node -> End \cup {NoEnd}]]
    /\ rpc \in [Node -> Seq([from : End, num : 1..MaxSends])]
    /\ \A n \in Node : Len(rpc[n]) <= RpcCap
    /\ sent \in [End -> 0..MaxSends]
    /\ got \in [End -> 0..MaxSends]

Init ==
    /\ stage = [e \in End |-> "idle"]
    /\ outboxClosed = [e \in End |-> FALSE]
    /\ writer = [e \in End |-> FALSE]
    /\ outbox = [e \in End |-> <<>>]
    /\ wire = [e \in End |-> <<>>]
    /\ broken = {}
    /\ swarm = [n \in Node |-> [m \in Node |-> NoEnd]]
    /\ rpc = [n \in Node |-> <<>>]
    /\ sent = [e \in End |-> 0]
    /\ got = [e \in End |-> 0]

-----------------------------------------------------------------------------
\* The socket is shut and the writer is left waiting for the outbox.
CloseKeepsOutbox(e) ==
    /\ stage' = [stage EXCEPT ![e] = "closing"]
    /\ UNCHANGED outboxClosed

\* TCPPeer.Close: the outbox first, the socket in ShutSocket.
Close(e) ==
    /\ stage' = [stage EXCEPT ![e] = "closing"]
    /\ outboxClosed' = [outboxClosed EXCEPT ![e] = TRUE]

\* An orderly close by the other end is not taken for an error.
FailsOnlyBroken(e) == e[1] \in broken

\* A read or a write at e can fail: the network or the other end is gone.
Fails(e) == e[1] \in broken \/ stage[Other(e)] = "closed"

-----------------------------------------------------------------------------
(* handleConn. *)

\* Both sides wait for the other to speak first.
HandshakeOrderBothRead(e) == <<"read", "write">>

HandshakeOrder(e) ==
    IF e[2] = "out" THEN <<"write", "read">> ELSE <<"read", "write">>

\* The dial succeeds and both nodes start a handleConn.
Dial(c) ==
    /\ \A e \in {c} \X {"out", "in"} : stage[e] = "idle"
    /\ stage' = [e \in End |-> IF e[1] = c THEN HandshakeOrder(e)[1] ELSE stage[e]]
    /\ writer' = [e \in End |-> writer[e] \/ e[1] = c]
    /\ UNCHANGED <<outboxClosed, outbox, wire, broken, swarm, rpc, sent, got>>

\* Any node that speaks the protocol will do.
ValidHandshakeAny(e) == TRUE

\* Same torrent, and not this node itself.
ValidHandshake(e) ==
    /\ InfoHash[Owner(e)] = InfoHash[Remote(e)]
    /\ Owner(e) # Remote(e)

\* One half of the handshake is over; it is validated after the second.
HandshakeHalf(e) ==
    IF stage[e] = HandshakeOrder(e)[1]
    THEN stage' = [stage EXCEPT ![e] = HandshakeOrder(e)[2]] /\ UNCHANGED outboxClosed
    ELSE IF ValidHandshake(e)
    THEN stage' = [stage EXCEPT ![e] = "register"] /\ UNCHANGED outboxClosed
    ELSE Close(e)

WriteHandshake(e) ==
    /\ stage[e] = "write"
    /\ wire' = [wire EXCEPT ![e] = Append(@, HS)]
    /\ HandshakeHalf(e)
    /\ UNCHANGED <<writer, outbox, broken, swarm, rpc, sent, got>>

ReadHandshake(e) ==
    /\ stage[e] = "read"
    /\ wire[Other(e)] # <<>>
    /\ wire' = [wire EXCEPT ![Other(e)] = Tail(@)]
    /\ HandshakeHalf(e)
    /\ UNCHANGED <<writer, outbox, broken, swarm, rpc, sent, got>>

HandshakeFails(e) ==
    /\ stage[e] \in {"write", "read"}
    /\ Fails(e)
    /\ Close(e)
    /\ UNCHANGED <<writer, outbox, wire, broken, swarm, rpc, sent, got>>

\* A duplicate takes the place of the connection that was there.
OnPeerReplaces(e) ==
    /\ stage[e] = "register"
    /\ swarm' = [swarm EXCEPT ![Owner(e)][Remote(e)] = e]
    /\ outbox' = [outbox EXCEPT ![e] = Append(@, 1)]
    /\ sent' = [sent EXCEPT ![e] = 1]
    /\ stage' = [stage EXCEPT ![e] = "open"]
    /\ UNCHANGED <<outboxClosed, writer, wire, broken, rpc, got>>

\* Swarm.OnPeer: the first connection of a peer is registered and its first
\* message is the bitfield (the outbox is new, so that Send succeeds); any
\* other is closed.
OnPeer(e) ==
    /\ stage[e] = "register"
    /\ IF swarm[Owner(e)][Remote(e)] # NoEnd
       THEN Close(e) /\ UNCHANGED <<swarm, outbox, sent>>
       ELSE /\ swarm' = [swarm EXCEPT ![Owner(e)][Remote(e)] = e]
            /\ outbox' = [outbox EXCEPT ![e] = Append(@, 1)]
            /\ sent' = [sent EXCEPT ![e] = 1]
            /\ stage' = [stage EXCEPT ![e] = "open"]
            /\ UNCHANGED outboxClosed
    /\ UNCHANGED <<writer, wire, broken, rpc, got>>

\* A message that finds the rpc channel full is skipped.
ReadMessageSkips(e) ==
    /\ stage[e] = "open"
    /\ wire[Other(e)] # <<>>
    /\ wire' = [wire EXCEPT ![Other(e)] = Tail(@)]
    /\ rpc' = IF Len(rpc[Owner(e)]) < RpcCap
              THEN [rpc EXCEPT ![Owner(e)] =
                       Append(@, [from |-> Other(e), num |-> Head(wire[Other(e)])])]
              ELSE rpc
    /\ UNCHANGED <<stage, outboxClosed, writer, outbox, broken, swarm, sent, got>>

\* One turn of the read loop: a message goes to the rpc channel.  When it is
\* too long to be decoded, or the channel is full, the connection is closed.
ReadMessage(e) ==
    /\ stage[e] = "open"
    /\ wire[Other(e)] # <<>>
    /\ wire' = [wire EXCEPT ![Other(e)] = Tail(@)]
    /\ IF Head(wire[Other(e)]) \notin Oversized /\ Len(rpc[Owner(e)]) < RpcCap
       THEN /\ rpc' = [rpc EXCEPT ![Owner(e)] =
                          Append(@, [from |-> Other(e), num |-> Head(wire[Other(e)])])]
            /\ UNCHANGED <<stage, outboxClosed>>
       ELSE Close(e) /\ UNCHANGED rpc
    /\ UNCHANGED <<writer, outbox, broken, swarm, sent, got>>

ReadFails(e) ==
    /\ stage[e] = "open"
    /\ Fails(e)
    /\ Close(e)
    /\ UNCHANGED <<writer, outbox, wire, broken, swarm, rpc, sent, got>>

\* Close's second half; nothing more is read, and the peer stays in the swarm.
ShutSocket(e) ==
    /\ stage[e] = "closing"
    /\ stage' = [stage EXCEPT ![e] = "closed"]
    /\ UNCHANGED <<outboxClosed, writer, outbox, wire, broken, swarm, rpc, sent, got>>

-----------------------------------------------------------------------------
(* The owner's loop, the writeLoop, the network. *)

\* One message more than the outbox holds is accepted.
SendOverfull(e) ==
    /\ swarm[Owner(e)][Remote(e)] = e
    /\ sent[e] < MaxSends
    /\ ~outboxClosed[e] /\ Len(outbox[e]) <= OutboxCap
    /\ sent' = [sent EXCEPT ![e] = @ + 1]
    /\ outbox' = [outbox EXCEPT ![e] = Append(@, sent[e] + 1)]
    /\ UNCHANGED <<stage, outboxClosed, writer, wire, broken, swarm, rpc, got>>

\* Send to a registered peer returns nil.  Otherwise it returns an error and
\* nothing changes.
Send(e) ==
    /\ swarm[Owner(e)][Remote(e)] = e
    /\ sent[e] < MaxSends
    /\ ~outboxClosed[e] /\ Len(outbox[e]) < OutboxCap
    /\ sent' = [sent EXCEPT ![e] = @ + 1]
    /\ outbox' = [outbox EXCEPT ![e] = Append(@, sent[e] + 1)]
    /\ UNCHANGED <<stage, outboxClosed, writer, wire, broken, swarm, rpc, got>>

\* One turn of writeLoop.  A write to a connection that is gone may seem to
\* succeed, or fail and end the loop.
WriteMessage(e) ==
    /\ writer[e] /\ outbox[e] # <<>>
    /\ outbox' = [outbox EXCEPT ![e] = Tail(@)]
    /\ \/ /\ stage[e] # "closed" /\ ~Fails(e)
          /\ wire' = [wire EXCEPT ![e] = Append(@, Head(outbox[e]))]
          /\ UNCHANGED writer
       \/ /\ stage[e] # "closed" /\ Fails(e)
          /\ UNCHANGED <<wire, writer>>
       \/ /\ stage[e] = "closed" \/ Fails(e)
          /\ writer' = [writer EXCEPT ![e] = FALSE]
          /\ UNCHANGED wire
    /\ UNCHANGED <<stage, outboxClosed, broken, swarm, rpc, sent, got>>

\* The range over the outbox ends when it is closed and empty.
WriterEnds(e) ==
    /\ writer[e] /\ outboxClosed[e] /\ outbox[e] = <<>>
    /\ writer' = [writer EXCEPT ![e] = FALSE]
    /\ UNCHANGED <<stage, outboxClosed, outbox, wire, broken, swarm, rpc, sent, got>>

Consume(n) ==
    /\ rpc[n] # <<>>
    /\ got' = [got EXCEPT ![Head(rpc[n]).from] = Head(rpc[n]).num]
    /\ rpc' = [rpc EXCEPT ![n] = Tail(@)]
    /\ UNCHANGED <<stage, outboxClosed, writer, outbox, wire, broken, swarm, sent>>

Break(c) ==
    /\ c \in Breakable \ broken
    /\ broken' = broken \cup {c}
    /\ UNCHANGED <<stage, outboxClosed, writer, outbox, wire, swarm, rpc, sent, got>>

-----------------------------------------------------------------------------
HandleConn(e) ==
    \/ WriteHandshake(e)
    \/ ReadHandshake(e)
    \/ HandshakeFails(e)
    \/ OnPeer(e)
    \/ ReadMessage(e)
    \/ ReadFails(e)
    \/ ShutSocket(e)

WriteLoop(e) == WriteMessage(e) \/ WriterEnds(e)

Next ==
    \/ \E c \in Conn : Dial(c) \/ Break(c)
    \/ \E e \in End : HandleConn(e) \/ WriteLoop(e) \/ Send(e)
    \/ \E n \in Node : Consume(n)

Spec == Init /\ [][Next]_vars

\* Dials are made and every goroutine is scheduled.  Nothing has to be sent
\* and nothing has to break.
FairSpec ==
    /\ Spec
    /\ \A c \in Conn : WF_vars(Dial(c))
    /\ \A e \in End : WF_vars(HandleConn(e)) /\ WF_vars(WriteLoop(e))
    /\ \A n \in Node : WF_vars(Consume(n))

-----------------------------------------------------------------------------
\* The places among the first k of an rpc channel that hold messages of e.
Places(channel, e, k) == { j \in 1..k : channel[j].from = e }

(* What a node's loop receives of a connection is what the other end sent, *)
(* in order and without a gap, up to the moment the connection is lost:    *)
(* the outbox, the socket and an rpc channel shared by all connections     *)
(* never drop a message from the middle.                                   *)
NoGaps ==
    \A n \in Node : \A k \in DOMAIN rpc[n] :
        LET e == rpc[n][k].from
        IN  rpc[n][k].num = got[e] + Cardinality(Places(rpc[n], e, k))

(* A message in the rpc channel came over the connection its sender is     *)
(* registered with, so the answer, which looks the peer up by its ID, goes *)
(* back over that connection.                                              *)
RepliesReachSender ==
    \A n \in Node : \A k \in DOMAIN rpc[n] :
        LET e == Other(rpc[n][k].from) IN swarm[n][Remote(e)] = e

(* Only other nodes of the same torrent get into a swarm, whatever         *)
(* addresses the tracker handed out.                                       *)
SwarmOfOthers ==
    \A n, m \in Node : swarm[n][m] # NoEnd => n # m /\ InfoHash[n] = InfoHash[m]

(* No handshake waits for what will not come: where nothing is to be read, *)
(* the other end is about to write, or has something to read itself, or is *)
(* closing.  That it ends at all (HandshakesEnd) rests on this.            *)
HandshakesProceed ==
    \A e \in End : stage[e] = "read" /\ wire[Other(e)] = <<>> /\ e[1] \notin broken =>
        \/ stage[Other(e)] \in {"write", "closing", "closed"}
        \/ stage[Other(e)] = "read" /\ wire[e] # <<>>

Str == INSTANCE Streams
     WITH Torrent <- InfoHash, Stream <- End, None <- NoEnd, partner <- swarm,
          From <- Owner, To <- Remote, Back <- Other

(* All of it together: however connections are dialled, cut, refused as    *)
(* duplicates or closed for a full channel, a node has one connection with *)
(* another for good, and what its loop receives there is what the other    *)
(* end sent there, in order (OnPeer, Send, writeLoop, handleConn).         *)
OneStream == Str!Spec

(* No handshake hangs: each end gets as far as its read loop, or closes.   *)
HandshakesEnd ==
    \A e \in End : (stage[e] \in {"write", "read"}) ~> (stage[e] \in {"open", "closed"})

(* No end stays up alone: when one closes, the other one notices.          *)
NoHalfOpen ==
    \A e \in End : (stage[e] = "closed") ~> (stage[Other(e)] = "closed")

(* A closed connection does not leave its writeLoop goroutine behind.      *)
WritersStop == \A e \in End : (stage[e] = "closed") ~> ~writer[e]

(* Deduplication prevents redundant connections and keeps one.             *)
DedupKeepsOne ==
    <>[](\E c \in Conn : stage[<<c, "out">>] = "open" /\ stage[<<c, "in">>] = "open")

=============================================================================
