------------------------- MODULE TorrentServerProofs -------------------------
(***************************************************************************)
(* TorrentServer for every swarm: any nodes, pieces, links, contents and   *)
(* bounds.  The argument is one of honesty: what is in a channel, in a     *)
(* view or in a list of pending requests is a claim about a store, stores  *)
(* only grow, so a claim that was true stays true, and every handler only  *)
(* makes claims that are true.                                             *)
(***************************************************************************)
EXTENDS TorrentServer, SequenceTheorems, FiniteSetTheorems, TLAPS

-----------------------------------------------------------------------------
(* Channels. *)

(* A sequence whose elements lie in T is a sequence over T.                *)
LEMMA SeqRestrict ==
    ASSUME NEW S, NEW T, NEW q \in Seq(S), \A k \in DOMAIN q : q[k] \in T
    PROVE  q \in Seq(T)
<1>1. Len(q) \in Nat /\ DOMAIN q = 1..Len(q) /\ q = [k \in 1..Len(q) |-> q[k]]
  BY LenProperties
<1>2. q \in [1..Len(q) -> T]
  BY <1>1
<1> QED
  BY <1>1, <1>2, SeqDef

(* A prefix, cut off anywhere, is over the same messages.                  *)
LEMMA PrefixSeq ==
    ASSUME NEW S, NEW q \in Seq(S), NEW j \in Int, j <= Len(q)
    PROVE  SubSeq(q, 1, j) \in Seq(S)
<1>1. \A i \in 1..j : q[i] \in S
  BY LenProperties, ElementOfSeq
<1> QED
  BY <1>1, SubSeqProperties

LEMMA AcceptedSeq ==
    ASSUME NEW S, NEW T, NEW n \in Node, NEW p \in Node, NEW ms \in Seq(S),
           chan[n][p] \in Seq(T)
    PROVE  Accepted(n, p, ms) \in Seq(S)
<1>1. CASE p \in closed[n] \/ n \in closed[p]
  BY <1>1, EmptySeq DEF Accepted
<1>2. CASE ~(p \in closed[n] \/ n \in closed[p])
  <2> DEFINE j == IF Len(ms) <= OutboxCap - Len(chan[n][p])
                  THEN Len(ms) ELSE OutboxCap - Len(chan[n][p])
  <2>1. Len(ms) \in Nat /\ Len(chan[n][p]) \in Nat
    BY LenProperties
  <2>2. j \in Int /\ j <= Len(ms)
    BY <2>1, NetworkConstants
  <2> HIDE DEF j
  <2>3. SubSeq(ms, 1, j) \in Seq(S)
    BY <2>2, PrefixSeq
  <2> QED
    BY <1>2, <2>3 DEF Accepted, j
<1> QED
  BY <1>1, <1>2

(* An exchange leaves each channel with messages that were there and       *)
(* messages that were sent.                                                *)
LEMMA ExchangeSeq ==
    ASSUME NEW S, NEW n \in Node, NEW from \in Node \cup {NoPeer}, NEW out,
           \A a, b \in Node : chan[a][b] \in Seq(S[a][b]),
           \A b \in Node : out[b] \in Seq(S[n][b]),
           from \in Node => chan[from][n] # <<>>,
           Exchange(n, from, out)
    PROVE  /\ chan' = [a \in Node |-> [b \in Node |-> chan'[a][b]]]
           /\ \A a, b \in Node : chan'[a][b] \in Seq(S[a][b])
<1>1. ASSUME NEW a \in Node, NEW b \in Node PROVE chan'[a][b] \in Seq(S[a][b])
  <2>1. chan'[a][b] = IF a = n THEN chan[a][b] \o Accepted(a, b, out[b])
                      ELSE IF a = from /\ b = n THEN Tail(chan[a][b])
                      ELSE chan[a][b]
    BY DEF Exchange
  <2>2. CASE a = n
    <3>1. out[b] \in Seq(S[a][b]) /\ chan[a][b] \in Seq(S[a][b])
      BY <2>2
    <3>2. Accepted(a, b, out[b]) \in Seq(S[a][b])
      BY <3>1, AcceptedSeq
    <3>3. chan[a][b] \o Accepted(a, b, out[b]) \in Seq(S[a][b])
      BY <3>1, <3>2, ConcatProperties
    <3> QED
      BY <2>1, <2>2, <3>3
  <2>3. CASE a # n /\ a = from /\ b = n
    <3>1. chan[a][b] # <<>> /\ chan[a][b] \in Seq(S[a][b])
      BY <2>3
    <3>2. Tail(chan[a][b]) \in Seq(S[a][b])
      BY <3>1, HeadTailProperties
    <3> QED
      BY <2>1, <2>3, <3>2
  <2>4. CASE a # n /\ ~(a = from /\ b = n)
    BY <2>1, <2>4
  <2> QED
    BY <2>2, <2>3, <2>4
<1>2. chan' = [a \in Node |-> [b \in Node |-> chan'[a][b]]]
  <2> DEFINE f(a, b) == IF a = n THEN chan[a][b] \o Accepted(a, b, out[b])
                        ELSE IF a = from /\ b = n THEN Tail(chan[a][b])
                        ELSE chan[a][b]
  <2>1. chan' = [a \in Node |-> [b \in Node |-> f(a, b)]]
    BY DEF Exchange
  <2> HIDE DEF f
  <2> QED
    BY <2>1
<1> QED
  BY <1>1, <1>2

(* The messages are what their fields say.                                 *)
LEMMA MessageFields ==
    ASSUME NEW m \in Message
    PROVE  /\ m.type \in {"have", "request"} => m.piece \in Piece
           /\ m.type = "piece" => m.piece \in Piece /\ m.data \in Data
           /\ m.type = "bitfield" => m.pieces \in SUBSET Piece
  BY DEF Message

LEMMA Constructors ==
    /\ InterestedMsg \in Message /\ ChokeMsg \in Message /\ UnchokeMsg \in Message
    /\ \A i \in Piece : HaveMsg(i) \in Message /\ RequestMsg(i) \in Message
    /\ \A i \in Piece, d \in Data : PieceMsg(i, d) \in Message
    /\ \A bits \in SUBSET Piece : BitfieldMsg(bits) \in Message
  BY DEF Message, InterestedMsg, ChokeMsg, UnchokeMsg, HaveMsg, RequestMsg, PieceMsg, BitfieldMsg

LEMMA OneMessage == ASSUME NEW S, NEW m \in S PROVE <<m>> \in Seq(S)
  OBVIOUS

LEMMA TwoMessages == ASSUME NEW S, NEW m \in S, NEW w \in S PROVE <<m, w>> \in Seq(S)
  OBVIOUS

LEMMA RequestsSeq ==
    ASSUME NEW S, NEW ps \in Seq(Piece), \A k \in DOMAIN ps : RequestMsg(ps[k]) \in S
    PROVE  Requests(ps) \in Seq(S)
<1>1. Len(ps) \in Nat /\ DOMAIN ps = 1..Len(ps)
  BY LenProperties
<1>2. Requests(ps) \in [1..Len(ps) -> S]
  BY <1>1 DEF Requests
<1> QED
  BY <1>1, <1>2, SeqDef

(* What one peer, or several, are sent.                                    *)
LEMMA ToSeq ==
    ASSUME NEW S, NEW p \in Node, NEW ms, ms \in Seq(S[p])
    PROVE  \A b \in Node : To(p, ms)[b] \in Seq(S[b])
  BY EmptySeq DEF To

LEMMA NothingSeq ==
    ASSUME NEW S PROVE \A b \in Node : Nothing[b] \in Seq(S[b])
  BY EmptySeq DEF Nothing

LEMMA ToAllSeq ==
    ASSUME NEW S, NEW P, NEW ms, \A p \in Node : ms \in Seq(S[p])
    PROVE  \A b \in Node : ToAll(P, ms)[b] \in Seq(S[b])
  BY EmptySeq DEF ToAll

(* The list of missing pieces is a list of pieces.                         *)
LEMMA RarestMissingSeq ==
    ASSUME NEW n \in Node, NEW view, NEW bits \in SUBSET Piece,
           NEW ps \in RarestMissing(n, view, bits)
    PROVE  /\ ps \in Seq(bits)
           /\ ps \in Seq(Piece)
<1>1. Cardinality(bits \ Held(n)) \in Nat
  BY NetworkConstants, FS_Subset, FS_CardinalityType
<1>2. ps \in [1..Cardinality(bits \ Held(n)) -> bits \ Held(n)]
  BY DEF RarestMissing
<1>3. ps \in Seq(bits \ Held(n))
  BY <1>1, <1>2, SeqDef
<1> QED
  BY <1>3, SeqMonotonic

-----------------------------------------------------------------------------
(* Types. *)

WireType ==
    /\ closed \in [Node -> SUBSET Node]
    /\ chan \in [Node -> [Node -> Seq(Message)]]
    /\ lost \subseteq Node \X Node

(* An exchange of messages keeps the wire well typed.                      *)
LEMMA ExchangeType ==
    ASSUME TypeOK, NEW n \in Node, NEW from \in Node \cup {NoPeer}, NEW out,
           \A b \in Node : out[b] \in Seq(Message),
           from \in Node => chan[from][n] # <<>>,
           Exchange(n, from, out)
    PROVE  WireType'
<1> DEFINE S == [a \in Node |-> [b \in Node |-> Message]]
<1>1. \A a, b \in Node : chan[a][b] \in Seq(S[a][b])
  BY DEF TypeOK
<1>2. \A b \in Node : out[b] \in Seq(S[n][b])
  OBVIOUS
<1>3. \A a, b \in Node : S[a][b] = Message
  OBVIOUS
<1> HIDE DEF S
<1>4. /\ chan' = [a \in Node |-> [b \in Node |-> chan'[a][b]]]
      /\ \A a, b \in Node : chan'[a][b] \in Seq(S[a][b])
  BY <1>1, <1>2, ExchangeSeq
<1>5. chan' \in [Node -> [Node -> Seq(Message)]]
  <2>1. \A a, b \in Node : chan'[a][b] \in Seq(Message)
    BY <1>3, <1>4
  <2> QED
    BY <1>4, <2>1
<1>6. closed' = closed /\ lost' \subseteq Node \X Node
  BY DEF Exchange, TypeOK
<1> QED
  BY <1>5, <1>6 DEF WireType, TypeOK

(* The head of a channel is a message.                                     *)
LEMMA HeadType ==
    ASSUME TypeOK, NEW n \in Node, NEW p \in Node, chan[p][n] # <<>>
    PROVE  Head(chan[p][n]) \in Message
<1>1. chan[p][n] \in Seq(Message)
  BY DEF TypeOK
<1> QED
  BY <1>1, HeadTailProperties

LEMMA NothingType == \A b \in Node : Nothing[b] \in Seq(Message)
  BY EmptySeq DEF Nothing

LEMMA ToType ==
    ASSUME NEW p, NEW ms \in Seq(Message) PROVE \A b \in Node : To(p, ms)[b] \in Seq(Message)
  BY EmptySeq DEF To

LEMMA ToAllType ==
    ASSUME NEW P, NEW ms \in Seq(Message) PROVE \A b \in Node : ToAll(P, ms)[b] \in Seq(Message)
  BY EmptySeq DEF ToAll

LEMMA HeldType == TypeOK => \A n \in Node : Held(n) \in SUBSET Piece
  BY DEF Held

LEMMA TypeInit == Init => TypeOK
<1> SUFFICES ASSUME Init PROVE TypeOK
  OBVIOUS
<1>1. <<>> \in Seq(Piece) /\ <<>> \in Seq(Message)
  BY EmptySeq
<1>2. 0 \in 0..(OptimisticUnchokeInterval - 1)
  BY ChokeConstants
<1> QED
  BY <1>1, <1>2, NetworkConstants DEF Init, TypeOK

-----------------------------------------------------------------------------
LEMMA TypeOnPeerRegister ==
    ASSUME TypeOK, NEW n \in Node, NEW p \in Node, OnPeerRegister(n, p) PROVE TypeOK'
<1>1. Held(n) \in SUBSET Piece
  BY HeldType
<1> QED
  BY <1>1 DEF OnPeerRegister, TypeOK, fileVars, chokeVars, wireVars

LEMMA TypeOnPeerSend ==
    ASSUME TypeOK, NEW n \in Node, OnPeerSend(n) PROVE TypeOK'
<1>1. <<BitfieldMsg(joinBits[n])>> \in Seq(Message)
  BY Constructors, OneMessage DEF TypeOK
<1>2. \A b \in Node : To(joinPeer[n], <<BitfieldMsg(joinBits[n])>>)[b] \in Seq(Message)
  BY <1>1, ToType
<1>3. WireType'
  BY <1>2, ExchangeType, NetworkConstants DEF OnPeerSend
<1> QED
  BY <1>3 DEF OnPeerSend, TypeOK, WireType, fileVars, chokeVars

LEMMA TypeCloseEnd ==
    ASSUME TypeOK, NEW n \in Node, NEW p \in Node, CloseEnd(n, p) PROVE TypeOK'
<1>1. PICK j \in 0..Len(chan[n][p]), k \in 0..Len(chan[p][n]) :
        chan' = [chan EXCEPT ![n][p] = SubSeq(@, 1, j), ![p][n] = SubSeq(@, 1, k)]
  BY DEF CloseEnd
<1>2. n # p
  <2>1. PICK a, b \in Node : a # b /\ {n, p} = {a, b}
    BY NetworkConstants DEF CloseEnd
  <2>2. a \in {n, p} /\ b \in {n, p}
    BY <2>1
  <2> QED
    BY <2>1, <2>2
<1>3. chan[n][p] \in Seq(Message) /\ chan[p][n] \in Seq(Message)
  BY DEF TypeOK
<1>4. Len(chan[n][p]) \in Nat /\ Len(chan[p][n]) \in Nat
  BY <1>3, LenProperties
<1>5. SubSeq(chan[n][p], 1, j) \in Seq(Message) /\ SubSeq(chan[p][n], 1, k) \in Seq(Message)
  BY <1>3, <1>4, PrefixSeq
<1>6. chan' \in [Node -> [Node -> Seq(Message)]]
  BY <1>1, <1>2, <1>5 DEF TypeOK
<1>7. closed' \in [Node -> SUBSET Node] /\ lost' \subseteq Node \X Node
  BY DEF CloseEnd, TypeOK
<1>8. UNCHANGED <<fileVars, swarmVars, views, chokeVars, pending>>
  BY DEF CloseEnd
<1> QED
  BY <1>6, <1>7, <1>8 DEF TypeOK, fileVars, swarmVars, chokeVars

(* Every handler that takes a message from p finds one, and a handler that *)
(* sends well-typed messages keeps the wire well typed.                    *)
LEMMA TypeHandler ==
    ASSUME TypeOK, NEW n \in Node, NEW p \in Node, NEW t, Receives(n, p, t),
           NEW out, \A b \in Node : out[b] \in Seq(Message), Exchange(n, p, out)
    PROVE  WireType'
<1>1. chan[p][n] # <<>>
  BY DEF Receives
<1> QED
  BY <1>1, ExchangeType

LEMMA TypeHandleInterested ==
    ASSUME TypeOK, NEW n \in Node, NEW p \in Node, HandleInterested(n, p) PROVE TypeOK'
<1>1. WireType'
  BY NothingType, TypeHandler DEF HandleInterested
<1> QED
  BY <1>1 DEF HandleInterested, TypeOK, WireType, fileVars, swarmVars

LEMMA TypeHandleChoke ==
    ASSUME TypeOK, NEW n \in Node, NEW p \in Node, HandleChoke(n, p) PROVE TypeOK'
<1>1. WireType'
  BY NothingType, TypeHandler DEF HandleChoke
<1> QED
  BY <1>1 DEF HandleChoke, TypeOK, WireType, fileVars, swarmVars

LEMMA TypeHandleUnchoke ==
    ASSUME TypeOK, NEW n \in Node, NEW p \in Node, HandleUnchoke(n, p) PROVE TypeOK'
<1>1. pending[n][p] \in Seq(Piece)
  BY DEF TypeOK
<1>2. \A k \in DOMAIN pending[n][p] : RequestMsg(pending[n][p][k]) \in Message
  BY <1>1, LenProperties, ElementOfSeq, Constructors
<1>3. Requests(pending[n][p]) \in Seq(Message)
  BY <1>1, <1>2, RequestsSeq
<1>4. \A b \in Node : To(p, Requests(pending[n][p]))[b] \in Seq(Message)
  BY <1>3, ToType
<1>5. WireType'
  BY <1>4, TypeHandler DEF HandleUnchoke
<1>6. pending' \in [Node -> [Node -> Seq(Piece)]]
  BY EmptySeq DEF HandleUnchoke, TypeOK
<1> QED
  BY <1>5, <1>6 DEF HandleUnchoke, TypeOK, WireType, fileVars, swarmVars

LEMMA TypeHandleHave ==
    ASSUME TypeOK, NEW n \in Node, NEW p \in Node, HandleHave(n, p) PROVE TypeOK'
<1>1. WireType'
  BY NothingType, TypeHandler DEF HandleHave
<1>2. Head(chan[p][n]).piece \in Piece
  BY HeadType, MessageFields DEF HandleHave, Receives
<1>3. views' \in [Node -> [Node -> SUBSET Piece]]
  BY <1>2 DEF HandleHave, TypeOK
<1>4. UNCHANGED <<fileVars, swarmVars, chokeVars, pending>>
  BY DEF HandleHave
<1> QED
  BY <1>1, <1>3, <1>4 DEF TypeOK, WireType, fileVars, swarmVars, chokeVars

LEMMA TypeHandleBitfield ==
    ASSUME TypeOK, NEW n \in Node, NEW p \in Node, HandleBitfield(n, p) PROVE TypeOK'
<1> DEFINE bits == Head(chan[p][n]).pieces
<1>1. bits \in SUBSET Piece
  BY HeadType, MessageFields DEF HandleBitfield, Receives
<1>2. views' = [views EXCEPT ![n][p] = bits]
  BY DEF HandleBitfield
<1>3. PICK ps \in RarestMissing(n, views', bits) :
        IF ps = <<>>
        THEN Exchange(n, p, Nothing) /\ UNCHANGED pending
        ELSE /\ Exchange(n, p, To(p, <<InterestedMsg>>))
             /\ pending' = IF CanSend(n, p) THEN [pending EXCEPT ![n][p] = ps] ELSE pending
  BY DEF HandleBitfield
<1>4. ps \in Seq(Piece)
  BY <1>1, <1>3, RarestMissingSeq
<1>5. <<InterestedMsg>> \in Seq(Message)
  BY Constructors, OneMessage
<1>6. \A b \in Node : To(p, <<InterestedMsg>>)[b] \in Seq(Message)
  BY <1>5, ToType
<1>7. Receives(n, p, "bitfield")
  BY DEF HandleBitfield
<1>8. WireType'
  <2>1. CASE ps = <<>>
    BY <2>1, <1>3, <1>7, NothingType, TypeHandler
  <2>2. CASE ps # <<>>
    BY <2>2, <1>3, <1>6, <1>7, TypeHandler
  <2> QED
    BY <2>1, <2>2
<1>9. pending' \in [Node -> [Node -> Seq(Piece)]]
  <2>1. pending \in [Node -> [Node -> Seq(Piece)]]
    BY DEF TypeOK
  <2>2. CASE pending' = pending
    BY <2>1, <2>2
  <2>3. CASE pending' = [pending EXCEPT ![n][p] = ps]
    BY <1>4, <2>1, <2>3
  <2>4. pending' = pending \/ pending' = [pending EXCEPT ![n][p] = ps]
    <3>1. CASE ps = <<>>
      BY <3>1, <1>3
    <3>2. CASE ps # <<>> /\ CanSend(n, p)
      BY <3>2, <1>3
    <3>3. CASE ps # <<>> /\ ~CanSend(n, p)
      BY <3>3, <1>3
    <3> QED
      BY <3>1, <3>2, <3>3
  <2> QED
    BY <2>2, <2>3, <2>4
<1>10. views' \in [Node -> [Node -> SUBSET Piece]]
  BY <1>1, <1>2 DEF TypeOK
<1>11. UNCHANGED <<fileVars, swarmVars, chokeVars>>
  BY DEF HandleBitfield
<1> HIDE DEF bits
<1> QED
  BY <1>8, <1>9, <1>10, <1>11 DEF TypeOK, WireType, fileVars, swarmVars, chokeVars

(* Only a held piece is served.                                            *)
LEMMA TypeHandleRequest ==
    ASSUME TypeOK, NEW n \in Node, NEW p \in Node, HandleRequest(n, p) PROVE TypeOK'
<1> DEFINE i == Head(chan[p][n]).piece
           out == IF ~amChoking[n][p] /\ i \in Held(n)
                  THEN To(p, <<PieceMsg(i, store[n][i])>>) ELSE Nothing
<1>1. \A b \in Node : out[b] \in Seq(Message)
  <2>1. CASE ~amChoking[n][p] /\ i \in Held(n)
    <3>1. i \in Piece /\ store[n][i] \in Data
      BY <2>1 DEF Held, TypeOK
    <3>2. <<PieceMsg(i, store[n][i])>> \in Seq(Message)
      BY <3>1, Constructors, OneMessage
    <3> QED
      BY <2>1, <3>2, ToType
  <2>2. CASE ~(~amChoking[n][p] /\ i \in Held(n))
    BY <2>2, NothingType
  <2> QED
    BY <2>1, <2>2
<1>2. Receives(n, p, "request") /\ Exchange(n, p, out)
  BY DEF HandleRequest
<1> HIDE DEF out
<1>3. WireType'
  BY <1>1, <1>2, TypeHandler
<1> QED
  BY <1>3 DEF HandleRequest, TypeOK, WireType, fileVars, swarmVars, chokeVars

LEMMA TypeRejectPiece ==
    ASSUME TypeOK, NEW n \in Node, NEW p \in Node, RejectPiece(n, p) PROVE TypeOK'
<1>1. WireType'
  BY NothingType, TypeHandler DEF RejectPiece
<1> QED
  BY <1>1 DEF RejectPiece, TypeOK, WireType, fileVars, swarmVars, chokeVars

LEMMA TypeStorePiece ==
    ASSUME TypeOK, NEW n \in Node, NEW p \in Node, StorePiece(n, p) PROVE TypeOK'
<1>1. WireType'
  BY NothingType, TypeHandler DEF StorePiece
<1>2. Head(chan[p][n]).piece \in Piece /\ Head(chan[p][n]).data \in Data
  BY HeadType, MessageFields DEF StorePiece, Receives
<1>3. store' \in [Node -> [Piece -> Data \cup {NoData}]]
  <2> DEFINE m == Head(chan[p][n])
  <2>1. store' = [store EXCEPT ![n][m.piece] = IF @ = NoData THEN m.data ELSE @]
    BY DEF StorePiece
  <2>2. store \in [Node -> [Piece -> Data \cup {NoData}]]
    BY DEF TypeOK
  <2> QED
    BY <1>2, <2>1, <2>2
<1>4. announcing' \in [Node -> Piece \cup {NoPiece}]
  BY <1>2 DEF StorePiece, TypeOK
<1>5. UNCHANGED <<saved, swarmVars, views, chokeVars, pending>>
  BY DEF StorePiece
<1> QED
  BY <1>1, <1>3, <1>4, <1>5 DEF TypeOK, WireType, swarmVars, chokeVars

LEMMA TypeAnnounceProgress ==
    ASSUME TypeOK, NEW n \in Node, AnnounceProgress(n) PROVE TypeOK'
<1>1. announcing[n] \in Piece /\ Held(n) \in SUBSET Piece
  BY HeldType DEF AnnounceProgress, TypeOK
<1>2. <<HaveMsg(announcing[n]), BitfieldMsg(Held(n))>> \in Seq(Message)
  BY <1>1, Constructors, TwoMessages
<1>3. WireType'
  <2> DEFINE ms == <<HaveMsg(announcing[n]), BitfieldMsg(Held(n))>>
  <2>1. Exchange(n, NoPeer, ToAll(peers[n], ms))
    BY DEF AnnounceProgress
  <2>2. ms \in Seq(Message)
    BY <1>2
  <2> HIDE DEF ms
  <2>3. \A b \in Node : ToAll(peers[n], ms)[b] \in Seq(Message)
    BY <2>2, ToAllType
  <2> QED
    BY <2>1, <2>3, ExchangeType, NetworkConstants
<1> QED
  BY <1>3 DEF AnnounceProgress, TypeOK, WireType, swarmVars, chokeVars

LEMMA TypeAnnounceComplete ==
    ASSUME TypeOK, NEW n \in Node, AnnounceComplete(n) PROVE TypeOK'
<1>1. announcing[n] \in Piece
  BY DEF AnnounceComplete, TypeOK
<1>2. <<HaveMsg(announcing[n])>> \in Seq(Message)
  BY <1>1, Constructors, OneMessage
<1>3. WireType'
  BY <1>2, ToAllType, ExchangeType, NetworkConstants DEF AnnounceComplete
<1>4. saved' \subseteq Node
  BY DEF AnnounceComplete, TypeOK
<1> QED
  BY <1>3, <1>4 DEF AnnounceComplete, TypeOK, WireType, swarmVars, chokeVars

LEMMA TypeUnchokeRound ==
    ASSUME TypeOK, NEW n \in Node, NEW opt \in Node \cup {NoPeer}, UnchokeRound(n, opt)
    PROVE  TypeOK'
<1> DEFINE out == [p \in Node |->
                      IF amChoking'[n][p] = amChoking[n][p] THEN <<>>
                      ELSE IF amChoking'[n][p] THEN <<ChokeMsg>> ELSE <<UnchokeMsg>>]
<1>1. \A b \in Node : out[b] \in Seq(Message)
  <2>1. <<>> \in Seq(Message) /\ <<ChokeMsg>> \in Seq(Message) /\ <<UnchokeMsg>> \in Seq(Message)
    BY EmptySeq, Constructors, OneMessage
  <2> QED
    BY <2>1
<1>2. Exchange(n, NoPeer, out)
  BY DEF UnchokeRound
<1> HIDE DEF out
<1>3. WireType'
  BY <1>1, <1>2, ExchangeType, NetworkConstants
<1>4. PICK toUnchoke : amChoking' = [amChoking EXCEPT ![n] = [p \in Node |->
                        IF p \in peers[n] THEN p \notin toUnchoke ELSE amChoking[n][p]]]
  BY DEF UnchokeRound
<1>5. amChoking' \in [Node -> [Node -> BOOLEAN]]
  BY <1>4 DEF TypeOK
<1>6. unchokeRound' \in [Node -> 0..(OptimisticUnchokeInterval - 1)]
  <2>1. (unchokeRound[n] + 1) % OptimisticUnchokeInterval \in 0..(OptimisticUnchokeInterval - 1)
    BY ChokeConstants DEF TypeOK
  <2> QED
    BY <2>1 DEF UnchokeRound, TypeOK
<1>7. optimisticPeer' \in [Node -> Node \cup {NoPeer}]
  BY DEF UnchokeRound, TypeOK
<1> QED
  BY <1>3, <1>5, <1>6, <1>7 DEF UnchokeRound, TypeOK, WireType, fileVars, swarmVars

LEMMA TypeStep == TypeOK /\ [Next]_vars => TypeOK'
<1> SUFFICES ASSUME TypeOK, [Next]_vars PROVE TypeOK'
  OBVIOUS
<1>1. CASE UNCHANGED vars
  BY <1>1 DEF TypeOK, vars, fileVars, swarmVars, chokeVars, wireVars
<1>2. ASSUME NEW n \in Node, NEW p \in Node, Handle(n, p) PROVE TypeOK'
  BY <1>2, TypeHandleInterested, TypeHandleChoke, TypeHandleUnchoke, TypeHandleHave,
     TypeHandleBitfield, TypeHandleRequest, TypeRejectPiece, TypeStorePiece DEF Handle
<1>3. ASSUME NEW n \in Node, Announce(n) PROVE TypeOK'
  BY <1>3, TypeAnnounceProgress, TypeAnnounceComplete DEF Announce
<1>4. ASSUME NEW n \in Node, Round(n) PROVE TypeOK'
  BY <1>4, TypeUnchokeRound DEF Round
<1> QED
  BY <1>1, <1>2, <1>3, <1>4, TypeOnPeerRegister, TypeOnPeerSend, TypeCloseEnd DEF Next

(* Every variable keeps its type, and every channel holds messages only.   *)
THEOREM TypeCorrect == Spec => []TypeOK
  BY TypeInit, TypeStep, PTL DEF Spec

=============================================================================
