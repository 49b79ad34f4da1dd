------------------------- MODULE TorrentClaimsProofs -------------------------
(***************************************************************************)
(* Every claim a node makes, and every claim another remembers, is true:   *)
(* NoOverclaim is inductive.  From it follows that a piece that arrives is *)
(* the one its sender holds, hence that TorrentServer implements           *)
(* Dissemination.                                                          *)
(***************************************************************************)
EXTENDS TorrentServerProofs

HonestSet(a, b) == { m \in Message : Honest(a, b, m) }

StoreGrows ==
    \A a \in Node, i \in Piece : store[a][i] # NoData => store'[a][i] = store[a][i]

ElementsIn(q, T) == \A k \in DOMAIN q : q[k] \in T

LEMMA SeqElements == ASSUME NEW T, NEW q \in Seq(T) PROVE ElementsIn(q, T)
  BY LenProperties, ElementOfSeq DEF ElementsIn

(* Honest channels are sequences of honest messages.                       *)
LEMMA HonestChannels ==
    ASSUME TypeOK, MessagesHonest
    PROVE  \A a, b \in Node : chan[a][b] \in Seq(HonestSet(a, b))
<1> SUFFICES ASSUME NEW a \in Node, NEW b \in Node PROVE chan[a][b] \in Seq(HonestSet(a, b))
  OBVIOUS
<1>1. chan[a][b] \in Seq(Message)
  BY DEF TypeOK
<1>2. \A k \in DOMAIN chan[a][b] : chan[a][b][k] \in Message
  BY <1>1, SeqElements DEF ElementsIn
<1>3. \A k \in DOMAIN chan[a][b] : Honest(a, b, chan[a][b][k])
  BY DEF MessagesHonest, InFlight
<1>4. \A k \in DOMAIN chan[a][b] : chan[a][b][k] \in HonestSet(a, b)
  BY <1>2, <1>3 DEF HonestSet
<1> QED
  BY <1>1, <1>4, SeqRestrict

(* What was held is held.                                                  *)
LEMMA HeldGrows == ASSUME StoreGrows, NEW a \in Node PROVE Held(a) \subseteq Held(a)'
  BY DEF StoreGrows, Held

(* A true claim stays true.                                                *)
LEMMA HonestGrows ==
    ASSUME StoreGrows, NEW a \in Node, NEW b \in Node
    PROVE  HonestSet(a, b) \subseteq HonestSet(a, b)'
<1> SUFFICES ASSUME NEW m \in Message, Honest(a, b, m) PROVE Honest(a, b, m)'
  BY DEF HonestSet
<1>1. m.type = "have" => m.piece \in Held(a)'
  BY HeldGrows DEF Honest
<1>2. m.type = "bitfield" => m.pieces \subseteq Held(a)'
  BY HeldGrows DEF Honest
<1>3. m.type = "request" => m.piece \in Held(b)'
  BY HeldGrows DEF Honest
<1>4. ASSUME m.type = "piece" PROVE store'[a][m.piece] = m.data
  <2>1. m.piece \in Piece /\ m.data \in Data
    BY <1>4, MessageFields
  <2>2. store[a][m.piece] = m.data
    BY <1>4 DEF Honest
  <2> QED
    BY <2>1, <2>2, NetworkConstants DEF StoreGrows
<1> QED
  BY <1>1, <1>2, <1>3, <1>4 DEF Honest

(* Channels that hold honest messages of the next state.                   *)
LEMMA HonestNext ==
    ASSUME \A a, b \in Node : chan'[a][b] \in Seq(HonestSet(a, b)')
    PROVE  MessagesHonest'
<1> SUFFICES ASSUME NEW a \in Node, NEW b \in Node, NEW m \in InFlight(a, b)'
             PROVE  Honest(a, b, m)'
  BY DEF MessagesHonest
<1>1. PICK k \in DOMAIN chan'[a][b] : m = chan'[a][b][k]
  BY DEF InFlight
<1>2. m \in HonestSet(a, b)'
  BY <1>1, SeqElements DEF ElementsIn
<1> QED
  BY <1>2 DEF HonestSet

(* An exchange whose messages are true keeps the channels honest.          *)
LEMMA HonestExchange ==
    ASSUME TypeOK, MessagesHonest, StoreGrows,
           NEW n \in Node, NEW from \in Node \cup {NoPeer}, NEW out,
           \A b \in Node : out[b] \in Seq(HonestSet(n, b)),
           from \in Node => chan[from][n] # <<>>,
           Exchange(n, from, out)
    PROVE  MessagesHonest'
<1> DEFINE S == [a \in Node |-> [b \in Node |-> HonestSet(a, b)]]
<1>1. \A a, b \in Node : S[a][b] = HonestSet(a, b)
  OBVIOUS
<1> HIDE DEF S
<1>2. \A a, b \in Node : chan[a][b] \in Seq(S[a][b])
  BY <1>1, HonestChannels
<1>3. \A b \in Node : out[b] \in Seq(S[n][b])
  BY <1>1
<1>4. \A a, b \in Node : chan'[a][b] \in Seq(S[a][b])
  BY <1>2, <1>3, ExchangeSeq
<1>5. \A a, b \in Node : chan'[a][b] \in Seq(HonestSet(a, b)')
  BY <1>1, <1>4, HonestGrows, SeqMonotonic
<1> QED
  BY <1>5, HonestNext

LEMMA HonestStays ==
    ASSUME TypeOK, MessagesHonest, StoreGrows, UNCHANGED chan PROVE MessagesHonest'
<1>1. \A a, b \in Node : chan'[a][b] \in Seq(HonestSet(a, b))
  BY HonestChannels
<1>2. \A a, b \in Node : chan'[a][b] \in Seq(HonestSet(a, b)')
  BY <1>1, HonestGrows, SeqMonotonic
<1> QED
  BY <1>2, HonestNext

LEMMA NothingHonest == \A n, b \in Node : Nothing[b] \in Seq(HonestSet(n, b))
  BY EmptySeq DEF Nothing

LEMMA ToHonest ==
    ASSUME NEW n \in Node, NEW p \in Node, NEW ms \in Seq(HonestSet(n, p))
    PROVE  \A b \in Node : To(p, ms)[b] \in Seq(HonestSet(n, b))
  BY EmptySeq DEF To

LEMMA ToAllHonest ==
    ASSUME NEW n \in Node, NEW P, NEW ms, \A b \in Node : ms \in Seq(HonestSet(n, b))
    PROVE  \A b \in Node : ToAll(P, ms)[b] \in Seq(HonestSet(n, b))
  BY EmptySeq DEF ToAll

(* The head of a channel tells the truth.                                  *)
LEMMA HeadHonest ==
    ASSUME TypeOK, MessagesHonest, NEW n \in Node, NEW p \in Node, chan[p][n] # <<>>
    PROVE  Head(chan[p][n]) \in Message /\ Honest(p, n, Head(chan[p][n]))
<1>1. chan[p][n] \in Seq(HonestSet(p, n))
  BY HonestChannels
<1>2. Head(chan[p][n]) \in HonestSet(p, n)
  BY <1>1, HeadTailProperties
<1> QED
  BY <1>2 DEF HonestSet

-----------------------------------------------------------------------------
(* What is remembered stays true while the stores grow.                    *)

LEMMA ViewsStay == ASSUME ViewsHeld, StoreGrows, UNCHANGED views PROVE ViewsHeld'
  BY HeldGrows DEF ViewsHeld

LEMMA PendingStays == ASSUME PendingHeld, StoreGrows, UNCHANGED pending PROVE PendingHeld'
  BY HeldGrows DEF PendingHeld

LEMMA JoinBitsStay == ASSUME JoinBitsHeld, StoreGrows, UNCHANGED joinBits PROVE JoinBitsHeld'
  BY HeldGrows DEF JoinBitsHeld

LEMMA AnnouncingStays ==
    ASSUME AnnouncingHeld, StoreGrows, UNCHANGED announcing PROVE AnnouncingHeld'
  BY HeldGrows DEF AnnouncingHeld

LEMMA SameStore == ASSUME UNCHANGED store PROVE StoreGrows
  BY DEF StoreGrows

-----------------------------------------------------------------------------
(* The steps.  Each lemma names the claims the step makes; the rest is     *)
(* kept by the lemmas above.                                               *)

ClaimInv == TypeOK /\ NoOverclaim

LEMMA ClaimInit == Init => NoOverclaim
<1> SUFFICES ASSUME Init PROVE NoOverclaim
  OBVIOUS
<1>1. \A a, b \in Node : InFlight(a, b) = {} /\ views[a][b] = {} /\ pending[a][b] = <<>>
  BY DEF Init, InFlight
<1>2. \A n \in Node : joinBits[n] = {} /\ announcing[n] = NoPiece
  BY DEF Init
<1> QED
  BY <1>1, <1>2 DEF NoOverclaim, MessagesHonest, ViewsHeld, PendingHeld, JoinBitsHeld,
     AnnouncingHeld

LEMMA ClaimOnPeerRegister ==
    ASSUME ClaimInv, NEW n \in Node, NEW p \in Node, OnPeerRegister(n, p) PROVE NoOverclaim'
<1>1. UNCHANGED <<store, chan, views, pending, announcing>>
  BY DEF OnPeerRegister, fileVars, wireVars
<1>2. joinBits' = [joinBits EXCEPT ![n] = Held(n)]
  BY DEF OnPeerRegister
<1>3. \A a \in Node : Held(a)' = Held(a)
  BY <1>1 DEF Held
<1>4. JoinBitsHeld'
  BY <1>2, <1>3 DEF JoinBitsHeld, ClaimInv, NoOverclaim, TypeOK
<1> QED
  BY <1>1, <1>4, SameStore, HonestStays, ViewsStay, PendingStays, AnnouncingStays
  DEF ClaimInv, NoOverclaim

LEMMA ClaimOnPeerSend ==
    ASSUME ClaimInv, NEW n \in Node, OnPeerSend(n) PROVE NoOverclaim'
<1> DEFINE p == joinPeer[n]
           m == BitfieldMsg(joinBits[n])
<1>1. UNCHANGED <<store, views, pending, announcing>> /\ p \in Node
  BY DEF OnPeerSend, fileVars, ClaimInv, TypeOK
<1>2. m \in HonestSet(n, p)
  <2>1. m \in Message
    BY Constructors DEF ClaimInv, TypeOK
  <2>2. m.type = "bitfield" /\ m.pieces = joinBits[n]
    BY DEF BitfieldMsg
  <2>3. joinBits[n] \subseteq Held(n)
    BY DEF ClaimInv, NoOverclaim, JoinBitsHeld
  <2> QED
    BY <2>1, <2>2, <2>3 DEF HonestSet, Honest
<1>3. Exchange(n, NoPeer, To(p, <<m>>))
  BY DEF OnPeerSend
<1>4. joinBits' = [joinBits EXCEPT ![n] = {}]
  BY DEF OnPeerSend
<1> HIDE DEF m, p
<1>5. \A b \in Node : To(p, <<m>>)[b] \in Seq(HonestSet(n, b))
  BY <1>1, <1>2, OneMessage, ToHonest
<1>6. StoreGrows
  BY <1>1, SameStore
<1>7. MessagesHonest'
  BY <1>3, <1>5, <1>6, HonestExchange, NetworkConstants DEF ClaimInv, NoOverclaim
<1>8. JoinBitsHeld'
  BY <1>4, <1>6, HeldGrows DEF JoinBitsHeld, ClaimInv, NoOverclaim, TypeOK
<1> QED
  BY <1>1, <1>6, <1>7, <1>8, ViewsStay, PendingStays, AnnouncingStays DEF ClaimInv, NoOverclaim

(* A break loses claims and makes none.                                    *)
LEMMA ClaimCloseEnd ==
    ASSUME ClaimInv, NEW n \in Node, NEW p \in Node, CloseEnd(n, p) PROVE NoOverclaim'
<1>1. UNCHANGED <<store, views, pending, announcing, joinBits>>
  BY DEF CloseEnd, fileVars, swarmVars
<1>2. PICK j \in 0..Len(chan[n][p]), k \in 0..Len(chan[p][n]) :
        chan' = [chan EXCEPT ![n][p] = SubSeq(@, 1, j), ![p][n] = SubSeq(@, 1, k)]
  BY DEF CloseEnd
<1>3. n # p
  <2>1. PICK a, b \in Node : a # b /\ {n, p} = {a, b}
    BY NetworkConstants DEF CloseEnd
  <2>2. a \in {n, p} /\ b \in {n, p}
    BY <2>1
  <2> QED
    BY <2>1, <2>2
<1>4. StoreGrows
  BY <1>1, SameStore
<1>5. MessagesHonest'
  <2>1. \A a, b \in Node : chan[a][b] \in Seq(HonestSet(a, b))
    BY HonestChannels DEF ClaimInv, NoOverclaim
  <2>2. Len(chan[n][p]) \in Nat /\ Len(chan[p][n]) \in Nat
    BY <2>1, LenProperties
  <2>3. /\ SubSeq(chan[n][p], 1, j) \in Seq(HonestSet(n, p))
        /\ SubSeq(chan[p][n], 1, k) \in Seq(HonestSet(p, n))
    BY <2>1, <2>2, PrefixSeq
  <2>4. \A a, b \in Node : \/ chan'[a][b] = chan[a][b]
                           \/ a = n /\ b = p /\ chan'[a][b] = SubSeq(chan[n][p], 1, j)
                           \/ a = p /\ b = n /\ chan'[a][b] = SubSeq(chan[p][n], 1, k)
    BY <1>2, <1>3 DEF ClaimInv, TypeOK
  <2>5. \A a, b \in Node : chan'[a][b] \in Seq(HonestSet(a, b))
    BY <2>1, <2>3, <2>4
  <2>6. \A a, b \in Node : chan'[a][b] \in Seq(HonestSet(a, b)')
    BY <2>5, <1>4, HonestGrows, SeqMonotonic
  <2> QED
    BY <2>6, HonestNext
<1> QED
  BY <1>1, <1>4, <1>5, ViewsStay, PendingStays, JoinBitsStay, AnnouncingStays
  DEF ClaimInv, NoOverclaim

(* A handler that sends true messages and changes nothing that is          *)
(* remembered.                                                             *)
LEMMA ClaimHandler ==
    ASSUME ClaimInv, NEW n \in Node, NEW p \in Node, NEW t, Receives(n, p, t),
           NEW out, \A b \in Node : out[b] \in Seq(HonestSet(n, b)), Exchange(n, p, out),
           UNCHANGED <<store, joinBits, announcing>>
    PROVE  MessagesHonest' /\ JoinBitsHeld' /\ AnnouncingHeld' /\ StoreGrows
<1>1. chan[p][n] # <<>>
  BY DEF Receives
<1>2. StoreGrows
  BY SameStore
<1>3. MessagesHonest'
  BY <1>1, <1>2, HonestExchange DEF ClaimInv, NoOverclaim
<1> QED
  BY <1>2, <1>3, JoinBitsStay, AnnouncingStays DEF ClaimInv, NoOverclaim

LEMMA ClaimSilentHandler ==
    ASSUME ClaimInv, NEW n \in Node, NEW p \in Node,
           HandleInterested(n, p) \/ HandleChoke(n, p) \/ RejectPiece(n, p)
    PROVE  NoOverclaim'
<1>1. \E t \in {"interested", "choke", "piece"} : Receives(n, p, t)
  BY DEF HandleInterested, HandleChoke, RejectPiece
<1>2. Exchange(n, p, Nothing) /\ UNCHANGED <<store, joinBits, announcing, views, pending>>
  BY DEF HandleInterested, HandleChoke, RejectPiece, fileVars, swarmVars
<1>3. MessagesHonest' /\ JoinBitsHeld' /\ AnnouncingHeld' /\ StoreGrows
  BY <1>1, <1>2, NothingHonest, ClaimHandler
<1> QED
  BY <1>2, <1>3, ViewsStay, PendingStays DEF ClaimInv, NoOverclaim

(* Only pieces the peer holds are asked for.                               *)
LEMMA ClaimHandleUnchoke ==
    ASSUME ClaimInv, NEW n \in Node, NEW p \in Node, HandleUnchoke(n, p) PROVE NoOverclaim'
<1> DEFINE ps == pending[n][p]
<1>1. /\ Receives(n, p, "unchoke")
      /\ Exchange(n, p, To(p, Requests(ps)))
      /\ UNCHANGED <<store, joinBits, announcing, views>>
      /\ pending' = [pending EXCEPT ![n][p] = <<>>]
  BY DEF HandleUnchoke, fileVars, swarmVars
<1>2. ps \in Seq(Piece) /\ \A k \in DOMAIN ps : ps[k] \in Held(p)
  BY DEF ClaimInv, TypeOK, NoOverclaim, PendingHeld
<1> HIDE DEF ps
<1>3. \A k \in DOMAIN ps : RequestMsg(ps[k]) \in HonestSet(n, p)
  <2> SUFFICES ASSUME NEW k \in DOMAIN ps PROVE RequestMsg(ps[k]) \in HonestSet(n, p)
    OBVIOUS
  <2>1. ps[k] \in Piece /\ ps[k] \in Held(p)
    BY <1>2 DEF Held
  <2>2. RequestMsg(ps[k]) \in Message
    BY <2>1, Constructors
  <2>3. RequestMsg(ps[k]).type = "request" /\ RequestMsg(ps[k]).piece = ps[k]
    BY DEF RequestMsg
  <2> QED
    BY <2>1, <2>2, <2>3 DEF HonestSet, Honest
<1>4. Requests(ps) \in Seq(HonestSet(n, p))
  BY <1>2, <1>3, RequestsSeq
<1>5. \A b \in Node : To(p, Requests(ps))[b] \in Seq(HonestSet(n, b))
  BY <1>4, ToHonest
<1>6. MessagesHonest' /\ JoinBitsHeld' /\ AnnouncingHeld' /\ StoreGrows
  BY <1>1, <1>5, ClaimHandler
<1>7. PendingHeld'
  <2>1. \A a, b \in Node : pending'[a][b] = <<>> \/ pending'[a][b] = pending[a][b]
    BY <1>1 DEF ClaimInv, TypeOK
  <2>2. \A a \in Node : Held(a)' = Held(a)
    BY <1>1 DEF Held
  <2> QED
    BY <2>1, <2>2 DEF PendingHeld, ClaimInv, NoOverclaim
<1> QED
  BY <1>1, <1>6, <1>7, ViewsStay DEF ClaimInv, NoOverclaim

LEMMA ClaimHandleHave ==
    ASSUME ClaimInv, NEW n \in Node, NEW p \in Node, HandleHave(n, p) PROVE NoOverclaim'
<1> DEFINE i == Head(chan[p][n]).piece
<1>1. /\ Receives(n, p, "have")
      /\ Exchange(n, p, Nothing)
      /\ UNCHANGED <<store, joinBits, announcing, pending>>
      /\ views' = [views EXCEPT ![n][p] = @ \cup {i}]
  BY DEF HandleHave, fileVars, swarmVars
<1>2. i \in Held(p)
  BY <1>1, HeadHonest DEF Receives, Honest, ClaimInv, NoOverclaim
<1>3. MessagesHonest' /\ JoinBitsHeld' /\ AnnouncingHeld' /\ StoreGrows
  BY <1>1, NothingHonest, ClaimHandler
<1> HIDE DEF i
<1>4. ViewsHeld'
  <2>1. \A a, b \in Node : \/ views'[a][b] = views[a][b]
                           \/ b = p /\ views'[a][b] = views[a][b] \cup {i}
    BY <1>1 DEF ClaimInv, TypeOK
  <2>2. \A a \in Node : Held(a)' = Held(a)
    BY <1>1 DEF Held
  <2> QED
    BY <1>2, <2>1, <2>2 DEF ViewsHeld, ClaimInv, NoOverclaim
<1> QED
  BY <1>1, <1>3, <1>4, PendingStays DEF ClaimInv, NoOverclaim

(* A bitfield is what its sender held; what is wanted of it is part of it. *)
LEMMA ClaimHandleBitfield ==
    ASSUME ClaimInv, NEW n \in Node, NEW p \in Node, HandleBitfield(n, p) PROVE NoOverclaim'
<1> DEFINE bits == Head(chan[p][n]).pieces
<1>1. /\ Receives(n, p, "bitfield")
      /\ UNCHANGED <<store, joinBits, announcing>>
      /\ views' = [views EXCEPT ![n][p] = bits]
  BY DEF HandleBitfield, fileVars, swarmVars
<1>2. PICK ps \in RarestMissing(n, views', bits) :
        IF ps = <<>>
        THEN Exchange(n, p, Nothing) /\ UNCHANGED pending
        ELSE /\ Exchange(n, p, To(p, <<InterestedMsg>>))
             /\ pending' = IF CanSend(n, p) THEN [pending EXCEPT ![n][p] = ps] ELSE pending
  BY DEF HandleBitfield
<1>3. bits \in SUBSET Piece /\ bits \subseteq Held(p)
  BY <1>1, HeadHonest, MessageFields DEF Receives, Honest, ClaimInv, NoOverclaim
<1> HIDE DEF bits
<1>4. ps \in Seq(bits)
  BY <1>2, <1>3, RarestMissingSeq
<1>5. \A k \in DOMAIN ps : ps[k] \in Held(p)
  BY <1>3, <1>4, SeqElements DEF ElementsIn
<1>6. InterestedMsg \in HonestSet(n, p)
  BY Constructors DEF HonestSet, Honest, InterestedMsg
<1>7. \A b \in Node : To(p, <<InterestedMsg>>)[b] \in Seq(HonestSet(n, b))
  BY <1>6, OneMessage, ToHonest
<1>8. MessagesHonest' /\ JoinBitsHeld' /\ AnnouncingHeld' /\ StoreGrows
  <2>1. CASE ps = <<>>
    BY <2>1, <1>1, <1>2, NothingHonest, ClaimHandler
  <2>2. CASE ps # <<>>
    BY <2>2, <1>1, <1>2, <1>7, ClaimHandler
  <2> QED
    BY <2>1, <2>2
<1>9. \A a \in Node : Held(a)' = Held(a)
  BY <1>1 DEF Held
<1>10. ViewsHeld'
  <2>1. \A a, b \in Node : \/ views'[a][b] = views[a][b]
                           \/ b = p /\ views'[a][b] = bits
    BY <1>1 DEF ClaimInv, TypeOK
  <2> QED
    BY <1>3, <1>9, <2>1 DEF ViewsHeld, ClaimInv, NoOverclaim
<1>11. PendingHeld'
  <2>1. pending' = pending \/ pending' = [pending EXCEPT ![n][p] = ps]
    <3>1. CASE ps = <<>>
      BY <3>1, <1>2
    <3>2. CASE ps # <<>> /\ CanSend(n, p)
      BY <3>2, <1>2
    <3>3. CASE ps # <<>> /\ ~CanSend(n, p)
      BY <3>3, <1>2
    <3> QED
      BY <3>1, <3>2, <3>3
  <2>2. \A a, b \in Node : pending'[a][b] = pending[a][b] \/ (b = p /\ pending'[a][b] = ps)
    <3>1. pending \in [Node -> [Node -> Seq(Piece)]]
      BY DEF ClaimInv, TypeOK
    <3>2. CASE pending' = pending
      BY <3>2
    <3>3. CASE pending' = [pending EXCEPT ![n][p] = ps]
      BY <3>1, <3>3
    <3> QED
      BY <2>1, <3>2, <3>3
  <2> QED
    BY <1>5, <1>9, <2>2 DEF PendingHeld, ClaimInv, NoOverclaim
<1> QED
  BY <1>8, <1>10, <1>11 DEF NoOverclaim

(* What is served is the piece that is held.                               *)
LEMMA ClaimHandleRequest ==
    ASSUME ClaimInv, NEW n \in Node, NEW p \in Node, HandleRequest(n, p) PROVE NoOverclaim'
<1> DEFINE i == Head(chan[p][n]).piece
           out == IF ~amChoking[n][p] /\ i \in Held(n)
                  THEN To(p, <<PieceMsg(i, store[n][i])>>) ELSE Nothing
<1>1. /\ Receives(n, p, "request")
      /\ Exchange(n, p, out)
      /\ UNCHANGED <<store, joinBits, announcing, views, pending>>
  BY DEF HandleRequest, fileVars, swarmVars
<1>2. \A b \in Node : out[b] \in Seq(HonestSet(n, b))
  <2>1. CASE ~amChoking[n][p] /\ i \in Held(n)
    <3> DEFINE m == PieceMsg(i, store[n][i])
    <3>1. i \in Piece /\ store[n][i] \in Data
      BY <2>1 DEF Held, ClaimInv, TypeOK
    <3>2. m \in Message
      BY <3>1, Constructors
    <3>3. m.type = "piece" /\ m.piece = i /\ m.data = store[n][i]
      BY DEF PieceMsg
    <3> HIDE DEF m
    <3>4. m \in HonestSet(n, p)
      BY <3>2, <3>3 DEF HonestSet, Honest
    <3>5. \A b \in Node : To(p, <<m>>)[b] \in Seq(HonestSet(n, b))
      BY <3>4, OneMessage, ToHonest
    <3> QED
      BY <2>1, <3>5 DEF m
  <2>2. CASE ~(~amChoking[n][p] /\ i \in Held(n))
    BY <2>2, NothingHonest
  <2> QED
    BY <2>1, <2>2
<1> HIDE DEF out
<1>3. MessagesHonest' /\ JoinBitsHeld' /\ AnnouncingHeld' /\ StoreGrows
  BY <1>1, <1>2, ClaimHandler
<1> QED
  BY <1>1, <1>3, ViewsStay, PendingStays DEF ClaimInv, NoOverclaim

(* A piece that is stored is the one its sender holds; it fills a hole and *)
(* replaces nothing.                                                       *)
LEMMA StoredPiece ==
    ASSUME ClaimInv, NEW n \in Node, NEW p \in Node, StorePiece(n, p)
    PROVE  \E i \in Piece :
             /\ store[p][i] \in Data
             /\ n \in Verifying => store[p][i] = GoodData[i]
             /\ announcing' = [announcing EXCEPT ![n] = i]
             /\ store' = IF store[n][i] = NoData
                         THEN [store EXCEPT ![n][i] = store[p][i]] ELSE store
<1> DEFINE m == Head(chan[p][n])
<1>1. m \in Message /\ Honest(p, n, m) /\ m.type = "piece"
  BY HeadHonest DEF StorePiece, Receives, ClaimInv, NoOverclaim
<1>2. m.piece \in Piece /\ m.data \in Data /\ store[p][m.piece] = m.data
  BY <1>1, MessageFields DEF Honest
<1>3. /\ Accepts(n, m.piece, m.data)
      /\ store' = [store EXCEPT ![n][m.piece] = IF @ = NoData THEN m.data ELSE @]
      /\ announcing' = [announcing EXCEPT ![n] = m.piece]
  BY DEF StorePiece
<1> HIDE DEF m
<1>4. store \in [Node -> [Piece -> Data \cup {NoData}]]
  BY DEF ClaimInv, TypeOK
<1>5. CASE store[n][m.piece] = NoData
  <2>1. store' = [store EXCEPT ![n][m.piece] = store[p][m.piece]]
    BY <1>2, <1>3, <1>5
  <2> QED
    BY <1>2, <1>3, <1>5, <2>1 DEF Accepts
<1>6. CASE store[n][m.piece] # NoData
  <2>1. store' = store
    BY <1>2, <1>3, <1>4, <1>6
  <2> QED
    BY <1>2, <1>3, <1>6, <2>1 DEF Accepts
<1> QED
  BY <1>5, <1>6

LEMMA ClaimStorePiece ==
    ASSUME ClaimInv, NEW n \in Node, NEW p \in Node, StorePiece(n, p) PROVE NoOverclaim'
<1>1. PICK i \in Piece :
             /\ store[p][i] \in Data
             /\ announcing' = [announcing EXCEPT ![n] = i]
             /\ store' = IF store[n][i] = NoData
                         THEN [store EXCEPT ![n][i] = store[p][i]] ELSE store
  BY StoredPiece
<1>2. /\ Receives(n, p, "piece")
      /\ Exchange(n, p, Nothing)
      /\ UNCHANGED <<views, pending, joinBits>>
  BY DEF StorePiece, swarmVars
<1>3. store \in [Node -> [Piece -> Data \cup {NoData}]]
  BY DEF ClaimInv, TypeOK
<1>4. StoreGrows
  BY <1>1, <1>3 DEF StoreGrows
<1>5. i \in Held(n)'
  <2>1. store'[n][i] # NoData
    BY <1>1, <1>3, NetworkConstants
  <2> QED
    BY <2>1 DEF Held
<1>6. MessagesHonest'
  <2>1. chan[p][n] # <<>>
    BY <1>2 DEF Receives
  <2> QED
    BY <1>2, <1>4, <2>1, NothingHonest, HonestExchange DEF ClaimInv, NoOverclaim
<1>7. AnnouncingHeld'
  <2>1. \A a \in Node : announcing'[a] = announcing[a] \/ (a = n /\ announcing'[a] = i)
    BY <1>1 DEF ClaimInv, TypeOK
  <2> QED
    BY <1>4, <1>5, <2>1, HeldGrows DEF AnnouncingHeld, ClaimInv, NoOverclaim
<1> QED
  BY <1>2, <1>4, <1>6, <1>7, ViewsStay, PendingStays, JoinBitsStay DEF ClaimInv, NoOverclaim

(* A piece is announced after it is stored.                                *)
LEMMA ClaimAnnounce ==
    ASSUME ClaimInv, NEW n \in Node, Announce(n) PROVE NoOverclaim'
<1> DEFINE i == announcing[n]
           have == <<HaveMsg(i)>>
           both == <<HaveMsg(i), BitfieldMsg(Held(n))>>
<1>1. /\ \/ Exchange(n, NoPeer, ToAll(peers[n], have))
         \/ Exchange(n, NoPeer, ToAll(peers[n], both))
      /\ UNCHANGED <<store, views, pending, joinBits>>
      /\ announcing' = [announcing EXCEPT ![n] = NoPiece]
      /\ i # NoPiece
  BY DEF Announce, AnnounceProgress, AnnounceComplete, swarmVars
<1>2. i \in Piece /\ i \in Held(n)
  BY <1>1 DEF ClaimInv, TypeOK, NoOverclaim, AnnouncingHeld
<1>3. \A b \in Node : HaveMsg(i) \in HonestSet(n, b)
  <2>1. HaveMsg(i) \in Message /\ HaveMsg(i).type = "have" /\ HaveMsg(i).piece = i
    BY <1>2, Constructors DEF HaveMsg
  <2> QED
    BY <1>2, <2>1 DEF HonestSet, Honest
<1>4. \A b \in Node : BitfieldMsg(Held(n)) \in HonestSet(n, b)
  <2>1. Held(n) \in SUBSET Piece
    BY HeldType DEF ClaimInv
  <2>2. /\ BitfieldMsg(Held(n)) \in Message
        /\ BitfieldMsg(Held(n)).type = "bitfield"
        /\ BitfieldMsg(Held(n)).pieces = Held(n)
    BY <2>1, Constructors DEF BitfieldMsg
  <2> QED
    BY <2>2 DEF HonestSet, Honest
<1>5. \A b \in Node : have \in Seq(HonestSet(n, b))
  BY <1>3, OneMessage
<1>6. \A b \in Node : both \in Seq(HonestSet(n, b))
  BY <1>3, <1>4, TwoMessages
<1> HIDE DEF have, both
<1>7. StoreGrows
  BY <1>1, SameStore
<1>8. MessagesHonest'
  <2>1. CASE Exchange(n, NoPeer, ToAll(peers[n], have))
    <3>1. \A b \in Node : ToAll(peers[n], have)[b] \in Seq(HonestSet(n, b))
      BY <1>5, ToAllHonest
    <3> QED
      BY <2>1, <3>1, <1>7, HonestExchange, NetworkConstants DEF ClaimInv, NoOverclaim
  <2>2. CASE Exchange(n, NoPeer, ToAll(peers[n], both))
    <3>1. \A b \in Node : ToAll(peers[n], both)[b] \in Seq(HonestSet(n, b))
      BY <1>6, ToAllHonest
    <3> QED
      BY <2>2, <3>1, <1>7, HonestExchange, NetworkConstants DEF ClaimInv, NoOverclaim
  <2> QED
    BY <1>1, <2>1, <2>2
<1>9. AnnouncingHeld'
  <2>1. \A a \in Node : announcing'[a] = announcing[a] \/ announcing'[a] = NoPiece
    BY <1>1 DEF ClaimInv, TypeOK
  <2> QED
    BY <1>7, <2>1, HeldGrows DEF AnnouncingHeld, ClaimInv, NoOverclaim
<1> QED
  BY <1>1, <1>7, <1>8, <1>9, ViewsStay, PendingStays, JoinBitsStay DEF ClaimInv, NoOverclaim

LEMMA ClaimUnchokeRound ==
    ASSUME ClaimInv, NEW n \in Node, Round(n) PROVE NoOverclaim'
<1>1. PICK opt : UnchokeRound(n, opt)
  BY DEF Round
<1> DEFINE out == [p \in Node |->
                      IF amChoking'[n][p] = amChoking[n][p] THEN <<>>
                      ELSE IF amChoking'[n][p] THEN <<ChokeMsg>> ELSE <<UnchokeMsg>>]
<1>2. /\ Exchange(n, NoPeer, out)
      /\ UNCHANGED <<store, views, pending, joinBits, announcing>>
  BY <1>1 DEF UnchokeRound, fileVars, swarmVars
<1>3. \A b \in Node : ChokeMsg \in HonestSet(n, b) /\ UnchokeMsg \in HonestSet(n, b)
  BY Constructors DEF HonestSet, Honest, ChokeMsg, UnchokeMsg
<1>4. \A b \in Node : /\ <<ChokeMsg>> \in Seq(HonestSet(n, b))
                      /\ <<UnchokeMsg>> \in Seq(HonestSet(n, b))
                      /\ <<>> \in Seq(HonestSet(n, b))
  BY <1>3, OneMessage, EmptySeq
<1>5. \A b \in Node : out[b] \in Seq(HonestSet(n, b))
  BY <1>4
<1> HIDE DEF out
<1>6. StoreGrows
  BY <1>2, SameStore
<1>7. MessagesHonest'
  BY <1>2, <1>5, <1>6, HonestExchange, NetworkConstants DEF ClaimInv, NoOverclaim
<1> QED
  BY <1>2, <1>6, <1>7, ViewsStay, PendingStays, JoinBitsStay, AnnouncingStays
  DEF ClaimInv, NoOverclaim

LEMMA ClaimStep == ClaimInv /\ [Next]_vars => NoOverclaim'
<1> SUFFICES ASSUME ClaimInv, [Next]_vars PROVE NoOverclaim'
  OBVIOUS
<1>1. CASE UNCHANGED vars
  <2>1. UNCHANGED <<store, chan, views, pending, joinBits, announcing>>
    BY <1>1 DEF vars, fileVars, swarmVars, wireVars
  <2> QED
    BY <2>1, SameStore, HonestStays, ViewsStay, PendingStays, JoinBitsStay, AnnouncingStays
    DEF ClaimInv, NoOverclaim
<1>2. ASSUME NEW n \in Node, NEW p \in Node, Handle(n, p) PROVE NoOverclaim'
  BY <1>2, ClaimSilentHandler, ClaimHandleUnchoke, ClaimHandleHave, ClaimHandleBitfield,
     ClaimHandleRequest, ClaimStorePiece DEF Handle
<1> QED
  BY <1>1, <1>2, ClaimOnPeerRegister, ClaimOnPeerSend, ClaimCloseEnd, ClaimAnnounce,
     ClaimUnchokeRound DEF Next

(* No node ever claims, believes in, asks for or serves a piece that is    *)
(* not there, whatever is lost, rejected or interleaved.                   *)
THEOREM NoOverclaimHolds == Spec => []NoOverclaim
<1>1. TypeOK /\ TypeOK' /\ NoOverclaim /\ [Next]_vars => NoOverclaim'
  BY ClaimStep DEF ClaimInv
<1> QED
  BY ClaimInit, <1>1, TypeCorrect, PTL DEF Spec

-----------------------------------------------------------------------------
(* Refinement. *)

LEMMA RefineInit == Init => D!Init
  BY DEF Init, D!Init

LEMMA RefineStep == ClaimInv /\ [Next]_vars => [D!Next]_<<store, saved>>
<1> SUFFICES ASSUME ClaimInv, [Next]_vars PROVE [D!Next]_<<store, saved>>
  OBVIOUS
<1>1. ASSUME NEW n \in Node, NEW p \in Node, StorePiece(n, p)
      PROVE  [D!Next]_<<store, saved>>
  <2>1. PICK i \in Piece :
             /\ store[p][i] \in Data
             /\ n \in Verifying => store[p][i] = GoodData[i]
             /\ store' = IF store[n][i] = NoData
                         THEN [store EXCEPT ![n][i] = store[p][i]] ELSE store
    BY <1>1, StoredPiece
  <2>2. UNCHANGED saved
    BY <1>1 DEF StorePiece
  <2>3. CASE store[n][i] = NoData
    <3>1. D!Copy(n, p, i)
      BY <2>1, <2>2, <2>3, NetworkConstants DEF D!Copy
    <3> QED
      BY <3>1 DEF D!Next
  <2>4. CASE store[n][i] # NoData
    BY <2>1, <2>2, <2>4
  <2> QED
    BY <2>3, <2>4
<1>2. ASSUME NEW n \in Node, AnnounceComplete(n)
      PROVE  [D!Next]_<<store, saved>>
  <2>1. UNCHANGED store /\ (saved' = saved \cup {n} \/ saved' = saved)
    BY <1>2 DEF AnnounceComplete
  <2>2. D!Complete(n)
    BY <1>2 DEF AnnounceComplete, Complete, Held, D!Complete
  <2> QED
    BY <2>1, <2>2 DEF D!Next, D!Save
<1>3. ASSUME NEW n \in Node, NEW p \in Node, Handle(n, p), ~StorePiece(n, p)
      PROVE  UNCHANGED <<store, saved>>
  BY <1>3 DEF Handle, HandleInterested, HandleChoke, HandleUnchoke, HandleHave,
     HandleBitfield, HandleRequest, RejectPiece, fileVars
<1>4. ASSUME NEW n \in Node, OnPeerSend(n) \/ AnnounceProgress(n) \/ Round(n)
      PROVE  UNCHANGED <<store, saved>>
  BY <1>4 DEF OnPeerSend, AnnounceProgress, Round, UnchokeRound, fileVars
<1>5. ASSUME NEW n \in Node, NEW p \in Node, OnPeerRegister(n, p) \/ CloseEnd(n, p)
      PROVE  UNCHANGED <<store, saved>>
  BY <1>5 DEF OnPeerRegister, CloseEnd, fileVars
<1>6. CASE UNCHANGED vars
  BY <1>6 DEF vars, fileVars
<1> QED
  BY <1>1, <1>2, <1>3, <1>4, <1>5, <1>6 DEF Next, Announce

(* The protocol implements Dissemination: a store only changes by the copy *)
(* of a piece from a node that holds it, verified where there are hashes.  *)
THEOREM Refinement == Spec => Disseminates
<1>1. TypeOK /\ NoOverclaim /\ [Next]_vars => [D!Next]_<<store, saved>>
  BY RefineStep DEF ClaimInv
<1> QED
  BY RefineInit, <1>1, TypeCorrect, NoOverclaimHolds, PTL DEF Spec, Disseminates, D!Spec

-----------------------------------------------------------------------------
(* What Dissemination keeps: a node with hashes holds nothing but the      *)
(* file's pieces, and a node that has saved has them all.                  *)
VerifiedHeld == \A n \in Verifying, i \in Piece : store[n][i] \in {GoodData[i], NoData}
SavedComplete == \A n \in saved : Complete(n)

LEMMA IntactInit == Init => VerifiedHeld /\ SavedComplete
  BY NetworkConstants DEF Init, VerifiedHeld, SavedComplete

LEMMA IntactStep ==
    TypeOK /\ VerifiedHeld /\ SavedComplete /\ [D!Next]_<<store, saved>>
        => VerifiedHeld' /\ SavedComplete'
<1> SUFFICES ASSUME TypeOK, VerifiedHeld, SavedComplete, [D!Next]_<<store, saved>>
             PROVE  VerifiedHeld' /\ SavedComplete'
  OBVIOUS
<1>1. CASE UNCHANGED <<store, saved>>
  BY <1>1 DEF VerifiedHeld, SavedComplete, Complete, Held
<1>2. ASSUME NEW n \in Node, NEW from \in Node, NEW i \in Piece, D!Copy(n, from, i)
      PROVE  VerifiedHeld' /\ SavedComplete'
  <2>1. /\ store' = [store EXCEPT ![n][i] = store[from][i]]
        /\ store[n][i] = NoData /\ store[from][i] # NoData /\ saved' = saved
        /\ n \in Verifying => store[from][i] = GoodData[i]
    BY <1>2 DEF D!Copy
  <2>2. /\ store \in [Node -> [Piece -> Data \cup {NoData}]]
        /\ Verifying \subseteq Node /\ saved \subseteq Node
    BY NetworkConstants DEF TypeOK
  <2>3. VerifiedHeld'
    BY <2>1, <2>2 DEF VerifiedHeld
  <2>4. \A m \in Node : Held(m) \subseteq Held(m)' /\ Held(m)' \subseteq Piece
    BY <2>1, <2>2 DEF Held
  <2>5. SavedComplete'
    BY <2>1, <2>2, <2>4 DEF SavedComplete, Complete
  <2> QED
    BY <2>3, <2>5
<1>3. ASSUME NEW n \in Node, D!Save(n)
      PROVE  VerifiedHeld' /\ SavedComplete'
  BY <1>3 DEF D!Save, D!Complete, VerifiedHeld, SavedComplete, Complete, Held
<1> QED
  BY <1>1, <1>2, <1>3 DEF D!Next

(* A node that verifies pieces and has saved the file has the whole file   *)
(* of the info hash, whoever served it.                                    *)
THEOREM VerifiedFileIntactHolds == Spec => []VerifiedFileIntact
<1>1. TypeOK /\ VerifiedHeld /\ SavedComplete => VerifiedFileIntact
  <2> SUFFICES ASSUME TypeOK, VerifiedHeld, SavedComplete,
                      NEW n \in saved, n \in Verifying
               PROVE  store[n] = GoodData
    BY DEF VerifiedFileIntact
  <2>1. /\ store[n] \in [Piece -> Data \cup {NoData}]
        /\ GoodData \in [Piece -> Data]
    BY NetworkConstants DEF TypeOK
  <2>2. \A i \in Piece : store[n][i] # NoData
    BY DEF SavedComplete, Complete, Held
  <2>3. \A i \in Piece : store[n][i] = GoodData[i]
    BY <2>2 DEF VerifiedHeld
  <2> QED
    BY <2>1, <2>3
<1> QED
  BY IntactInit, IntactStep, <1>1, TypeCorrect, Refinement, PTL
  DEF Spec, Disseminates, D!Spec

=============================================================================
