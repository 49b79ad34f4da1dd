----------------------- MODULE TorrentAgreementProofs -----------------------
(***************************************************************************)
(* What the two ends of a connection of TorrentServer agree on, for every  *)
(* swarm: which pieces the one holds and whether it chokes the other.  In  *)
(* both cases the argument is about one direction of a connection: what is *)
(* under way, read onto what the reader knows already, leaves the reader   *)
(* with what the writer knows now.  A writer restores that whenever it     *)
(* changes something, and reading keeps it.                                *)
(***************************************************************************)
EXTENDS TorrentClaimsProofs

ChokeTypes == {"choke", "unchoke"}
ClaimTypes == {"have", "bitfield"}

Free(q, T) == \A k \in DOMAIN q : q[k].type \notin T

(* Of the choke messages in q, read in order by one who believes heard,    *)
(* the last one decides.                                                   *)
Concludes(q, heard, says) ==
    /\ \A k \in DOMAIN q :
          q[k].type \in ChokeTypes /\ (\A j \in DOMAIN q : k < j => q[j].type \notin ChokeTypes)
          => (q[k].type = "choke" <=> says)
    /\ Free(q, ChokeTypes) => (heard <=> says)

Tells(m, i) == m.type \in ClaimTypes /\ IF m.type = "have" THEN m.piece = i ELSE i \in m.pieces

Erases(m, i) == m.type = "bitfield" /\ i \notin m.pieces

(* One who knows the pieces of view and reads q knows i in the end.        *)
Learns(q, view, i) ==
    \/ i \in view /\ \A j \in DOMAIN q : ~Erases(q[j], i)
    \/ \E k \in DOMAIN q : Tells(q[k], i) /\ \A j \in DOMAIN q : k < j => ~Erases(q[j], i)

-----------------------------------------------------------------------------
(* A node is not its own peer, and the peer whose OnPeer is under way is   *)
(* registered.                                                             *)
Apart ==
    \A a \in Node :
        /\ a \notin peers[a]
        /\ joinPeer[a] # NoPeer => joinPeer[a] \in peers[a]

Intact(a, b) == a # b /\ <<a, b>> \notin lost

(* Where nothing was lost, b is to believe what a has decided.             *)
ChokesConclude ==
    \A a, b \in Node : Intact(a, b) => Concludes(chan[a][b], peerChoking[b][a], amChoking[a][b])

(* Where nothing was lost, b is to know every piece of a, but for the one  *)
(* a is about to announce; before OnPeer's bitfield, that bitfield has it. *)
PiecesLearnt ==
    \A a, b \in Node :
        ( Intact(a, b) /\ b \in peers[a] ) =>
            \A i \in Held(a) \ {announcing[a]} :
                IF joinPeer[a] = b THEN i \in joinBits[a]
                ELSE Learns(chan[a][b], views[b][a], i)

AgreeInv == ClaimInv /\ Apart /\ ChokesConclude /\ PiecesLearnt

-----------------------------------------------------------------------------
(* Reading and writing, on sequences.                                      *)

LEMMA Indices ==
    ASSUME NEW q \in Seq(Message)
    PROVE  Len(q) \in Nat /\ DOMAIN q = 1..Len(q) /\ \A k \in DOMAIN q : q[k] \in Message
  BY LenProperties, ElementOfSeq

LEMMA Written ==
    ASSUME NEW q \in Seq(Message), NEW out \in Seq(Message)
    PROVE  /\ q \o out \in Seq(Message)
           /\ Len(q \o out) = Len(q) + Len(out)
           /\ \A k \in DOMAIN q : k \in DOMAIN (q \o out) /\ (q \o out)[k] = q[k]
           /\ \A k \in DOMAIN (q \o out) :
                 \/ k \in DOMAIN q /\ (q \o out)[k] = q[k]
                 \/ /\ k > Len(q) /\ k - Len(q) \in DOMAIN out
                    /\ (q \o out)[k] = out[k - Len(q)]
           /\ \A k \in DOMAIN out :
                 /\ Len(q) + k \in DOMAIN (q \o out)
                 /\ (q \o out)[Len(q) + k] = out[k]
<1>1. /\ Len(q) \in Nat /\ DOMAIN q = 1..Len(q)
      /\ Len(out) \in Nat /\ DOMAIN out = 1..Len(out)
  BY Indices
<1>2. /\ q \o out \in Seq(Message)
      /\ Len(q \o out) = Len(q) + Len(out)
      /\ \A k \in 1..Len(q) + Len(out) :
            (q \o out)[k] = IF k <= Len(q) THEN q[k] ELSE out[k - Len(q)]
  BY ConcatProperties
<1>3. DOMAIN (q \o out) = 1..Len(q) + Len(out)
  BY <1>2, Indices
<1> HIDE DEF Message
<1> QED
  BY <1>1, <1>2, <1>3

LEMMA Read ==
    ASSUME NEW q \in Seq(Message), q # <<>>
    PROVE  /\ Tail(q) \in Seq(Message)
           /\ 1 \in DOMAIN q /\ q[1] = Head(q)
           /\ \A k \in DOMAIN q : k = 1 \/ (k - 1 \in DOMAIN Tail(q) /\ Tail(q)[k - 1] = q[k])
           /\ \A k \in DOMAIN Tail(q) : k + 1 \in DOMAIN q /\ Tail(q)[k] = q[k + 1]
<1>1. Len(q) \in Nat \ {0} /\ DOMAIN q = 1..Len(q)
  BY Indices, EmptySeq
<1>2. /\ Tail(q) \in Seq(Message) /\ Len(Tail(q)) = Len(q) - 1
      /\ \A k \in 1..Len(Tail(q)) : Tail(q)[k] = q[k + 1]
      /\ Head(q) = q[1]
  BY HeadTailProperties
<1>3. DOMAIN Tail(q) = 1..(Len(q) - 1)
  BY <1>2, Indices
<1> QED
  BY <1>1, <1>2, <1>3

(* What b believes of a's choking after reading m.                         *)
ChokedAfter(m, heard) ==
    IF m.type = "choke" THEN TRUE ELSE IF m.type = "unchoke" THEN FALSE ELSE heard

ViewAfter(m, view) ==
    IF m.type = "have" THEN view \cup {m.piece}
    ELSE IF m.type = "bitfield" THEN m.pieces
    ELSE view

LEMMA ConcludesRead ==
    ASSUME NEW q \in Seq(Message), q # <<>>, NEW heard \in BOOLEAN, NEW says \in BOOLEAN,
           Concludes(q, heard, says)
    PROVE  Concludes(Tail(q), ChokedAfter(Head(q), heard), says)
<1> DEFINE r == Tail(q)
<1>1. /\ 1 \in DOMAIN q /\ q[1] = Head(q)
      /\ \A k \in DOMAIN q : k = 1 \/ (k - 1 \in DOMAIN r /\ r[k - 1] = q[k])
      /\ \A k \in DOMAIN r : k + 1 \in DOMAIN q /\ r[k] = q[k + 1]
  BY Read
<1>2. r \in Seq(Message)
  BY Read
<1>3. DOMAIN q \subseteq Int /\ DOMAIN r \subseteq Int /\ \A k \in DOMAIN r : k >= 1
  BY <1>2, Indices
<1> HIDE DEF r
<1>4. ASSUME NEW k \in DOMAIN r, r[k].type \in ChokeTypes,
             \A j \in DOMAIN r : k < j => r[j].type \notin ChokeTypes
      PROVE  r[k].type = "choke" <=> says
  <2>1. k + 1 \in DOMAIN q /\ q[k + 1] = r[k]
    BY <1>1
  <2>2. ASSUME NEW j \in DOMAIN q, k + 1 < j PROVE q[j].type \notin ChokeTypes
    <3>1. j - 1 \in DOMAIN r /\ r[j - 1] = q[j] /\ k < j - 1
      BY <1>1, <1>3, <2>2
    <3> QED
      BY <3>1, <1>4
  <2> QED
    BY <2>1, <2>2, <1>4 DEF Concludes
<1>5. ASSUME Free(r, ChokeTypes) PROVE ChokedAfter(Head(q), heard) <=> says
  <2>1. \A j \in DOMAIN q : j # 1 => q[j].type \notin ChokeTypes
    BY <1>1, <1>5 DEF Free
  <2>2. CASE q[1].type \in ChokeTypes
    <3>1. q[1].type = "choke" <=> says
      <4>1. \A j \in DOMAIN q : 1 < j => q[j].type \notin ChokeTypes
        BY <2>1, <1>3
      <4> QED
        BY <4>1, <2>2, <1>1 DEF Concludes
    <3> QED
      BY <3>1, <2>2, <1>1 DEF ChokedAfter, ChokeTypes
  <2>3. CASE q[1].type \notin ChokeTypes
    <3>1. Free(q, ChokeTypes)
      BY <2>1, <2>3 DEF Free
    <3>2. heard <=> says
      BY <3>1 DEF Concludes
    <3> QED
      BY <3>2, <2>3, <1>1 DEF ChokedAfter, ChokeTypes
  <2> QED
    BY <2>2, <2>3
<1> QED
  BY <1>4, <1>5 DEF r, Concludes

LEMMA ConcludesMore ==
    ASSUME NEW q \in Seq(Message), NEW out \in Seq(Message), Free(out, ChokeTypes),
           NEW heard \in BOOLEAN, NEW says \in BOOLEAN, Concludes(q, heard, says)
    PROVE  Concludes(q \o out, heard, says)
<1> DEFINE r == q \o out
<1>1. /\ \A k \in DOMAIN q : k \in DOMAIN r /\ r[k] = q[k]
      /\ \A k \in DOMAIN r : \/ k \in DOMAIN q /\ r[k] = q[k]
                             \/ k - Len(q) \in DOMAIN out /\ r[k] = out[k - Len(q)]
  BY Written
<1> HIDE DEF r
<1>2. \A k \in DOMAIN r : r[k].type \in ChokeTypes => k \in DOMAIN q /\ r[k] = q[k]
  BY <1>1 DEF Free
<1>3. ASSUME NEW k \in DOMAIN r, r[k].type \in ChokeTypes,
             \A j \in DOMAIN r : k < j => r[j].type \notin ChokeTypes
      PROVE  r[k].type = "choke" <=> says
  <2>1. k \in DOMAIN q /\ r[k] = q[k] /\ \A j \in DOMAIN q : k < j => q[j].type \notin ChokeTypes
    BY <1>1, <1>2, <1>3
  <2> QED
    BY <2>1, <1>3 DEF Concludes
<1>4. Free(r, ChokeTypes) => Free(q, ChokeTypes)
  BY <1>1 DEF Free
<1> QED
  BY <1>3, <1>4 DEF r, Concludes

(* One choke message, written last, settles it.                            *)
LEMMA ConcludesNow ==
    ASSUME NEW q \in Seq(Message), NEW m \in Message, m.type \in ChokeTypes,
           NEW heard \in BOOLEAN
    PROVE  Concludes(q \o <<m>>, heard, m.type = "choke")
<1> DEFINE r == q \o <<m>>
           last == Len(q) + 1
<1>1. Len(q) \in Nat /\ DOMAIN q = 1..Len(q)
  BY Indices
<1>2. DOMAIN <<m>> = {1} /\ <<m>>[1] = m /\ <<m>> \in Seq(Message)
  OBVIOUS
<1>3. /\ last \in DOMAIN r /\ r[last] = m
      /\ \A k \in DOMAIN r : k \in DOMAIN q \/ k - Len(q) \in DOMAIN <<m>>
  BY <1>2, Written
<1>4. \A k \in DOMAIN r : k = last \/ k < last
  <2> SUFFICES ASSUME NEW k \in DOMAIN r PROVE k = last \/ k < last
    OBVIOUS
  <2>1. k \in DOMAIN r /\ r \in Seq(Message)
    BY <1>2, Written
  <2>2. k \in Int
    BY <2>1, Indices
  <2>3. k \in DOMAIN q \/ k - Len(q) = 1
    BY <1>2, <1>3
  <2> QED
    BY <2>2, <2>3, <1>1
<1> HIDE DEF r, last
<1> QED
  BY <1>3, <1>4 DEF Concludes, Free, r

LEMMA LearnsRead ==
    ASSUME NEW q \in Seq(Message), q # <<>>, NEW view, NEW i, Learns(q, view, i)
    PROVE  Learns(Tail(q), ViewAfter(Head(q), view), i)
<1> DEFINE r == Tail(q)
           after == ViewAfter(Head(q), view)
<1>1. /\ 1 \in DOMAIN q /\ q[1] = Head(q)
      /\ \A k \in DOMAIN q : k = 1 \/ (k - 1 \in DOMAIN r /\ r[k - 1] = q[k])
      /\ \A k \in DOMAIN r : k + 1 \in DOMAIN q /\ r[k] = q[k + 1]
  BY Read
<1>2. r \in Seq(Message)
  BY Read
<1>3. /\ DOMAIN q \subseteq Int /\ DOMAIN r \subseteq Int
      /\ \A k \in DOMAIN q : k >= 1
      /\ \A k \in DOMAIN r : k >= 1
  BY <1>2, Indices
<1>4. /\ Tells(Head(q), i) => i \in after
      /\ i \in view /\ ~Erases(Head(q), i) => i \in after
  BY DEF Tells, Erases, ViewAfter, ClaimTypes
<1> HIDE DEF r, after
<1>5. CASE i \in view /\ \A j \in DOMAIN q : ~Erases(q[j], i)
  <2>1. i \in after
    BY <1>1, <1>4, <1>5
  <2>2. \A j \in DOMAIN r : ~Erases(r[j], i)
    BY <1>1, <1>5
  <2> QED
    BY <2>1, <2>2 DEF Learns, r, after
<1>6. ASSUME NEW k \in DOMAIN q, Tells(q[k], i), \A j \in DOMAIN q : k < j => ~Erases(q[j], i)
      PROVE  Learns(r, after, i)
  <2>1. CASE k = 1
    <3>1. i \in after
      BY <1>1, <1>4, <1>6, <2>1
    <3>2. \A j \in DOMAIN r : ~Erases(r[j], i)
      <4> SUFFICES ASSUME NEW j \in DOMAIN r PROVE ~Erases(r[j], i)
        OBVIOUS
      <4>1. j + 1 \in DOMAIN q /\ r[j] = q[j + 1] /\ 1 < j + 1
        BY <1>1, <1>3
      <4> QED
        BY <4>1, <1>6, <2>1
    <3> QED
      BY <3>1, <3>2 DEF Learns
  <2>2. CASE k # 1
    <3>1. k - 1 \in DOMAIN r /\ r[k - 1] = q[k]
      BY <1>1, <2>2
    <3>2. ASSUME NEW j \in DOMAIN r, k - 1 < j PROVE ~Erases(r[j], i)
      <4>1. j + 1 \in DOMAIN q /\ r[j] = q[j + 1] /\ k < j + 1
        BY <1>1, <1>3, <3>2
      <4> QED
        BY <4>1, <1>6
    <3>3. Tells(r[k - 1], i)
      BY <3>1, <1>6
    <3> QED
      BY <3>1, <3>2, <3>3 DEF Learns
  <2> QED
    BY <2>1, <2>2
<1> QED
  BY <1>5, <1>6 DEF Learns, r, after

(* Nothing written later takes i back.                                     *)
LEMMA LearnsMore ==
    ASSUME NEW q \in Seq(Message), NEW out \in Seq(Message), NEW view, NEW i,
           \A k \in DOMAIN out : ~Erases(out[k], i), Learns(q, view, i)
    PROVE  Learns(q \o out, view, i)
<1> DEFINE r == q \o out
<1>1. /\ \A k \in DOMAIN q : k \in DOMAIN r /\ r[k] = q[k]
      /\ \A k \in DOMAIN r : \/ k \in DOMAIN q /\ r[k] = q[k]
                             \/ k - Len(q) \in DOMAIN out /\ r[k] = out[k - Len(q)]
  BY Written
<1> HIDE DEF r
<1>2. \A k \in DOMAIN r : Erases(r[k], i) => k \in DOMAIN q /\ r[k] = q[k]
  BY <1>1
<1>3. CASE i \in view /\ \A j \in DOMAIN q : ~Erases(q[j], i)
  BY <1>2, <1>3 DEF Learns, r
<1>4. ASSUME NEW k \in DOMAIN q, Tells(q[k], i), \A j \in DOMAIN q : k < j => ~Erases(q[j], i)
      PROVE  Learns(r, view, i)
  <2>1. k \in DOMAIN r /\ Tells(r[k], i)
    BY <1>1, <1>4
  <2>2. \A j \in DOMAIN r : k < j => ~Erases(r[j], i)
    BY <1>2, <1>4
  <2> QED
    BY <2>1, <2>2 DEF Learns
<1> QED
  BY <1>3, <1>4 DEF Learns, r

(* What is written now is learnt, unless what follows takes it back.       *)
LEMMA LearnsNow ==
    ASSUME NEW q \in Seq(Message), NEW out \in Seq(Message), NEW view, NEW i,
           NEW k \in DOMAIN out, Tells(out[k], i),
           \A j \in DOMAIN out : ~Erases(out[j], i)
    PROVE  Learns(q \o out, view, i)
<1> DEFINE r == q \o out
           here == Len(q) + k
<1>1. /\ \A n \in DOMAIN r : \/ n \in DOMAIN q /\ r[n] = q[n]
                             \/ n - Len(q) \in DOMAIN out /\ r[n] = out[n - Len(q)]
      /\ here \in DOMAIN r /\ r[here] = out[k]
  BY Written
<1>2. DOMAIN q = 1..Len(q) /\ Len(q) \in Nat /\ k \in Nat \ {0}
  BY Indices
<1>3. \A n \in DOMAIN q : ~(here < n)
  BY <1>2
<1> HIDE DEF r, here
<1>4. \A n \in DOMAIN r : here < n => ~Erases(r[n], i)
  BY <1>1, <1>3
<1>5. Tells(r[here], i)
  BY <1>1
<1> QED
  BY <1>1, <1>4, <1>5 DEF Learns, r

-----------------------------------------------------------------------------
(* A step, as one direction of a connection sees it: messages of no type   *)
(* in T are written, or one message is read and taken in.                  *)
Carried(a, b, T) ==
    \/ \E out \in Seq(Message) :
          /\ Free(out, T)
          /\ chan'[a][b] = chan[a][b] \o out
          /\ views'[b][a] = views[b][a]
          /\ peerChoking'[b][a] = peerChoking[b][a]
    \/ /\ chan[a][b] # <<>>
       /\ chan'[a][b] = Tail(chan[a][b])
       /\ views'[b][a] = ViewAfter(Head(chan[a][b]), views[b][a])
       /\ peerChoking'[b][a] = ChokedAfter(Head(chan[a][b]), peerChoking[b][a])

LEMMA CarriedWeaker ==
    ASSUME NEW a, NEW b, NEW T, NEW U, U \subseteq T, Carried(a, b, T)
    PROVE  Carried(a, b, U)
  BY DEF Carried, Free

LEMMA ConcludesCarried ==
    ASSUME TypeOK, NEW a \in Node, NEW b \in Node, Carried(a, b, ChokeTypes),
           amChoking'[a][b] = amChoking[a][b],
           Concludes(chan[a][b], peerChoking[b][a], amChoking[a][b])
    PROVE  Concludes(chan'[a][b], peerChoking'[b][a], amChoking'[a][b])
<1>1. /\ chan[a][b] \in Seq(Message)
      /\ peerChoking[b][a] \in BOOLEAN /\ amChoking[a][b] \in BOOLEAN
  BY DEF TypeOK
<1>2. ASSUME NEW out \in Seq(Message), Free(out, ChokeTypes),
             chan'[a][b] = chan[a][b] \o out, peerChoking'[b][a] = peerChoking[b][a]
      PROVE  Concludes(chan'[a][b], peerChoking'[b][a], amChoking'[a][b])
  BY <1>1, <1>2, ConcludesMore
<1>3. ASSUME chan[a][b] # <<>>, chan'[a][b] = Tail(chan[a][b]),
             peerChoking'[b][a] = ChokedAfter(Head(chan[a][b]), peerChoking[b][a])
      PROVE  Concludes(chan'[a][b], peerChoking'[b][a], amChoking'[a][b])
  BY <1>1, <1>3, ConcludesRead
<1> QED
  BY <1>2, <1>3 DEF Carried

LEMMA LearnsCarried ==
    ASSUME TypeOK, NEW a \in Node, NEW b \in Node, NEW i, Carried(a, b, ClaimTypes),
           Learns(chan[a][b], views[b][a], i)
    PROVE  Learns(chan'[a][b], views'[b][a], i)
<1>1. chan[a][b] \in Seq(Message)
  BY DEF TypeOK
<1>2. ASSUME NEW out \in Seq(Message), Free(out, ClaimTypes),
             chan'[a][b] = chan[a][b] \o out, views'[b][a] = views[b][a]
      PROVE  Learns(chan'[a][b], views'[b][a], i)
  <2>1. \A k \in DOMAIN out : ~Erases(out[k], i)
    BY <1>2 DEF Free, Erases, ClaimTypes
  <2> QED
    BY <1>1, <1>2, <2>1, LearnsMore
<1>3. ASSUME chan[a][b] # <<>>, chan'[a][b] = Tail(chan[a][b]),
             views'[b][a] = ViewAfter(Head(chan[a][b]), views[b][a])
      PROVE  Learns(chan'[a][b], views'[b][a], i)
  BY <1>1, <1>3, LearnsRead
<1> QED
  BY <1>2, <1>3 DEF Carried

-----------------------------------------------------------------------------
(* The steps, direction by direction.                                      *)

AllTypes == ChokeTypes \cup ClaimTypes

(* What a sender writes is on its way whole, unless the loss is recorded.  *)
LEMMA Delivered ==
    ASSUME TypeOK, NEW n \in Node, NEW from \in Node \cup {NoPeer}, NEW out,
           Exchange(n, from, out), NEW a \in Node, NEW b \in Node, <<a, b>> \notin lost'
    PROVE  /\ <<a, b>> \notin lost
           /\ chan'[a][b] = IF a = n THEN chan[a][b] \o out[b]
                            ELSE IF a = from /\ b = n THEN Tail(chan[a][b])
                            ELSE chan[a][b]
<1>1. chan'[a][b] = IF a = n THEN chan[a][b] \o Accepted(a, b, out[b])
                    ELSE IF a = from /\ b = n THEN Tail(chan[a][b])
                    ELSE chan[a][b]
  BY DEF Exchange
<1>2. lost' = lost \cup {<<n, q>> : q \in {x \in Node : Accepted(n, x, out[x]) # out[x]}}
  BY DEF Exchange
<1>3. a = n => Accepted(a, b, out[b]) = out[b]
  BY <1>2
<1> QED
  BY <1>1, <1>2, <1>3

WritesTo(n, b, ms) == chan'[n][b] = chan[n][b] \o ms

LEMMA DeliveredOut ==
    ASSUME NEW n \in Node, NEW out, Exchange(n, NoPeer, out),
           NEW b \in Node, <<n, b>> \notin lost'
    PROVE  WritesTo(n, b, out[b])
<1>1. chan'[n][b] = chan[n][b] \o Accepted(n, b, out[b])
  BY DEF Exchange
<1>2. Accepted(n, b, out[b]) = out[b]
  BY DEF Exchange
<1> QED
  BY <1>1, <1>2 DEF WritesTo

LEMMA FreeEmpty == ASSUME NEW T PROVE <<>> \in Seq(Message) /\ Free(<<>>, T)
  BY EmptySeq DEF Free

LEMMA CarriedStill ==
    ASSUME TypeOK, NEW a \in Node, NEW b \in Node, NEW T, chan'[a][b] = chan[a][b],
           views'[b][a] = views[b][a], peerChoking'[b][a] = peerChoking[b][a]
    PROVE  Carried(a, b, T)
<1>1. chan[a][b] \in Seq(Message)
  BY DEF TypeOK
<1>2. chan[a][b] \o <<>> = chan[a][b]
  BY <1>1, ConcatEmptySeq
<1> QED
  BY <1>2, FreeEmpty DEF Carried

(* Writing without reading.                                                *)
LEMMA WriterCarries ==
    ASSUME TypeOK, NEW n \in Node, NEW out, Exchange(n, NoPeer, out),
           UNCHANGED <<views, peerChoking>>,
           NEW a \in Node, NEW b \in Node, <<a, b>> \notin lost', NEW T,
           a = n => out[b] \in Seq(Message) /\ Free(out[b], T)
    PROVE  Carried(a, b, T)
<1>1. chan'[a][b] = IF a = n THEN chan[a][b] \o out[b] ELSE chan[a][b]
  BY Delivered, NetworkConstants
<1>2. CASE a = n
  BY <1>1, <1>2 DEF Carried
<1>3. CASE a # n
  <2>1. chan'[a][b] = chan[a][b]
    BY <1>1, <1>3
  <2>2. views' = views /\ peerChoking' = peerChoking
    OBVIOUS
  <2> QED
    BY <2>1, <2>2, CarriedStill
<1> QED
  BY <1>2, <1>3

(* A handler takes in what it reads, and writes nothing that claims or     *)
(* chokes.                                                                 *)
LEMMA HandlerCarries ==
    ASSUME TypeOK, NEW n \in Node, NEW p \in Node, n # p, NEW t, Receives(n, p, t),
           NEW out, Exchange(n, p, out),
           \A b \in Node : out[b] \in Seq(Message) /\ Free(out[b], AllTypes),
           views' = [views EXCEPT ![n][p] = ViewAfter(Head(chan[p][n]), views[n][p])],
           peerChoking' =
               [peerChoking EXCEPT ![n][p] = ChokedAfter(Head(chan[p][n]), peerChoking[n][p])],
           NEW a \in Node, NEW b \in Node, <<a, b>> \notin lost'
    PROVE  Carried(a, b, AllTypes)
<1>1. chan'[a][b] = IF a = n THEN chan[a][b] \o out[b]
                    ELSE IF a = p /\ b = n THEN Tail(chan[a][b])
                    ELSE chan[a][b]
  BY Delivered
<1>2. views \in [Node -> [Node -> SUBSET Piece]] /\ peerChoking \in [Node -> [Node -> BOOLEAN]]
  BY DEF TypeOK
<1>3. ~(a = p /\ b = n) => views'[b][a] = views[b][a] /\ peerChoking'[b][a] = peerChoking[b][a]
  BY <1>2
<1>4. CASE a = n
  <2>1. chan'[a][b] = chan[a][b] \o out[b]
    BY <1>1, <1>4
  <2>2. views'[b][a] = views[b][a] /\ peerChoking'[b][a] = peerChoking[b][a]
    BY <1>3, <1>4
  <2> QED
    BY <2>1, <2>2 DEF Carried
<1>5. CASE a = p /\ b = n
  <2>1. chan'[a][b] = Tail(chan[a][b]) /\ chan[a][b] # <<>>
    BY <1>1, <1>5 DEF Receives
  <2>2. /\ views'[b][a] = ViewAfter(Head(chan[a][b]), views[b][a])
        /\ peerChoking'[b][a] = ChokedAfter(Head(chan[a][b]), peerChoking[b][a])
    BY <1>2, <1>5
  <2> QED
    BY <2>1, <2>2 DEF Carried
<1>6. CASE a # n /\ ~(a = p /\ b = n)
  <2>1. chan'[a][b] = chan[a][b]
    BY <1>1, <1>6
  <2> QED
    BY <1>3, <1>6, <2>1, CarriedStill
<1> QED
  BY <1>4, <1>5, <1>6

(* Every handler is such a handler.                                        *)
LEMMA FreeNothing == \A b \in Node : Nothing[b] \in Seq(Message) /\ Free(Nothing[b], AllTypes)
  BY EmptySeq DEF Nothing, Free

LEMMA FreeTo ==
    ASSUME NEW p, NEW ms \in Seq(Message), Free(ms, AllTypes)
    PROVE  \A b \in Node : To(p, ms)[b] \in Seq(Message) /\ Free(To(p, ms)[b], AllTypes)
<1>1. Free(<<>>, AllTypes)
  BY DEF Free
<1> QED
  BY <1>1, EmptySeq DEF To

LEMMA SameView ==
    ASSUME TypeOK, NEW n \in Node, NEW p \in Node, NEW m, m.type \notin ClaimTypes,
           UNCHANGED views
    PROVE  views' = [views EXCEPT ![n][p] = ViewAfter(m, views[n][p])]
<1>1. ViewAfter(m, views[n][p]) = views[n][p]
  BY DEF ViewAfter, ClaimTypes
<1>2. views \in [Node -> [Node -> SUBSET Piece]] /\ views' = views
  BY DEF TypeOK
<1> QED
  BY <1>1, <1>2

LEMMA SameChoking ==
    ASSUME TypeOK, NEW n \in Node, NEW p \in Node, NEW m, m.type \notin ChokeTypes,
           UNCHANGED peerChoking
    PROVE  peerChoking' = [peerChoking EXCEPT ![n][p] = ChokedAfter(m, peerChoking[n][p])]
<1>1. ChokedAfter(m, peerChoking[n][p]) = peerChoking[n][p]
  BY DEF ChokedAfter, ChokeTypes
<1>2. peerChoking \in [Node -> [Node -> BOOLEAN]] /\ peerChoking' = peerChoking
  BY DEF TypeOK
<1> QED
  BY <1>1, <1>2

LEMMA HandleCarries ==
    ASSUME ClaimInv, NEW n \in Node, NEW p \in Node, n # p, Handle(n, p),
           NEW a \in Node, NEW b \in Node, <<a, b>> \notin lost'
    PROVE  Carried(a, b, AllTypes)
<1> DEFINE m == Head(chan[p][n])
<1>0. TypeOK
  BY DEF ClaimInv
<1>1. CASE HandleInterested(n, p) \/ RejectPiece(n, p) \/ StorePiece(n, p)
  <2>1. PICK t \in {"interested", "piece"} : Receives(n, p, t)
    BY <1>1 DEF HandleInterested, RejectPiece, StorePiece
  <2>2. /\ Exchange(n, p, Nothing)
        /\ UNCHANGED <<views, peerChoking>>
    BY <1>1 DEF HandleInterested, RejectPiece, StorePiece, chokeVars
  <2>3. m.type \notin AllTypes
    BY <2>1 DEF Receives, AllTypes, ChokeTypes, ClaimTypes
  <2>4. /\ views' = [views EXCEPT ![n][p] = ViewAfter(m, views[n][p])]
        /\ peerChoking' = [peerChoking EXCEPT ![n][p] = ChokedAfter(m, peerChoking[n][p])]
    BY <1>0, <2>2, <2>3, SameView, SameChoking DEF AllTypes
  <2> QED
    BY <1>0, <2>1, <2>2, <2>4, FreeNothing, HandlerCarries
<1>2. CASE HandleChoke(n, p)
  <2>1. Receives(n, p, "choke") /\ Exchange(n, p, Nothing) /\ UNCHANGED views
    BY <1>2 DEF HandleChoke
  <2>2. m.type = "choke"
    BY <2>1 DEF Receives
  <2>3. views' = [views EXCEPT ![n][p] = ViewAfter(m, views[n][p])]
    BY <1>0, <2>1, <2>2, SameView DEF ClaimTypes
  <2>4. peerChoking' = [peerChoking EXCEPT ![n][p] = ChokedAfter(m, peerChoking[n][p])]
    BY <1>2, <2>2 DEF HandleChoke, ChokedAfter
  <2> QED
    BY <1>0, <2>1, <2>3, <2>4, FreeNothing, HandlerCarries
<1>3. CASE HandleUnchoke(n, p)
  <2> DEFINE ps == pending[n][p]
  <2>1. Receives(n, p, "unchoke") /\ Exchange(n, p, To(p, Requests(ps))) /\ UNCHANGED views
    BY <1>3 DEF HandleUnchoke
  <2>2. m.type = "unchoke"
    BY <2>1 DEF Receives
  <2>3. views' = [views EXCEPT ![n][p] = ViewAfter(m, views[n][p])]
    BY <1>0, <2>1, <2>2, SameView DEF ClaimTypes
  <2>4. peerChoking' = [peerChoking EXCEPT ![n][p] = ChokedAfter(m, peerChoking[n][p])]
    BY <1>3, <2>2 DEF HandleUnchoke, ChokedAfter
  <2>5. ps \in Seq(Piece)
    BY <1>0 DEF TypeOK
  <2>6. \A k \in DOMAIN ps : RequestMsg(ps[k]) \in Message
    BY <2>5, LenProperties, ElementOfSeq, Constructors
  <2> HIDE DEF ps
  <2>7. Requests(ps) \in Seq(Message)
    BY <2>5, <2>6, RequestsSeq
  <2>8. Free(Requests(ps), AllTypes)
    BY DEF Free, Requests, RequestMsg, AllTypes, ChokeTypes, ClaimTypes
  <2>9. \A c \in Node : /\ To(p, Requests(ps))[c] \in Seq(Message)
                        /\ Free(To(p, Requests(ps))[c], AllTypes)
    BY <2>7, <2>8, FreeTo
  <2> QED
    BY <1>0, <2>1, <2>3, <2>4, <2>9, HandlerCarries
<1>4. CASE HandleHave(n, p)
  <2>1. Receives(n, p, "have") /\ Exchange(n, p, Nothing) /\ UNCHANGED peerChoking
    BY <1>4 DEF HandleHave, chokeVars
  <2>2. m.type = "have"
    BY <2>1 DEF Receives
  <2>3. peerChoking' = [peerChoking EXCEPT ![n][p] = ChokedAfter(m, peerChoking[n][p])]
    BY <1>0, <2>1, <2>2, SameChoking DEF ChokeTypes
  <2>4. views' = [views EXCEPT ![n][p] = ViewAfter(m, views[n][p])]
    BY <1>4, <2>2 DEF HandleHave, ViewAfter
  <2> QED
    BY <1>0, <2>1, <2>3, <2>4, FreeNothing, HandlerCarries
<1>5. CASE HandleBitfield(n, p)
  <2>1. Receives(n, p, "bitfield") /\ UNCHANGED peerChoking
    BY <1>5 DEF HandleBitfield, chokeVars
  <2>2. m.type = "bitfield"
    BY <2>1 DEF Receives
  <2>3. peerChoking' = [peerChoking EXCEPT ![n][p] = ChokedAfter(m, peerChoking[n][p])]
    BY <1>0, <2>1, <2>2, SameChoking DEF ChokeTypes
  <2>4. views' = [views EXCEPT ![n][p] = ViewAfter(m, views[n][p])]
    BY <1>5, <2>2 DEF HandleBitfield, ViewAfter
  <2>5. Exchange(n, p, Nothing) \/ Exchange(n, p, To(p, <<InterestedMsg>>))
    BY <1>5 DEF HandleBitfield
  <2>6. <<InterestedMsg>> \in Seq(Message)
    BY Constructors, OneMessage
  <2>7. Free(<<InterestedMsg>>, AllTypes)
    BY DEF Free, InterestedMsg, AllTypes, ChokeTypes, ClaimTypes
  <2>8. \A c \in Node : /\ To(p, <<InterestedMsg>>)[c] \in Seq(Message)
                        /\ Free(To(p, <<InterestedMsg>>)[c], AllTypes)
    BY <2>6, <2>7, FreeTo
  <2>9. CASE Exchange(n, p, Nothing)
    BY <1>0, <2>1, <2>3, <2>4, <2>9, FreeNothing, HandlerCarries
  <2>10. CASE Exchange(n, p, To(p, <<InterestedMsg>>))
    BY <1>0, <2>1, <2>3, <2>4, <2>8, <2>10, HandlerCarries
  <2> QED
    BY <2>5, <2>9, <2>10
<1>6. CASE HandleRequest(n, p)
  <2> DEFINE i == m.piece
             piece == <<PieceMsg(i, store[n][i])>>
  <2>1. Receives(n, p, "request") /\ UNCHANGED <<views, peerChoking>>
    BY <1>6 DEF HandleRequest, chokeVars
  <2>2. m.type \notin AllTypes
    BY <2>1 DEF Receives, AllTypes, ChokeTypes, ClaimTypes
  <2>3. /\ views' = [views EXCEPT ![n][p] = ViewAfter(m, views[n][p])]
        /\ peerChoking' = [peerChoking EXCEPT ![n][p] = ChokedAfter(m, peerChoking[n][p])]
    BY <1>0, <2>1, <2>2, SameView, SameChoking DEF AllTypes
  <2>4. CASE ~amChoking[n][p] /\ i \in Held(n)
    <3>1. Exchange(n, p, To(p, piece))
      BY <1>6, <2>4 DEF HandleRequest
    <3>2. i \in Piece /\ store[n][i] \in Data
      <4>1. i \in Piece /\ store[n][i] # NoData
        BY <2>4 DEF Held
      <4>2. store \in [Node -> [Piece -> Data \cup {NoData}]]
        BY <1>0 DEF TypeOK
      <4> QED
        BY <4>1, <4>2
    <3>3. piece \in Seq(Message)
      BY <3>2, Constructors, OneMessage
    <3>4. Free(piece, AllTypes)
      BY DEF Free, PieceMsg, AllTypes, ChokeTypes, ClaimTypes
    <3> HIDE DEF piece
    <3>5. \A c \in Node : To(p, piece)[c] \in Seq(Message) /\ Free(To(p, piece)[c], AllTypes)
      BY <3>3, <3>4, FreeTo
    <3> QED
      BY <1>0, <2>1, <2>3, <3>1, <3>5, HandlerCarries
  <2>5. CASE ~(~amChoking[n][p] /\ i \in Held(n))
    <3>1. Exchange(n, p, Nothing)
      BY <1>6, <2>5 DEF HandleRequest
    <3> QED
      BY <1>0, <2>1, <2>3, <3>1, FreeNothing, HandlerCarries
  <2> QED
    BY <2>4, <2>5
<1> QED
  BY <1>1, <1>2, <1>3, <1>4, <1>5, <1>6 DEF Handle

-----------------------------------------------------------------------------
LEMMA ApartStep == AgreeInv /\ [Next]_vars => Apart'
<1> SUFFICES ASSUME AgreeInv, [Next]_vars PROVE Apart'
  OBVIOUS
<1>0. Apart /\ peers \in [Node -> SUBSET Node] /\ joinPeer \in [Node -> Node \cup {NoPeer}]
  BY DEF AgreeInv, ClaimInv, TypeOK
<1>1. CASE UNCHANGED <<peers, joinPeer>>
  BY <1>0, <1>1 DEF Apart
<1>2. ASSUME NEW n \in Node, NEW p \in Node, OnPeerRegister(n, p) PROVE Apart'
  <2>1. n # p
    <3>1. PICK a, b \in Node : a # b /\ {n, p} = {a, b}
      BY <1>2, NetworkConstants DEF OnPeerRegister
    <3>2. a \in {n, p} /\ b \in {n, p}
      BY <3>1
    <3> QED
      BY <3>1, <3>2
  <2>2. /\ peers' = [peers EXCEPT ![n] = @ \cup {p}]
        /\ joinPeer' = [joinPeer EXCEPT ![n] = p]
    BY <1>2 DEF OnPeerRegister
  <2> QED
    BY <1>0, <2>1, <2>2 DEF Apart
<1>3. ASSUME NEW n \in Node, OnPeerSend(n) PROVE Apart'
  <2>1. peers' = peers /\ joinPeer' = [joinPeer EXCEPT ![n] = NoPeer]
    BY <1>3 DEF OnPeerSend
  <2> QED
    BY <1>0, <2>1 DEF Apart
<1>4. ASSUME NEW n \in Node, NEW p \in Node, CloseEnd(n, p) \/ Handle(n, p)
      PROVE  UNCHANGED <<peers, joinPeer>>
  BY <1>4 DEF CloseEnd, Handle, HandleInterested, HandleChoke, HandleUnchoke, HandleHave,
     HandleBitfield, HandleRequest, RejectPiece, StorePiece, swarmVars
<1>5. ASSUME NEW n \in Node, Announce(n) \/ Round(n) PROVE UNCHANGED <<peers, joinPeer>>
  BY <1>5 DEF Announce, AnnounceProgress, AnnounceComplete, Round, UnchokeRound, swarmVars
<1>6. UNCHANGED vars => UNCHANGED <<peers, joinPeer>>
  BY DEF vars, swarmVars
<1> QED
  BY <1>1, <1>2, <1>3, <1>4, <1>5, <1>6 DEF Next

(* Steps that write no message of their own.                               *)
LEMMA OtherCarries ==
    ASSUME TypeOK, NEW T, NEW a \in Node, NEW b \in Node, <<a, b>> \notin lost',
           \/ UNCHANGED vars
           \/ \E n, p \in Node : OnPeerRegister(n, p) \/ CloseEnd(n, p)
    PROVE  Carried(a, b, T)
<1>1. CASE UNCHANGED vars \/ \E n, p \in Node : OnPeerRegister(n, p)
  <2>1. UNCHANGED <<chan, views, peerChoking>>
    BY <1>1 DEF vars, wireVars, chokeVars, OnPeerRegister
  <2> QED
    BY <2>1, CarriedStill
<1>2. ASSUME NEW n \in Node, NEW p \in Node, CloseEnd(n, p) PROVE Carried(a, b, T)
  <2>1. UNCHANGED <<views, peerChoking>> /\ lost' = lost \cup {<<n, p>>, <<p, n>>}
    BY <1>2 DEF CloseEnd, chokeVars
  <2>2. PICK j \in 0..Len(chan[n][p]), k \in 0..Len(chan[p][n]) :
          chan' = [chan EXCEPT ![n][p] = SubSeq(@, 1, j), ![p][n] = SubSeq(@, 1, k)]
    BY <1>2 DEF CloseEnd
  <2>3. ~(a = n /\ b = p) /\ ~(a = p /\ b = n)
    BY <2>1
  <2>4. chan'[a][b] = chan[a][b]
    BY <2>2, <2>3 DEF TypeOK
  <2> QED
    BY <2>1, <2>4, CarriedStill
<1> QED
  BY <1>1, <1>2

(* Announcing writes no choke message, and choking announces nothing.      *)
LEMMA AnnounceCarries ==
    ASSUME TypeOK, NEW n \in Node, OnPeerSend(n) \/ (Announce(n) /\ AnnouncingHeld),
           NEW a \in Node, NEW b \in Node, <<a, b>> \notin lost'
    PROVE  Carried(a, b, ChokeTypes)
<1>1. UNCHANGED <<views, peerChoking>>
  BY DEF OnPeerSend, Announce, AnnounceProgress, AnnounceComplete, chokeVars
<1>2. ASSUME NEW ms \in Seq(Message), Free(ms, ChokeTypes), NEW S, NEW out,
             out = [q \in Node |-> IF q \in S THEN ms ELSE <<>>], Exchange(n, NoPeer, out)
      PROVE  Carried(a, b, ChokeTypes)
  <2>1. out[b] \in Seq(Message) /\ Free(out[b], ChokeTypes)
    BY <1>2, EmptySeq DEF Free
  <2> QED
    BY <1>1, <1>2, <2>1, WriterCarries
<1>3. CASE OnPeerSend(n)
  <2> DEFINE ms == <<BitfieldMsg(joinBits[n])>>
  <2>1. ms \in Seq(Message)
    BY Constructors, OneMessage DEF TypeOK
  <2>2. Free(ms, ChokeTypes)
    BY DEF Free, BitfieldMsg, ChokeTypes
  <2>3. Exchange(n, NoPeer, To(joinPeer[n], ms))
    BY <1>3 DEF OnPeerSend
  <2> HIDE DEF ms
  <2>4. To(joinPeer[n], ms) = [q \in Node |-> IF q \in {joinPeer[n]} THEN ms ELSE <<>>]
    BY DEF To
  <2> QED
    BY <1>2, <2>1, <2>2, <2>3, <2>4
<1>4. CASE Announce(n) /\ AnnouncingHeld
  <2>1. announcing[n] \in Piece /\ Held(n) \in SUBSET Piece
    BY <1>4 DEF Announce, AnnounceProgress, AnnounceComplete, TypeOK, Held
  <2>2. PICK ms \in {<<HaveMsg(announcing[n])>>,
                     <<HaveMsg(announcing[n]), BitfieldMsg(Held(n))>>} :
          Exchange(n, NoPeer, ToAll(peers[n], ms))
    BY <1>4 DEF Announce, AnnounceProgress, AnnounceComplete
  <2>3. ms \in Seq(Message)
    BY <2>1, <2>2, Constructors, OneMessage, TwoMessages
  <2>4. Free(ms, ChokeTypes)
    BY <2>2 DEF Free, BitfieldMsg, HaveMsg, ChokeTypes
  <2> QED
    BY <1>2, <2>2, <2>3, <2>4 DEF ToAll
<1> QED
  BY <1>3, <1>4

RoundMessages(n) ==
    [p \in Node |-> IF amChoking'[n][p] = amChoking[n][p] THEN <<>>
                    ELSE IF amChoking'[n][p] THEN <<ChokeMsg>> ELSE <<UnchokeMsg>>]

LEMMA RoundSends ==
    ASSUME TypeOK, NEW n \in Node, Round(n)
    PROVE  /\ Exchange(n, NoPeer, RoundMessages(n))
           /\ UNCHANGED <<store, announcing, peers, joinPeer, joinBits, views, peerChoking>>
           /\ \A a \in Node : a # n => amChoking'[a] = amChoking[a]
           /\ amChoking' \in [Node -> [Node -> BOOLEAN]]
           /\ \A b \in Node : RoundMessages(n)[b] \in Seq(Message)
<1>1. PICK opt : UnchokeRound(n, opt)
  BY DEF Round
<1>2. /\ Exchange(n, NoPeer, RoundMessages(n))
      /\ UNCHANGED <<store, announcing, peers, joinPeer, joinBits, views, peerChoking>>
  BY <1>1 DEF UnchokeRound, RoundMessages, fileVars, swarmVars
<1>3. PICK S : amChoking' = [amChoking EXCEPT ![n] = [p \in Node |->
                        IF p \in peers[n] THEN p \notin S ELSE amChoking[n][p]]]
  BY <1>1 DEF UnchokeRound
<1>4. \A a \in Node : a # n => amChoking'[a] = amChoking[a]
  BY <1>3 DEF TypeOK
<1>5. amChoking \in [Node -> [Node -> BOOLEAN]]
  BY DEF TypeOK
<1>6. [p \in Node |-> IF p \in peers[n] THEN p \notin S ELSE amChoking[n][p]] \in [Node -> BOOLEAN]
  BY <1>5
<1>7. amChoking' \in [Node -> [Node -> BOOLEAN]]
  BY <1>3, <1>5, <1>6
<1>8. <<ChokeMsg>> \in Seq(Message) /\ <<UnchokeMsg>> \in Seq(Message)
  BY Constructors, OneMessage
<1>9. \A b \in Node : RoundMessages(n)[b] \in Seq(Message)
  BY <1>8, EmptySeq DEF RoundMessages
<1> QED
  BY <1>2, <1>4, <1>7, <1>9

-----------------------------------------------------------------------------
(* Choking.                                                                *)

LEMMA ConcludesRound ==
    ASSUME TypeOK, ChokesConclude, NEW n \in Node, Round(n) PROVE ChokesConclude'
<1> SUFFICES ASSUME NEW a \in Node, NEW b \in Node, a # b, <<a, b>> \notin lost'
             PROVE  Concludes(chan'[a][b], peerChoking'[b][a], amChoking'[a][b])
  BY DEF ChokesConclude, Intact
<1>1. /\ Exchange(n, NoPeer, RoundMessages(n)) /\ UNCHANGED <<views, peerChoking>>
      /\ \A c \in Node : c # n => amChoking'[c] = amChoking[c]
      /\ amChoking' \in [Node -> [Node -> BOOLEAN]]
      /\ \A c \in Node : RoundMessages(n)[c] \in Seq(Message)
  BY RoundSends
<1>2. <<a, b>> \notin lost
  BY <1>1, Delivered, NetworkConstants
<1>3. Concludes(chan[a][b], peerChoking[b][a], amChoking[a][b])
  BY <1>2 DEF ChokesConclude, Intact
<1>4. CASE a # n \/ amChoking'[n][b] = amChoking[n][b]
  <2>1. a = n => Free(RoundMessages(n)[b], ChokeTypes)
    BY <1>4 DEF RoundMessages, Free
  <2>2. Carried(a, b, ChokeTypes)
    BY <1>1, <2>1, WriterCarries
  <2>3. amChoking'[a][b] = amChoking[a][b]
    BY <1>1, <1>4
  <2> QED
    BY <1>3, <2>2, <2>3, ConcludesCarried
<1>5. CASE a = n /\ amChoking'[n][b] # amChoking[n][b]
  <2> DEFINE m == IF amChoking'[n][b] THEN ChokeMsg ELSE UnchokeMsg
  <2>1. RoundMessages(n)[b] = <<m>>
    BY <1>5 DEF RoundMessages
  <2>2. chan'[a][b] = chan[a][b] \o <<m>>
    <3>1. chan'[a][b] = chan[a][b] \o RoundMessages(n)[b]
      BY <1>1, <1>5, DeliveredOut DEF WritesTo
    <3> HIDE DEF m
    <3> QED
      BY <2>1, <3>1
  <2>3. m \in Message
    BY Constructors
  <2>4. m.type \in ChokeTypes /\ (m.type = "choke" <=> amChoking'[n][b])
    BY DEF ChokeMsg, UnchokeMsg, ChokeTypes
  <2>5. chan[a][b] \in Seq(Message) /\ peerChoking[b][a] \in BOOLEAN /\ peerChoking' = peerChoking
    BY <1>1 DEF TypeOK
  <2> HIDE DEF m
  <2>6. Concludes(chan[a][b] \o <<m>>, peerChoking[b][a], m.type = "choke")
    BY <2>3, <2>4, <2>5, ConcludesNow
  <2>7. Concludes(chan[a][b] \o <<m>>, peerChoking[b][a], amChoking'[a][b])
    BY <1>5, <2>4, <2>6 DEF Concludes
  <2> QED
    BY <2>2, <2>5, <2>7
<1> QED
  BY <1>4, <1>5

LEMMA ConcludesStep == AgreeInv /\ [Next]_vars => ChokesConclude'
<1> SUFFICES ASSUME AgreeInv, [Next]_vars PROVE ChokesConclude'
  OBVIOUS
<1>0. TypeOK /\ ClaimInv /\ Apart /\ ChokesConclude /\ AnnouncingHeld
  BY DEF AgreeInv, ClaimInv, NoOverclaim
<1>1. ASSUME NEW n \in Node, Round(n) PROVE ChokesConclude'
  BY <1>0, <1>1, ConcludesRound
<1>2. ASSUME UNCHANGED amChoking, lost \subseteq lost',
             \A a, b \in Node : <<a, b>> \notin lost' => Carried(a, b, ChokeTypes)
      PROVE  ChokesConclude'
  <2> SUFFICES ASSUME NEW a \in Node, NEW b \in Node, a # b, <<a, b>> \notin lost'
               PROVE  Concludes(chan'[a][b], peerChoking'[b][a], amChoking'[a][b])
    BY DEF ChokesConclude, Intact
  <2>1. Concludes(chan[a][b], peerChoking[b][a], amChoking[a][b])
    BY <1>0, <1>2 DEF ChokesConclude, Intact
  <2>2. Carried(a, b, ChokeTypes) /\ amChoking'[a][b] = amChoking[a][b]
    BY <1>2
  <2> QED
    BY <1>0, <2>1, <2>2, ConcludesCarried
<1>3. CASE UNCHANGED vars \/ \E n, p \in Node : OnPeerRegister(n, p) \/ CloseEnd(n, p)
  <2>1. \A a, b \in Node : <<a, b>> \notin lost' => Carried(a, b, ChokeTypes)
    BY <1>0, <1>3, OtherCarries
  <2>2. UNCHANGED amChoking /\ lost \subseteq lost'
    BY <1>3 DEF vars, OnPeerRegister, CloseEnd, chokeVars, wireVars
  <2> QED
    BY <1>2, <2>1, <2>2
<1>4. ASSUME NEW n \in Node, NEW p \in Node, Handle(n, p) PROVE ChokesConclude'
  <2>1. p \in peers[n]
    BY <1>4 DEF Handle, HandleInterested, HandleChoke, HandleUnchoke, HandleHave,
       HandleBitfield, HandleRequest, RejectPiece, StorePiece, Receives
  <2>2. n # p
    BY <1>0, <2>1 DEF Apart
  <2>3. \A a, b \in Node : <<a, b>> \notin lost' => Carried(a, b, AllTypes)
    BY <1>0, <1>4, <2>2, HandleCarries
  <2>4. \A a, b \in Node : <<a, b>> \notin lost' => Carried(a, b, ChokeTypes)
    BY <2>3, CarriedWeaker DEF AllTypes
  <2>5. UNCHANGED amChoking /\ lost \subseteq lost'
    BY <1>4 DEF Handle, HandleInterested, HandleChoke, HandleUnchoke, HandleHave,
       HandleBitfield, HandleRequest, RejectPiece, StorePiece, chokeVars, Exchange
  <2> QED
    BY <1>2, <2>4, <2>5
<1>5. ASSUME NEW n \in Node, OnPeerSend(n) \/ Announce(n) PROVE ChokesConclude'
  <2>1. \A a, b \in Node : <<a, b>> \notin lost' => Carried(a, b, ChokeTypes)
    BY <1>0, <1>5, AnnounceCarries
  <2>2. UNCHANGED amChoking /\ lost \subseteq lost'
    BY <1>5 DEF OnPeerSend, Announce, AnnounceProgress, AnnounceComplete, chokeVars, Exchange
  <2> QED
    BY <1>2, <2>1, <2>2
<1> QED
  BY <1>1, <1>3, <1>4, <1>5 DEF Next

-----------------------------------------------------------------------------
(* Pieces.                                                                 *)

(* What a knows and has not to announce, and b is to learn from it.        *)
Due(a, i) == i \in Held(a) /\ i # announcing[a]

LEMMA LearntRegister ==
    ASSUME AgreeInv, NEW n \in Node, NEW p \in Node, OnPeerRegister(n, p) PROVE PiecesLearnt'
<1>0. TypeOK /\ PiecesLearnt
  BY DEF AgreeInv, ClaimInv
<1>1. /\ peers' = [peers EXCEPT ![n] = @ \cup {p}]
      /\ joinPeer' = [joinPeer EXCEPT ![n] = p]
      /\ joinBits' = [joinBits EXCEPT ![n] = Held(n)]
      /\ joinPeer[n] = NoPeer
      /\ UNCHANGED <<store, announcing, views, chan, lost>>
  BY DEF OnPeerRegister, fileVars, wireVars
<1>2. /\ peers \in [Node -> SUBSET Node]
      /\ joinPeer \in [Node -> Node \cup {NoPeer}]
      /\ joinBits \in [Node -> SUBSET Piece]
  BY <1>0 DEF TypeOK
<1> SUFFICES ASSUME NEW a \in Node, NEW b \in Node, Intact(a, b)', b \in peers'[a],
                    NEW i \in Held(a)' \ {announcing'[a]}
             PROVE  IF joinPeer'[a] = b THEN i \in joinBits'[a]
                    ELSE Learns(chan'[a][b], views'[b][a], i)
  BY DEF PiecesLearnt
<1>3. i \in Held(a) \ {announcing[a]} /\ Intact(a, b)
  BY <1>1 DEF Held, Intact
<1>4. CASE a = n /\ b = p
  BY <1>1, <1>2, <1>3, <1>4
<1>5. CASE a = n /\ b # p
  <2>1. b \in peers[a] /\ joinPeer[a] # b /\ joinPeer'[a] # b
    BY <1>1, <1>2, <1>5, NetworkConstants
  <2>2. Learns(chan[a][b], views[b][a], i)
    BY <1>0, <1>3, <2>1 DEF PiecesLearnt
  <2> QED
    BY <1>1, <2>1, <2>2
<1>6. CASE a # n
  <2>1. b \in peers[a] /\ joinPeer'[a] = joinPeer[a] /\ joinBits'[a] = joinBits[a]
    BY <1>1, <1>2, <1>6
  <2>2. IF joinPeer[a] = b THEN i \in joinBits[a] ELSE Learns(chan[a][b], views[b][a], i)
    BY <1>0, <1>3, <2>1 DEF PiecesLearnt
  <2> QED
    BY <1>1, <2>1, <2>2
<1> QED
  BY <1>4, <1>5, <1>6

(* A step that neither joins nor announces.                                *)
LEMMA LearntStays ==
    ASSUME AgreeInv, UNCHANGED <<peers, joinPeer, joinBits>>, lost \subseteq lost',
           \A a, b \in Node : <<a, b>> \notin lost' => Carried(a, b, ClaimTypes),
           \A a \in Node, i \in Piece : Due(a, i)' => Due(a, i)
    PROVE  PiecesLearnt'
<1>0. TypeOK /\ PiecesLearnt
  BY DEF AgreeInv, ClaimInv
<1> SUFFICES ASSUME NEW a \in Node, NEW b \in Node, Intact(a, b)', b \in peers'[a],
                    NEW i \in Held(a)' \ {announcing'[a]}
             PROVE  IF joinPeer'[a] = b THEN i \in joinBits'[a]
                    ELSE Learns(chan'[a][b], views'[b][a], i)
  BY DEF PiecesLearnt
<1>1. i \in Piece /\ Due(a, i)'
  BY DEF Due, Held
<1>2. i \in Held(a) \ {announcing[a]}
  BY <1>1 DEF Due
<1>3. Intact(a, b) /\ Carried(a, b, ClaimTypes) /\ b \in peers[a]
  BY DEF Intact
<1>4. IF joinPeer[a] = b THEN i \in joinBits[a] ELSE Learns(chan[a][b], views[b][a], i)
  BY <1>0, <1>2, <1>3 DEF PiecesLearnt
<1>5. CASE joinPeer[a] = b
  BY <1>4, <1>5
<1>6. CASE joinPeer[a] # b
  <2>1. Learns(chan'[a][b], views'[b][a], i)
    BY <1>0, <1>3, <1>4, <1>6, LearnsCarried
  <2> QED
    BY <1>6, <2>1
<1> QED
  BY <1>5, <1>6

LEMMA LearntSend ==
    ASSUME AgreeInv, NEW n \in Node, OnPeerSend(n) PROVE PiecesLearnt'
<1> DEFINE p == joinPeer[n]
           ms == <<BitfieldMsg(joinBits[n])>>
<1>0. TypeOK /\ PiecesLearnt
  BY DEF AgreeInv, ClaimInv
<1>1. /\ Exchange(n, NoPeer, To(p, ms))
      /\ p # NoPeer
      /\ joinPeer' = [joinPeer EXCEPT ![n] = NoPeer]
      /\ joinBits' = [joinBits EXCEPT ![n] = {}]
      /\ UNCHANGED <<store, announcing, peers, views, peerChoking>>
  BY DEF OnPeerSend, fileVars, chokeVars
<1>2. /\ joinPeer \in [Node -> Node \cup {NoPeer}]
      /\ joinBits \in [Node -> SUBSET Piece]
      /\ \A a, b \in Node : chan[a][b] \in Seq(Message)
  BY <1>0 DEF TypeOK
<1>3. ms \in Seq(Message)
  BY <1>2, Constructors, OneMessage
<1> SUFFICES ASSUME NEW a \in Node, NEW b \in Node, Intact(a, b)', b \in peers'[a],
                    NEW i \in Held(a)' \ {announcing'[a]}
             PROVE  IF joinPeer'[a] = b THEN i \in joinBits'[a]
                    ELSE Learns(chan'[a][b], views'[b][a], i)
  BY DEF PiecesLearnt
<1>4. i \in Held(a) \ {announcing[a]} /\ b \in peers[a] /\ <<a, b>> \notin lost'
  BY <1>1 DEF Held, Intact
<1>5. Intact(a, b)
  BY <1>1, <1>4, Delivered, <1>0, NetworkConstants DEF Intact
<1>6. IF joinPeer[a] = b THEN i \in joinBits[a] ELSE Learns(chan[a][b], views[b][a], i)
  BY <1>0, <1>4, <1>5 DEF PiecesLearnt
<1>7. CASE a = n /\ b = p
  <2>1. joinPeer'[a] # b
    BY <1>1, <1>2, <1>7, NetworkConstants
  <2>2. chan'[a][b] = chan[a][b] \o To(p, ms)[b]
    <3> HIDE DEF p, ms
    <3>1. <<n, b>> \notin lost' /\ Exchange(n, NoPeer, To(p, ms))
      BY <1>1, <1>4, <1>7
    <3>2. WritesTo(n, b, To(p, ms)[b])
      BY <3>1, DeliveredOut
    <3> QED
      BY <1>7, <3>2 DEF WritesTo
  <2>3. To(p, ms)[b] = ms
    BY <1>7 DEF To
  <2>4. i \in joinBits[n]
    BY <1>6, <1>7
  <2>5. DOMAIN ms = {1} /\ ms[1] = BitfieldMsg(joinBits[n])
    OBVIOUS
  <2>6. Tells(BitfieldMsg(joinBits[n]), i) /\ ~Erases(BitfieldMsg(joinBits[n]), i)
    BY <2>4 DEF Tells, Erases, BitfieldMsg, ClaimTypes
  <2> HIDE DEF ms
  <2>7. Learns(chan[a][b] \o ms, views[b][a], i)
    BY <1>2, <1>3, <2>5, <2>6, LearnsNow
  <2> QED
    BY <1>1, <2>1, <2>2, <2>3, <2>7
<1>8. CASE ~(a = n /\ b = p)
  <2>1. joinPeer'[a] = b => joinPeer[a] = b /\ a # n
    BY <1>1, <1>2, NetworkConstants
  <2>2. joinPeer[a] = b => joinPeer'[a] = b /\ joinBits'[a] = joinBits[a]
    BY <1>1, <1>2, <1>8
  <2>3. a = n => To(p, ms)[b] = <<>>
    BY <1>8 DEF To
  <2>4. a = n => To(p, ms)[b] \in Seq(Message) /\ Free(To(p, ms)[b], ClaimTypes)
    BY <2>3, FreeEmpty
  <2>5. Carried(a, b, ClaimTypes)
    BY <1>0, <1>1, <1>4, <2>4, WriterCarries
  <2>6. CASE joinPeer[a] = b
    BY <1>6, <2>2, <2>6
  <2>7. CASE joinPeer[a] # b
    <3>1. Learns(chan'[a][b], views'[b][a], i)
      BY <1>0, <1>6, <2>5, <2>7, LearnsCarried
    <3> QED
      BY <2>1, <2>7, <3>1
  <2> QED
    BY <2>6, <2>7
<1> QED
  BY <1>7, <1>8

LEMMA LearntAnnounce ==
    ASSUME AgreeInv, NEW n \in Node, Announce(n) PROVE PiecesLearnt'
<1> DEFINE x == announcing[n]
           have == <<HaveMsg(x)>>
           both == <<HaveMsg(x), BitfieldMsg(Held(n))>>
<1>0. TypeOK /\ PiecesLearnt
  BY DEF AgreeInv, ClaimInv
<1>1. /\ joinPeer[n] = NoPeer
      /\ announcing' = [announcing EXCEPT ![n] = NoPiece]
      /\ UNCHANGED <<store, peers, joinPeer, joinBits, views, peerChoking>>
  BY DEF Announce, AnnounceProgress, AnnounceComplete, swarmVars, chokeVars, SwarmLocked
<1>2. PICK ms \in {have, both} : Exchange(n, NoPeer, ToAll(peers[n], ms))
  BY DEF Announce, AnnounceProgress, AnnounceComplete
<1>3. /\ x \in Piece /\ Held(n) \in SUBSET Piece
      /\ announcing \in [Node -> Piece \cup {NoPiece}]
      /\ \A a, b \in Node : chan[a][b] \in Seq(Message)
  BY <1>0 DEF Announce, AnnounceProgress, AnnounceComplete, TypeOK, Held
<1>4. have \in Seq(Message) /\ both \in Seq(Message)
  BY <1>3, Constructors, OneMessage, TwoMessages
<1>5. /\ DOMAIN have = {1} /\ have[1] = HaveMsg(x)
      /\ DOMAIN both = {1, 2} /\ both[1] = HaveMsg(x) /\ both[2] = BitfieldMsg(Held(n))
  OBVIOUS
<1>6. Tells(HaveMsg(x), x) /\ \A i : ~Erases(HaveMsg(x), i)
  BY DEF Tells, Erases, HaveMsg, ClaimTypes
<1>7. \A i \in Held(n) : Tells(BitfieldMsg(Held(n)), i) /\ ~Erases(BitfieldMsg(Held(n)), i)
  BY DEF Tells, Erases, BitfieldMsg, ClaimTypes
<1> HIDE DEF have, both
<1>8. ms \in Seq(Message) /\ 1 \in DOMAIN ms /\ ms[1] = HaveMsg(x)
  BY <1>2, <1>4, <1>5
<1>9. \A i \in Held(n) : \A k \in DOMAIN ms : ~Erases(ms[k], i)
  BY <1>2, <1>5, <1>6, <1>7
<1> SUFFICES ASSUME NEW a \in Node, NEW b \in Node, Intact(a, b)', b \in peers'[a],
                    NEW i \in Held(a)' \ {announcing'[a]}
             PROVE  IF joinPeer'[a] = b THEN i \in joinBits'[a]
                    ELSE Learns(chan'[a][b], views'[b][a], i)
  BY DEF PiecesLearnt
<1>10. i \in Held(a) /\ b \in peers[a] /\ <<a, b>> \notin lost'
  BY <1>1 DEF Held, Intact
<1>11. Intact(a, b)
  BY <1>0, <1>2, <1>10, Delivered, NetworkConstants DEF Intact
<1>12. i # announcing[a] =>
          IF joinPeer[a] = b THEN i \in joinBits[a] ELSE Learns(chan[a][b], views[b][a], i)
  BY <1>0, <1>10, <1>11 DEF PiecesLearnt
<1>13. CASE a = n
  <2>1. chan'[a][b] = chan[a][b] \o ms
    <3>1. ToAll(peers[n], ms)[b] = ms
      BY <1>10, <1>13 DEF ToAll
    <3>2. chan'[a][b] = chan[a][b] \o ToAll(peers[n], ms)[b]
      <4>1. <<n, b>> \notin lost' /\ Exchange(n, NoPeer, ToAll(peers[n], ms))
        BY <1>2, <1>10, <1>13
      <4>2. WritesTo(n, b, ToAll(peers[n], ms)[b])
        BY <4>1, DeliveredOut
      <4> QED
        BY <1>13, <4>2 DEF WritesTo
    <3> QED
      BY <3>1, <3>2
  <2>2. joinPeer[a] # b /\ joinPeer'[a] # b
    BY <1>1, <1>13, NetworkConstants
  <2>3. \A k \in DOMAIN ms : ~Erases(ms[k], i)
    BY <1>9, <1>10, <1>13
  <2>4. Learns(chan[a][b] \o ms, views[b][a], i)
    <3>1. CASE i = x
      BY <1>3, <1>6, <1>8, <2>3, <3>1, LearnsNow
    <3>2. CASE i # x
      <4>1. Learns(chan[a][b], views[b][a], i)
        BY <1>12, <1>13, <2>2, <3>2
      <4> QED
        BY <1>3, <1>8, <2>3, <4>1, LearnsMore
    <3> QED
      BY <3>1, <3>2
  <2> QED
    BY <1>1, <2>1, <2>2, <2>4
<1>14. CASE a # n
  <2>1. i # announcing[a]
    BY <1>1, <1>3, <1>14
  <2>2. Carried(a, b, ClaimTypes)
    BY <1>0, <1>1, <1>2, <1>10, <1>14, WriterCarries
  <2>3. CASE joinPeer[a] = b
    BY <1>1, <1>12, <2>1, <2>3
  <2>4. CASE joinPeer[a] # b
    <3>1. Learns(chan'[a][b], views'[b][a], i)
      BY <1>0, <1>12, <2>1, <2>2, <2>4, LearnsCarried
    <3> QED
      BY <1>1, <2>4, <3>1
  <2> QED
    BY <2>3, <2>4
<1> QED
  BY <1>13, <1>14

LEMMA LearntStep == AgreeInv /\ [Next]_vars => PiecesLearnt'
<1> SUFFICES ASSUME AgreeInv, [Next]_vars PROVE PiecesLearnt'
  OBVIOUS
<1>0. TypeOK /\ ClaimInv /\ Apart
  BY DEF AgreeInv, ClaimInv
<1>1. CASE UNCHANGED vars \/ \E n, p \in Node : CloseEnd(n, p)
  <2>1. UNCHANGED <<peers, joinPeer, joinBits, store, announcing>> /\ lost \subseteq lost'
    BY <1>1 DEF vars, CloseEnd, fileVars, swarmVars, wireVars
  <2>2. \A a, b \in Node : <<a, b>> \notin lost' => Carried(a, b, ClaimTypes)
    BY <1>0, <1>1, OtherCarries
  <2>3. \A a \in Node, i \in Piece : Due(a, i)' => Due(a, i)
    BY <2>1 DEF Due, Held
  <2> QED
    BY <2>1, <2>2, <2>3, LearntStays
<1>2. ASSUME NEW n \in Node, Round(n) PROVE PiecesLearnt'
  <2>1. /\ Exchange(n, NoPeer, RoundMessages(n))
        /\ UNCHANGED <<store, announcing, peers, joinPeer, joinBits, views, peerChoking>>
        /\ \A c \in Node : RoundMessages(n)[c] \in Seq(Message)
    BY <1>0, <1>2, RoundSends
  <2>2. \A b \in Node : Free(RoundMessages(n)[b], ClaimTypes)
    BY DEF Free, RoundMessages, ChokeMsg, UnchokeMsg, ClaimTypes
  <2>3. \A a, b \in Node : <<a, b>> \notin lost' => Carried(a, b, ClaimTypes)
    BY <1>0, <2>1, <2>2, WriterCarries
  <2>4. \A a \in Node, i \in Piece : Due(a, i)' => Due(a, i)
    BY <2>1 DEF Due, Held
  <2>5. lost \subseteq lost'
    BY <2>1 DEF Exchange
  <2> QED
    BY <2>1, <2>3, <2>4, <2>5, LearntStays
<1>3. ASSUME NEW n \in Node, NEW p \in Node, Handle(n, p) PROVE PiecesLearnt'
  <2>1. p \in peers[n]
    BY <1>3 DEF Handle, HandleInterested, HandleChoke, HandleUnchoke, HandleHave,
       HandleBitfield, HandleRequest, RejectPiece, StorePiece, Receives
  <2>2. n # p
    BY <1>0, <2>1 DEF Apart
  <2>3. \A a, b \in Node : <<a, b>> \notin lost' => Carried(a, b, AllTypes)
    BY <1>0, <1>3, <2>2, HandleCarries
  <2>4. \A a, b \in Node : <<a, b>> \notin lost' => Carried(a, b, ClaimTypes)
    BY <2>3, CarriedWeaker DEF AllTypes
  <2>5. UNCHANGED <<peers, joinPeer, joinBits>> /\ lost \subseteq lost'
    BY <1>3 DEF Handle, HandleInterested, HandleChoke, HandleUnchoke, HandleHave,
       HandleBitfield, HandleRequest, RejectPiece, StorePiece, swarmVars, Exchange
  <2>6. \A a \in Node, i \in Piece : Due(a, i)' => Due(a, i)
    <3>1. CASE UNCHANGED <<store, announcing>>
      BY <3>1 DEF Due, Held
    <3>2. CASE StorePiece(n, p)
      <4> DEFINE m == Head(chan[p][n])
      <4>1. /\ store' = [store EXCEPT ![n][m.piece] = IF @ = NoData THEN m.data ELSE @]
            /\ announcing' = [announcing EXCEPT ![n] = m.piece]
            /\ announcing[n] = NoPiece
        BY <3>2 DEF StorePiece, Receives
      <4>2. /\ store \in [Node -> [Piece -> Data \cup {NoData}]]
            /\ announcing \in [Node -> Piece \cup {NoPiece}]
        BY <1>0 DEF TypeOK
      <4> SUFFICES ASSUME NEW a \in Node, NEW i \in Piece, Due(a, i)' PROVE Due(a, i)
        OBVIOUS
      <4>3. i \in Held(a)' /\ i # announcing'[a]
        BY DEF Due
      <4>4. i # announcing[a]
        BY <4>1, <4>2, <4>3, NetworkConstants
      <4>5. i # m.piece \/ a # n
        BY <4>1, <4>2, <4>3
      <4>6. store'[a][i] = store[a][i]
        BY <4>1, <4>2, <4>5
      <4> QED
        BY <4>3, <4>4, <4>6 DEF Due, Held
    <3> QED
      BY <1>3, <3>1, <3>2 DEF Handle, HandleInterested, HandleChoke, HandleUnchoke,
         HandleHave, HandleBitfield, HandleRequest, RejectPiece, fileVars
  <2> QED
    BY <2>4, <2>5, <2>6, LearntStays
<1> QED
  BY <1>1, <1>2, <1>3, LearntRegister, LearntSend, LearntAnnounce DEF Next

-----------------------------------------------------------------------------
LEMMA AgreeInit == Init => Apart /\ ChokesConclude /\ PiecesLearnt
<1> SUFFICES ASSUME Init PROVE Apart /\ ChokesConclude /\ PiecesLearnt
  OBVIOUS
<1>1. \A a \in Node : peers[a] = {} /\ joinPeer[a] = NoPeer
  BY DEF Init
<1>2. \A a, b \in Node : chan[a][b] = <<>> /\ peerChoking[b][a] = TRUE /\ amChoking[a][b] = TRUE
  BY DEF Init
<1>3. Concludes(<<>>, TRUE, TRUE)
  BY DEF Concludes, Free
<1>4. ChokesConclude
  BY <1>2, <1>3 DEF ChokesConclude
<1> QED
  BY <1>1, <1>4 DEF Apart, PiecesLearnt

LEMMA AgreeStep == AgreeInv /\ [Next]_vars => Apart' /\ ChokesConclude' /\ PiecesLearnt'
  BY ApartStep, ConcludesStep, LearntStep

(* The two ends of a connection that has lost nothing agree in every       *)
(* reachable state, as far as they have read.                              *)
LEMMA Agreement == Spec => [](Apart /\ ChokesConclude /\ PiecesLearnt)
<1>1. /\ TypeOK /\ NoOverclaim /\ (Apart /\ ChokesConclude /\ PiecesLearnt) /\ [Next]_vars
      => (Apart /\ ChokesConclude /\ PiecesLearnt)'
  BY AgreeStep DEF AgreeInv, ClaimInv
<1> QED
  BY AgreeInit, <1>1, TypeCorrect, NoOverclaimHolds, PTL DEF Spec

(* Flow control, for every swarm: once the choke messages between two      *)
(* nodes are read, PeerState.PeerChoking at one end is AmChoking at the    *)
(* other (SetAmChoking and SetPeerChoking, p2p/peer_state.go).             *)
THEOREM ChokeAgreementHolds == Spec => []ChokeAgreement
<1>1. TypeOK /\ Apart /\ ChokesConclude => ChokeAgreement
  <2> SUFFICES ASSUME TypeOK, Apart, ChokesConclude, NEW a \in Node, NEW b \in Node,
                      b \in peers[a], <<a, b>> \notin lost,
                      \A m \in InFlight(a, b) : m.type \notin {"choke", "unchoke"}
               PROVE  peerChoking[b][a] = amChoking[a][b]
    BY DEF ChokeAgreement
  <2>1. Intact(a, b)
    BY DEF Apart, Intact
  <2>2. Free(chan[a][b], ChokeTypes)
    BY DEF Free, InFlight, ChokeTypes
  <2>3. peerChoking[b][a] <=> amChoking[a][b]
    BY <2>1, <2>2 DEF ChokesConclude, Concludes
  <2>4. peerChoking[b][a] \in BOOLEAN /\ amChoking[a][b] \in BOOLEAN
    BY DEF TypeOK
  <2> QED
    BY <2>3, <2>4
<1> QED
  BY <1>1, TypeCorrect, Agreement, PTL

(* No announcement is lost between a piece that is stored and a peer that  *)
(* joins: the bitfield of OnPeer, which may be out of date when it is      *)
(* sent, is followed by the HAVE of the piece it misses.                   *)
THEOREM NoLostAnnouncementHolds == Spec => []NoLostAnnouncement
<1>1. TypeOK /\ NoOverclaim /\ Apart /\ PiecesLearnt => NoLostAnnouncement
  <2> SUFFICES ASSUME TypeOK, NoOverclaim, Apart, PiecesLearnt, NEW a \in Node, NEW b \in Node,
                      b \in peers[a], joinPeer[a] # b, announcing[a] = NoPiece,
                      \A m \in InFlight(a, b) : m.type \notin {"have", "bitfield"},
                      <<a, b>> \notin lost
               PROVE  views[b][a] = Held(a)
    BY DEF NoLostAnnouncement
  <2>1. Intact(a, b)
    BY DEF Apart, Intact
  <2>2. views[b][a] \subseteq Held(a)
    BY DEF NoOverclaim, ViewsHeld
  <2>3. ASSUME NEW i \in Held(a) PROVE i \in views[b][a]
    <3>1. i # announcing[a]
      BY NetworkConstants DEF Held
    <3>2. Learns(chan[a][b], views[b][a], i)
      BY <2>1, <3>1 DEF PiecesLearnt
    <3>3. \A k \in DOMAIN chan[a][b] : ~Tells(chan[a][b][k], i)
      BY DEF InFlight, Tells, ClaimTypes
    <3> QED
      BY <3>2, <3>3 DEF Learns
  <2> QED
    BY <2>2, <2>3
<1> QED
  BY <1>1, TypeCorrect, NoOverclaimHolds, Agreement, PTL

=============================================================================
