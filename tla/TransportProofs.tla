--------------------------- MODULE TransportProofs ---------------------------
(***************************************************************************)
(* The transport for any nodes, connections and channel sizes.  The        *)
(* argument: what an end has written and the other has not read, the       *)
(* handshake first, continues what the other has read; what is left in the *)
(* outbox continues what is written, until the connection is lost; and     *)
(* nothing is written after that.                                          *)
(***************************************************************************)
EXTENDS Transport, FiniteSetTheorems, SequenceTheorems, TLAPS

-----------------------------------------------------------------------------
(* The inductive invariant. *)

\* How many messages of e the other end has passed on to its rpc channel.
Passed(e) == got[e] + Cardinality(Places(rpc[Remote(e)], e, Len(rpc[Remote(e)])))

\* The handshake is still to be read, to be written.
Unread(e) == stage[e] \in {"idle", "read"} \/ (e[2] = "out" /\ stage[e] = "write")
Unwritten(e) == stage[e] \in {"idle", "write"} \/ (e[2] = "in" /\ stage[e] = "read")

Alive(e) == stage[e] \notin {"closing", "closed"}

\* e has written its handshake, and what it writes still counts.
Speaks(e) ==
    \/ stage[e] \in {"register", "open"}
    \/ stage[e] = "read" /\ e[2] = "out"
    \/ stage[e] = "closing" /\ sent[e] > 0

\* How much of what e wrote the other end has read, the handshake included.
ReadOf(e) == IF Unread(Other(e)) THEN 0 ELSE 1 + Passed(e)

\* Before it is registered an end is in nobody's way.
Fresh ==
    \A e \in End : stage[e] \in {"idle", "write", "read", "register"} =>
        sent[e] = 0 /\ outbox[e] = <<>> /\ swarm[Owner(e)][Remote(e)] # e

Validated == \A e \in End : stage[e] = "register" => ValidHandshake(e)

Registered == \A e \in End : stage[e] = "open" => swarm[Owner(e)][Remote(e)] = e

\* A registered end has sent its bitfield.
Greeted == \A e \in End : swarm[Owner(e)][Remote(e)] = e => sent[e] > 0

Admitted ==
    \A n, m \in Node : swarm[n][m] # NoEnd =>
        /\ Owner(swarm[n][m]) = n /\ Remote(swarm[n][m]) = m
        /\ ValidHandshake(swarm[n][m])

\* What was read of e was read over the connection that is registered.
Sources ==
    /\ \A n \in Node : \A k \in DOMAIN rpc[n] :
            Remote(rpc[n][k].from) = n
    /\ \A n \in Node : \A k \in DOMAIN rpc[n] :
            swarm[n][Owner(rpc[n][k].from)] = Other(rpc[n][k].from)
    /\ \A e \in End : got[e] > 0 => swarm[Remote(e)][Owner(e)] = Other(e)

\* The outbox holds the last messages that were sent.
InOrder ==
    \A e \in End : \A i \in DOMAIN outbox[e] :
        outbox[e][i] = sent[e] - Len(outbox[e]) + i

Silent ==
    \A e \in End : Unwritten(e) =>
        wire[e] = <<>> /\ (Alive(Other(e)) => Unread(Other(e)))

Continued ==
    \A e \in End : Alive(Other(e)) =>
        \A i \in DOMAIN wire[e] : wire[e][i] = ReadOf(e) + i - 1

Joined ==
    \A e \in End : Alive(Other(e)) /\ Speaks(e) /\ e[1] \notin broken =>
        ReadOf(e) + Len(wire[e]) = 1 + sent[e] - Len(outbox[e])

IInv ==
    /\ TypeOK
    /\ Fresh /\ Validated /\ Registered /\ Greeted /\ Admitted
    /\ Sources /\ NoGaps
    /\ InOrder /\ Silent /\ Continued /\ Joined

-----------------------------------------------------------------------------
(* Ends, and messages in a channel. *)

LEMMA Ends ==
    ASSUME NEW e \in End
    PROVE  /\ Other(e) \in End /\ Other(Other(e)) = e /\ Other(e) # e
           /\ Other(e)[1] = e[1] /\ e[1] \in Conn
           /\ e[2] \in {"out", "in"} /\ Other(e)[2] # e[2]
           /\ Owner(e) \in Node /\ Remote(e) \in Node /\ Remote(Other(e)) = Owner(e)
           /\ e # NoEnd
<1>1. PICK c \in Conn, d \in {"out", "in"} : e = <<c, d>>
  BY DEF End
<1>2. Other(e) = <<c, IF d = "out" THEN "in" ELSE "out">>
  BY <1>1 DEF Other
<1>3. Other(e) \in End /\ Other(Other(e)) = e /\ Other(e) # e
  BY <1>1, <1>2 DEF Other, End
<1>4. \A x \in End : Owner(x) \in Node
  BY TransportConstants DEF Owner, End
<1> QED
  BY <1>1, <1>2, <1>3, <1>4, TransportConstants DEF Remote, End

LEMMA PlacesFinite ==
    ASSUME NEW s, NEW e, NEW k \in Nat
    PROVE  IsFiniteSet(Places(s, e, k)) /\ Cardinality(Places(s, e, k)) \in Nat
<1>1. IsFiniteSet(1..k)
  BY FS_Interval
<1>2. Places(s, e, k) \subseteq 1..k
  BY DEF Places
<1> QED
  BY <1>1, <1>2, FS_Subset, FS_CardinalityType

\* A message that is appended is counted at the new place and at no other.
LEMMA PlacesAppend ==
    ASSUME NEW S, NEW s \in Seq(S), NEW m \in S, NEW e
    PROVE  /\ \A k \in 1..Len(s) : Places(Append(s, m), e, k) = Places(s, e, k)
           /\ Cardinality(Places(Append(s, m), e, Len(s) + 1)) =
                Cardinality(Places(s, e, Len(s))) + IF m.from = e THEN 1 ELSE 0
<1> DEFINE t == Append(s, m)
           n == Len(s)
<1>1. n \in Nat /\ \A i \in 1..n : t[i] = s[i]
  BY AppendProperties, LenProperties
<1>2. t[n + 1] = m
  BY AppendProperties
<1> HIDE DEF t, n
<1>3. \A k \in 1..n : Places(t, e, k) = Places(s, e, k)
  BY <1>1 DEF Places
<1>4. Places(t, e, n + 1) = Places(s, e, n) \cup IF m.from = e THEN {n + 1} ELSE {}
  BY <1>1, <1>2 DEF Places
<1>5. IsFiniteSet(Places(s, e, n)) /\ Cardinality(Places(s, e, n)) \in Nat /\ n + 1 \notin Places(s, e, n)
  <2>1. n \in Nat /\ n + 1 \notin 1..n
    BY <1>1
  <2> QED
    BY <2>1, PlacesFinite DEF Places
<1>6. Cardinality(Places(t, e, n + 1)) = Cardinality(Places(s, e, n)) + IF m.from = e THEN 1 ELSE 0
  <2>1. CASE m.from = e
    <3>1. Cardinality(Places(s, e, n) \cup {n + 1}) = Cardinality(Places(s, e, n)) + 1
      BY <1>5, FS_AddElement
    <3> QED
      BY <1>4, <2>1, <3>1
  <2>2. CASE m.from # e
    <3>1. Places(t, e, n + 1) = Places(s, e, n)
      BY <1>4, <2>2
    <3> QED
      BY <1>5, <2>2, <3>1
  <2> QED
    BY <2>1, <2>2
<1> QED
  BY <1>3, <1>6 DEF t, n

\* When the head is taken, every place moves up by one.
LEMMA PlacesTail ==
    ASSUME NEW S, NEW s \in Seq(S), s # <<>>, NEW e, NEW k \in 0..(Len(s) - 1)
    PROVE  Cardinality(Places(s, e, k + 1)) =
             Cardinality(Places(Tail(s), e, k)) + IF Head(s).from = e THEN 1 ELSE 0
<1> DEFINE t == Tail(s)
           shift == [j \in Places(t, e, k) |-> j + 1]
           Moved == { j \in 2..(k + 1) : s[j].from = e }
<1>1. k \in Nat /\ \A i \in 1..k : t[i] = s[i + 1]
  BY HeadTailProperties, LenProperties
<1>2. Head(s) = s[1]
  OBVIOUS
<1> HIDE DEF t
<1>3. shift \in Bijection(Places(t, e, k), Moved)
  <2>1. \A j \in Places(t, e, k) : j \in 1..k /\ t[j].from = e
    BY DEF Places
  <2>2. shift \in [Places(t, e, k) -> Moved]
    BY <1>1, <2>1
  <2>3. \A x, y \in Places(t, e, k) : shift[x] = shift[y] => x = y
    BY <1>1, <2>1
  <2>4. \A j \in Moved : \E i \in Places(t, e, k) : shift[i] = j
    <3> SUFFICES ASSUME NEW j \in Moved PROVE \E i \in Places(t, e, k) : shift[i] = j
      OBVIOUS
    <3>1. j \in 2..(k + 1) /\ s[j].from = e
      OBVIOUS
    <3>2. j - 1 \in 1..k /\ t[j - 1] = s[j] /\ (j - 1) + 1 = j
      <4>1. j - 1 \in 1..k /\ (j - 1) + 1 = j
        BY <1>1, <3>1
      <4> QED
        BY <1>1, <4>1
    <3>3. j - 1 \in Places(t, e, k)
      BY <3>1, <3>2 DEF Places
    <3> QED
      BY <3>2, <3>3
  <2> QED
    BY <2>2, <2>3, <2>4 DEF Bijection, Injection, Surjection, IsInjective
<1>4. IsFiniteSet(Moved) /\ Cardinality(Moved) = Cardinality(Places(t, e, k))
      /\ Cardinality(Moved) \in Nat
  <2>1. IsFiniteSet(Places(t, e, k)) /\ Cardinality(Places(t, e, k)) \in Nat
    BY <1>1, PlacesFinite
  <2> QED
    BY <1>3, <2>1, FS_Bijection DEF ExistsBijection
<1>5. Places(s, e, k + 1) = Moved \cup IF Head(s).from = e THEN {1} ELSE {}
  BY <1>1, <1>2 DEF Places
<1>6. 1 \notin Moved
  OBVIOUS
<1> HIDE DEF Moved
<1>7. CASE Head(s).from = e
  <2>1. Cardinality(Moved \cup {1}) = Cardinality(Moved) + 1
    BY <1>4, <1>6, FS_AddElement
  <2> QED
    BY <1>4, <1>5, <1>7, <2>1 DEF t
<1>8. CASE Head(s).from # e
  <2>1. Places(s, e, k + 1) = Moved
    BY <1>5, <1>8
  <2> QED
    BY <1>4, <1>8, <2>1 DEF t
<1> QED
  BY <1>7, <1>8

-----------------------------------------------------------------------------
(* Where handleConn goes, and types. *)

LEMMA Closes ==
    ASSUME TypeOK, NEW e \in End, Close(e)
    PROVE  /\ stage' \in [End -> Stage] /\ outboxClosed' \in [End -> BOOLEAN]
           /\ stage' = [stage EXCEPT ![e] = "closing"] /\ stage'[e] = "closing"
  BY DEF TypeOK, Close, Stage

LEMMA Half ==
    ASSUME TypeOK, NEW e \in End, stage[e] \in {"write", "read"}, HandshakeHalf(e)
    PROVE  /\ stage' = [stage EXCEPT ![e] = stage'[e]] /\ stage' \in [End -> Stage]
           /\ outboxClosed' \in [End -> BOOLEAN]
           /\ \/ e[2] = "out" /\ stage[e] = "write" /\ stage'[e] = "read"
              \/ e[2] = "in" /\ stage[e] = "read" /\ stage'[e] = "write"
              \/ /\ (e[2] = "out" /\ stage[e] = "read") \/ (e[2] = "in" /\ stage[e] = "write")
                 /\ \/ stage'[e] = "register" /\ ValidHandshake(e)
                    \/ stage'[e] = "closing"
<1>1. e[2] \in {"out", "in"}
  BY Ends
<1>2. stage \in [End -> Stage] /\ outboxClosed \in [End -> BOOLEAN]
  BY DEF TypeOK
<1>3. HandshakeOrder(e) = IF e[2] = "out" THEN <<"write", "read">> ELSE <<"read", "write">>
  BY DEF HandshakeOrder
<1>4. CASE stage[e] = HandshakeOrder(e)[1]
  BY <1>1, <1>2, <1>3, <1>4 DEF HandshakeHalf, Stage
<1>5. CASE stage[e] # HandshakeOrder(e)[1] /\ ValidHandshake(e)
  BY <1>1, <1>2, <1>3, <1>5 DEF HandshakeHalf, Stage
<1>6. CASE stage[e] # HandshakeOrder(e)[1] /\ ~ValidHandshake(e)
  <2>1. Close(e)
    BY <1>6 DEF HandshakeHalf
  <2> QED
    BY <1>1, <1>3, <1>6, <2>1, Closes
<1> QED
  BY <1>4, <1>5, <1>6

LEMMA Appended ==
    ASSUME NEW I, NEW S, NEW f \in [I -> Seq(S)], NEW i \in I, NEW m \in S
    PROVE  [f EXCEPT ![i] = Append(@, m)] \in [I -> Seq(S)]
  BY AppendProperties

LEMMA Taken ==
    ASSUME NEW I, NEW S, NEW f \in [I -> Seq(S)], NEW i \in I, f[i] # <<>>
    PROVE  [f EXCEPT ![i] = Tail(@)] \in [I -> Seq(S)]
<1>1. f[i] \in Seq(S)
  OBVIOUS
<1>2. Tail(f[i]) \in Seq(S)
  BY <1>1, HeadTailProperties
<1> QED
  BY <1>2

LEMMA InitType == Init => TypeOK
  BY TransportConstants DEF Init, TypeOK, Stage

\* The head of what an open end reads is a message, the next one.
LEMMA NextOne ==
    ASSUME IInv, NEW e \in End, stage[e] = "open", wire[Other(e)] # <<>>
    PROVE  /\ Head(wire[Other(e)]) \in 1..MaxSends
           /\ Head(wire[Other(e)]) = 1 + Passed(Other(e))
           /\ Passed(Other(e)) \in Nat
<1> DEFINE f == Other(e)
<1>1. f \in End /\ Other(f) = e /\ Remote(f) \in Node
  BY Ends
<1>2. wire[f] \in Seq(0..MaxSends) /\ Head(wire[f]) = wire[f][1] /\ 1 \in DOMAIN wire[f]
  BY <1>1, LenProperties, EmptySeq DEF IInv, TypeOK
<1>3. Head(wire[f]) \in 0..MaxSends
  BY <1>2, HeadTailProperties
<1>4. Passed(f) \in Nat
  <2>1. got[f] \in Nat /\ Len(rpc[Remote(f)]) \in Nat
    BY <1>1, LenProperties DEF IInv, TypeOK
  <2> QED
    BY <2>1, PlacesFinite DEF Passed
<1>5. wire[f][1] = ReadOf(f) + 1 - 1 /\ ReadOf(f) = 1 + Passed(f)
  BY <1>1, <1>2 DEF IInv, Continued, Alive, ReadOf, Unread
<1> QED
  BY <1>2, <1>3, <1>4, <1>5, TransportConstants

\* A message that joins an outbox with room.
LEMMA OutboxGrows ==
    ASSUME TypeOK, NEW e \in End, NEW m \in 1..MaxSends, Len(outbox[e]) < OutboxCap,
           outbox' = [outbox EXCEPT ![e] = Append(@, m)]
    PROVE  /\ outbox' \in [End -> Seq(1..MaxSends)]
           /\ \A x \in End : Len(outbox'[x]) <= OutboxCap
<1>1. outbox \in [End -> Seq(1..MaxSends)] /\ \A x \in End : Len(outbox[x]) <= OutboxCap
  BY DEF TypeOK
<1>2. outbox'[e] = Append(outbox[e], m) /\ \A x \in End : x # e => outbox'[x] = outbox[x]
  BY <1>1
<1>3. Len(outbox'[e]) = Len(outbox[e]) + 1 /\ Len(outbox[e]) \in Nat
  BY <1>1, <1>2, AppendProperties, LenProperties
<1>4. Len(outbox'[e]) <= OutboxCap
  BY <1>3, TransportConstants
<1> QED
  BY <1>1, <1>2, <1>4, Appended

LEMMA TypeStep == IInv /\ [Next]_vars => TypeOK'
<1> SUFFICES ASSUME IInv, [Next]_vars PROVE TypeOK'
  OBVIOUS
<1> USE DEF IInv
<1>0. TypeOK
  OBVIOUS
<1>1. CASE UNCHANGED vars
  BY <1>1 DEF TypeOK, vars
<1>2. ASSUME NEW c \in Conn, Dial(c) PROVE TypeOK'
  <2>1. \A e \in End : HandshakeOrder(e)[1] \in Stage
    BY DEF HandshakeOrder, Stage
  <2> QED
    BY <1>2, <2>1 DEF Dial, TypeOK
<1>3. ASSUME NEW c \in Conn, Break(c) PROVE TypeOK'
  BY <1>3 DEF Break, TypeOK
<1>4. ASSUME NEW e \in End, WriteHandshake(e) PROVE TypeOK'
  <2>1. stage' \in [End -> Stage] /\ outboxClosed' \in [End -> BOOLEAN]
    BY <1>4, Half DEF WriteHandshake
  <2>2. wire' \in [End -> Seq(0..MaxSends)]
    BY <1>4, Appended, TransportConstants DEF WriteHandshake, TypeOK, HS
  <2> QED
    BY <1>4, <2>1, <2>2 DEF WriteHandshake, TypeOK
<1>5. ASSUME NEW e \in End, ReadHandshake(e) PROVE TypeOK'
  <2>1. stage' \in [End -> Stage] /\ outboxClosed' \in [End -> BOOLEAN]
    BY <1>5, Half DEF ReadHandshake
  <2>2. wire' \in [End -> Seq(0..MaxSends)]
    BY <1>5, Taken, Ends DEF ReadHandshake, TypeOK
  <2> QED
    BY <1>5, <2>1, <2>2 DEF ReadHandshake, TypeOK
<1>6. ASSUME NEW e \in End, HandshakeFails(e) PROVE TypeOK'
  BY <1>6, Closes DEF HandshakeFails, TypeOK
<1>7. ASSUME NEW e \in End, OnPeer(e) PROVE TypeOK'
  <2>1. CASE swarm[Owner(e)][Remote(e)] # NoEnd
    BY <1>7, <2>1, Closes DEF OnPeer, TypeOK
  <2>2. CASE swarm[Owner(e)][Remote(e)] = NoEnd
    <3>1. Owner(e) \in Node /\ Remote(e) \in Node
      BY Ends
    <3>2. swarm' = [swarm EXCEPT ![Owner(e)][Remote(e)] = e]
      BY <1>7, <2>2 DEF OnPeer
    <3>3. swarm' \in [Node -> [Node -> End \cup {NoEnd}]]
      BY <3>1, <3>2 DEF TypeOK
    <3>4. Len(outbox[e]) < OutboxCap
      BY <1>7, TransportConstants DEF OnPeer, Fresh
    <3>5. /\ outbox' \in [End -> Seq(1..MaxSends)]
          /\ \A x \in End : Len(outbox'[x]) <= OutboxCap
      <4>1. 1 \in 1..MaxSends /\ outbox' = [outbox EXCEPT ![e] = Append(@, 1)]
        BY <1>7, <2>2, TransportConstants DEF OnPeer
      <4> QED
        BY <3>4, <4>1, OutboxGrows
    <3>6. /\ stage' = [stage EXCEPT ![e] = "open"] /\ sent' = [sent EXCEPT ![e] = 1]
          /\ UNCHANGED <<outboxClosed, writer, wire, broken, rpc, got>>
      BY <1>7, <2>2 DEF OnPeer
    <3>7. stage' \in [End -> Stage] /\ sent' \in [End -> 0..MaxSends]
      BY <3>6, TransportConstants DEF TypeOK, Stage
    <3> QED
      BY <3>3, <3>5, <3>6, <3>7 DEF TypeOK
  <2> QED
    BY <2>1, <2>2
<1>8. ASSUME NEW e \in End, ReadMessage(e) PROVE TypeOK'
  <2>1. wire' \in [End -> Seq(0..MaxSends)]
    BY <1>8, Taken, Ends DEF ReadMessage, TypeOK
  <2>2. CASE Head(wire[Other(e)]) \notin Oversized /\ Len(rpc[Owner(e)]) < RpcCap
    <3> DEFINE m == [from |-> Other(e), num |-> Head(wire[Other(e)])]
               R == [from : End, num : 1..MaxSends]
    <3>1. m \in R /\ Owner(e) \in Node
      BY <1>8, NextOne, Ends DEF ReadMessage
    <3>2. rpc \in [Node -> Seq(R)] /\ \A n \in Node : Len(rpc[n]) <= RpcCap
      BY DEF TypeOK
    <3>3. rpc' = [rpc EXCEPT ![Owner(e)] = Append(@, m)]
      BY <1>8, <2>2 DEF ReadMessage
    <3> HIDE DEF m, R
    <3>4. rpc' \in [Node -> Seq(R)]
      BY <3>1, <3>2, <3>3, Appended
    <3>5. Len(rpc'[Owner(e)]) = Len(rpc[Owner(e)]) + 1 /\ Len(rpc[Owner(e)]) \in Nat
      <4>1. rpc'[Owner(e)] = Append(rpc[Owner(e)], m) /\ rpc[Owner(e)] \in Seq(R)
        BY <3>1, <3>2, <3>3
      <4> QED
        BY <3>1, <4>1, AppendProperties, LenProperties
    <3>6. \A n \in Node : Len(rpc'[n]) <= RpcCap
      BY <2>2, <3>1, <3>2, <3>3, <3>5, TransportConstants
    <3> QED
      BY <1>8, <2>1, <2>2, <3>4, <3>6 DEF ReadMessage, TypeOK, R
  <2>3. CASE ~(Head(wire[Other(e)]) \notin Oversized /\ Len(rpc[Owner(e)]) < RpcCap)
    <3>1. Close(e) /\ UNCHANGED rpc
      BY <1>8, <2>3 DEF ReadMessage
    <3> QED
      BY <1>8, <2>1, <3>1, Closes DEF ReadMessage, TypeOK
  <2> QED
    BY <2>2, <2>3
<1>9. ASSUME NEW e \in End, ReadFails(e) PROVE TypeOK'
  BY <1>9, Closes DEF ReadFails, TypeOK
<1>10. ASSUME NEW e \in End, ShutSocket(e) PROVE TypeOK'
  BY <1>10 DEF ShutSocket, TypeOK, Stage
<1>11. ASSUME NEW e \in End, Send(e) PROVE TypeOK'
  <2>1. sent[e] + 1 \in 1..MaxSends
    BY <1>11, TransportConstants DEF Send, TypeOK
  <2>2. sent' \in [End -> 0..MaxSends]
    BY <1>11, <2>1, TransportConstants DEF Send, TypeOK
  <2>3. outbox' \in [End -> Seq(1..MaxSends)] /\ \A x \in End : Len(outbox'[x]) <= OutboxCap
    BY <1>11, <2>1, OutboxGrows DEF Send
  <2> QED
    BY <1>11, <2>2, <2>3 DEF Send, TypeOK
<1>12. ASSUME NEW e \in End, WriteMessage(e) PROVE TypeOK'
  <2>1. outbox[e] \in Seq(1..MaxSends) /\ outbox[e] # <<>>
    BY <1>12 DEF WriteMessage, TypeOK
  <2>2. /\ Head(outbox[e]) \in 1..MaxSends /\ Tail(outbox[e]) \in Seq(1..MaxSends)
        /\ Len(Tail(outbox[e])) = Len(outbox[e]) - 1 /\ Len(outbox[e]) \in Nat
    BY <2>1, HeadTailProperties, LenProperties
  <2>3. outbox' \in [End -> Seq(1..MaxSends)]
    BY <1>12, <2>1, Taken DEF WriteMessage, TypeOK
  <2>4. \A x \in End : Len(outbox'[x]) <= OutboxCap
    BY <1>12, <2>2, TransportConstants DEF WriteMessage, TypeOK
  <2>5. wire' \in [End -> Seq(0..MaxSends)]
    <3>1. CASE UNCHANGED wire
      BY <3>1 DEF TypeOK
    <3>2. CASE wire' = [wire EXCEPT ![e] = Append(@, Head(outbox[e]))]
      <4>1. Head(outbox[e]) \in 0..MaxSends
        BY <2>2
      <4> QED
        BY <3>2, <4>1, Appended DEF TypeOK
    <3> QED
      BY <1>12, <3>1, <3>2 DEF WriteMessage
  <2>6. writer' \in [End -> BOOLEAN]
    BY <1>12 DEF WriteMessage, TypeOK
  <2> QED
    BY <1>12, <2>3, <2>4, <2>5, <2>6 DEF WriteMessage, TypeOK
<1>13. ASSUME NEW e \in End, WriterEnds(e) PROVE TypeOK'
  BY <1>13 DEF WriterEnds, TypeOK
<1>14. ASSUME NEW n \in Node, Consume(n) PROVE TypeOK'
  <2> DEFINE R == [from : End, num : 1..MaxSends]
  <2>1. rpc[n] \in Seq(R) /\ rpc[n] # <<>>
    BY <1>14 DEF Consume, TypeOK
  <2> HIDE DEF R
  <2>2. /\ Head(rpc[n]) \in R /\ Len(Tail(rpc[n])) = Len(rpc[n]) - 1
        /\ Len(rpc[n]) \in Nat
    BY <2>1, HeadTailProperties, LenProperties
  <2>3. rpc' \in [Node -> Seq(R)]
    <3>1. rpc \in [Node -> Seq(R)] /\ rpc' = [rpc EXCEPT ![n] = Tail(@)]
      BY <1>14 DEF Consume, TypeOK, R
    <3> QED
      BY <2>1, <3>1, Taken
  <2>4. \A x \in Node : Len(rpc'[x]) <= RpcCap
    BY <1>14, <2>2, TransportConstants DEF Consume, TypeOK
  <2>5. got' \in [End -> 0..MaxSends]
    BY <1>14, <2>2, TransportConstants DEF Consume, TypeOK, R
  <2> QED
    BY <1>14, <2>3, <2>4, <2>5 DEF Consume, TypeOK, R
<1> QED
  BY <1>1, <1>2, <1>3, <1>4, <1>5, <1>6, <1>7, <1>8, <1>9, <1>10, <1>11, <1>12, <1>13, <1>14
     DEF Next, HandleConn, WriteLoop

-----------------------------------------------------------------------------
(* Who is in a swarm. *)

LEMMA FreshStep == IInv /\ [Next]_vars => Fresh'
<1> SUFFICES ASSUME IInv, [Next]_vars PROVE Fresh'
  OBVIOUS
<1>0. TypeOK /\ Fresh
  BY DEF IInv
<1>t. /\ stage \in [End -> Stage] /\ sent \in [End -> 0..MaxSends] /\ DOMAIN outbox = End
      /\ swarm \in [Node -> [Node -> End \cup {NoEnd}]]
  BY <1>0 DEF TypeOK
<1>1. CASE UNCHANGED vars
  BY <1>0, <1>1 DEF Fresh, vars
<1>2. ASSUME NEW c \in Conn, Dial(c) PROVE Fresh'
  <2>1. \A x \in End : x[1] = c => stage[x] = "idle"
    <3> SUFFICES ASSUME NEW x \in End, x[1] = c PROVE stage[x] = "idle"
      OBVIOUS
    <3>1. x \in {c} \X {"out", "in"}
      BY DEF End
    <3> QED
      BY <1>2, <3>1 DEF Dial
  <2> QED
    BY <1>0, <1>t, <1>2, <2>1 DEF Dial, Fresh
<1>3. ASSUME NEW c \in Conn, Break(c) PROVE Fresh'
  BY <1>0, <1>3 DEF Break, Fresh
<1>4. ASSUME NEW e \in End, WriteHandshake(e) PROVE Fresh'
  <2>1. stage' = [stage EXCEPT ![e] = stage'[e]] /\ stage[e] = "write"
    BY <1>0, <1>4, Half DEF WriteHandshake
  <2> QED
    BY <1>0, <1>t, <1>4, <2>1 DEF WriteHandshake, Fresh
<1>5. ASSUME NEW e \in End, ReadHandshake(e) PROVE Fresh'
  <2>1. stage' = [stage EXCEPT ![e] = stage'[e]] /\ stage[e] = "read"
    BY <1>0, <1>5, Half DEF ReadHandshake
  <2> QED
    BY <1>0, <1>t, <1>5, <2>1 DEF ReadHandshake, Fresh
<1>6. ASSUME NEW e \in End, HandshakeFails(e) PROVE Fresh'
  BY <1>0, <1>t, <1>6 DEF HandshakeFails, Close, Fresh
<1>7. ASSUME NEW e \in End, OnPeer(e) PROVE Fresh'
  <2>1. Owner(e) \in Node /\ Remote(e) \in Node
        /\ \A x \in End : Owner(x) \in Node /\ Remote(x) \in Node
    BY Ends
  <2>2. CASE swarm[Owner(e)][Remote(e)] # NoEnd
    BY <1>0, <1>t, <1>7, <2>2 DEF OnPeer, Close, Fresh
  <2>3. CASE swarm[Owner(e)][Remote(e)] = NoEnd
    <3>1. stage' = [stage EXCEPT ![e] = "open"] /\ sent' = [sent EXCEPT ![e] = 1]
          /\ outbox' = [outbox EXCEPT ![e] = Append(@, 1)]
          /\ swarm' = [swarm EXCEPT ![Owner(e)][Remote(e)] = e]
      BY <1>7, <2>3 DEF OnPeer
    <3> SUFFICES ASSUME NEW x \in End, stage'[x] \in {"idle", "write", "read", "register"}
                 PROVE  sent'[x] = 0 /\ outbox'[x] = <<>> /\ swarm'[Owner(x)][Remote(x)] # x
      BY DEF Fresh
    <3>2. x # e /\ stage'[x] = stage[x] /\ sent'[x] = sent[x] /\ outbox'[x] = outbox[x]
      BY <1>t, <3>1
    <3>3. swarm'[Owner(x)][Remote(x)] \in {swarm[Owner(x)][Remote(x)], e}
      BY <1>t, <2>1, <3>1
    <3> QED
      BY <1>0, <3>2, <3>3 DEF Fresh
  <2> QED
    BY <2>2, <2>3
<1>8. ASSUME NEW e \in End, ReadMessage(e) PROVE Fresh'
  BY <1>0, <1>t, <1>8 DEF ReadMessage, Close, Fresh
<1>9. ASSUME NEW e \in End, ReadFails(e) PROVE Fresh'
  BY <1>0, <1>t, <1>9 DEF ReadFails, Close, Fresh
<1>10. ASSUME NEW e \in End, ShutSocket(e) PROVE Fresh'
  BY <1>0, <1>t, <1>10 DEF ShutSocket, Fresh
<1>11. ASSUME NEW e \in End, Send(e) PROVE Fresh'
  BY <1>0, <1>t, <1>11 DEF Send, Fresh
<1>12. ASSUME NEW e \in End, WriteMessage(e) PROVE Fresh'
  BY <1>0, <1>t, <1>12 DEF WriteMessage, Fresh
<1>13. ASSUME NEW e \in End, WriterEnds(e) PROVE Fresh'
  BY <1>0, <1>13 DEF WriterEnds, Fresh
<1>14. ASSUME NEW n \in Node, Consume(n) PROVE Fresh'
  BY <1>0, <1>14 DEF Consume, Fresh
<1> QED
  BY <1>1, <1>2, <1>3, <1>4, <1>5, <1>6, <1>7, <1>8, <1>9, <1>10, <1>11, <1>12, <1>13, <1>14
     DEF Next, HandleConn, WriteLoop

\* The swarms only grow, by an end whose handshake was valid.
LEMMA SwarmStep ==
    ASSUME IInv, [Next]_vars
    PROVE  \/ swarm' = swarm /\ \A e \in End : stage'[e] = "open" => stage[e] = "open"
           \/ \E e \in End : /\ stage[e] = "register"
                             /\ swarm[Owner(e)][Remote(e)] = NoEnd
                             /\ swarm' = [swarm EXCEPT ![Owner(e)][Remote(e)] = e]
                             /\ stage' = [stage EXCEPT ![e] = "open"]
                             /\ sent' = [sent EXCEPT ![e] = 1]
<1>0. TypeOK
  BY DEF IInv
<1>t. stage \in [End -> Stage]
  BY <1>0 DEF TypeOK
<1> DEFINE Kept == swarm' = swarm /\ \A e \in End : stage'[e] = "open" => stage[e] = "open"
<1>1. CASE UNCHANGED vars
  BY <1>1 DEF vars
<1>2. ASSUME NEW c \in Conn, Dial(c) PROVE Kept
  <2>1. \A e \in End : HandshakeOrder(e)[1] # "open"
    BY DEF HandshakeOrder
  <2> QED
    BY <1>t, <1>2, <2>1 DEF Dial
<1>3. ASSUME NEW c \in Conn, Break(c) PROVE Kept
  BY <1>3 DEF Break
<1>4. ASSUME NEW e \in End, WriteHandshake(e) PROVE Kept
  <2>1. stage' = [stage EXCEPT ![e] = stage'[e]] /\ stage'[e] # "open"
    BY <1>0, <1>4, Half DEF WriteHandshake
  <2> QED
    BY <1>t, <1>4, <2>1 DEF WriteHandshake
<1>5. ASSUME NEW e \in End, ReadHandshake(e) PROVE Kept
  <2>1. stage' = [stage EXCEPT ![e] = stage'[e]] /\ stage'[e] # "open"
    BY <1>0, <1>5, Half DEF ReadHandshake
  <2> QED
    BY <1>t, <1>5, <2>1 DEF ReadHandshake
<1>6. ASSUME NEW e \in End, HandshakeFails(e) PROVE Kept
  BY <1>t, <1>6 DEF HandshakeFails, Close
<1>7. ASSUME NEW e \in End, OnPeer(e), swarm[Owner(e)][Remote(e)] # NoEnd PROVE Kept
  BY <1>t, <1>7 DEF OnPeer, Close
<1>8. ASSUME NEW e \in End, ReadMessage(e) PROVE Kept
  BY <1>t, <1>8 DEF ReadMessage, Close
<1>9. ASSUME NEW e \in End, ReadFails(e) PROVE Kept
  BY <1>t, <1>9 DEF ReadFails, Close
<1>10. ASSUME NEW e \in End, ShutSocket(e) PROVE Kept
  BY <1>t, <1>10 DEF ShutSocket
<1>11. ASSUME NEW e \in End, Send(e) \/ WriteMessage(e) \/ WriterEnds(e) PROVE Kept
  BY <1>11 DEF Send, WriteMessage, WriterEnds
<1>12. ASSUME NEW n \in Node, Consume(n) PROVE Kept
  BY <1>12 DEF Consume
<1>13. ASSUME NEW e \in End, OnPeer(e), swarm[Owner(e)][Remote(e)] = NoEnd
       PROVE  /\ stage[e] = "register"
              /\ swarm' = [swarm EXCEPT ![Owner(e)][Remote(e)] = e]
              /\ stage' = [stage EXCEPT ![e] = "open"]
              /\ sent' = [sent EXCEPT ![e] = 1]
  BY <1>13 DEF OnPeer
<1> QED
  BY <1>1, <1>2, <1>3, <1>4, <1>5, <1>6, <1>7, <1>8, <1>9, <1>10, <1>11, <1>12, <1>13
     DEF Next, HandleConn, WriteLoop

\* What is registered stays.
LEMMA SwarmKept ==
    ASSUME IInv, [Next]_vars, NEW n \in Node, NEW m \in Node, swarm[n][m] # NoEnd
    PROVE  swarm'[n][m] = swarm[n][m]
<1>1. swarm \in [Node -> [Node -> End \cup {NoEnd}]]
  BY DEF IInv, TypeOK
<1>2. CASE swarm' = swarm
  BY <1>2
<1>3. ASSUME NEW e \in End, swarm[Owner(e)][Remote(e)] = NoEnd,
             swarm' = [swarm EXCEPT ![Owner(e)][Remote(e)] = e]
      PROVE  swarm'[n][m] = swarm[n][m]
  BY <1>1, <1>3, Ends
<1> QED
  BY <1>2, <1>3, SwarmStep

LEMMA ValidatedStep == IInv /\ [Next]_vars => Validated'
<1> SUFFICES ASSUME IInv, [Next]_vars PROVE Validated'
  OBVIOUS
<1>0. TypeOK /\ Validated
  BY DEF IInv
<1>t. stage \in [End -> Stage]
  BY <1>0 DEF TypeOK
<1>v. \A e \in End : ValidHandshake(e)' <=> ValidHandshake(e)
  BY DEF ValidHandshake, Remote, Owner, Other
<1>1. CASE UNCHANGED stage
  BY <1>0, <1>1, <1>v DEF Validated
<1>2. ASSUME NEW c \in Conn, Dial(c) PROVE Validated'
  <2>1. \A e \in End : HandshakeOrder(e)[1] # "register"
    BY DEF HandshakeOrder
  <2> QED
    BY <1>0, <1>t, <1>v, <1>2, <2>1 DEF Dial, Validated
<1>3. ASSUME NEW e \in End, WriteHandshake(e) \/ ReadHandshake(e) PROVE Validated'
  <2>1. stage' = [stage EXCEPT ![e] = stage'[e]]
        /\ (stage'[e] = "register" => ValidHandshake(e))
    BY <1>0, <1>3, Half DEF WriteHandshake, ReadHandshake
  <2> QED
    BY <1>0, <1>t, <1>v, <2>1 DEF Validated
<1>4. ASSUME NEW e \in End, NEW s \in Stage \ {"register"}, stage' = [stage EXCEPT ![e] = s]
      PROVE Validated'
  BY <1>0, <1>t, <1>v, <1>4 DEF Validated
<1>5. ASSUME NEW e \in End, OnPeer(e) PROVE Validated'
  <2>1. stage' = [stage EXCEPT ![e] = "open"] \/ stage' = [stage EXCEPT ![e] = "closing"]
    BY <1>5 DEF OnPeer, Close
  <2> QED
    BY <1>4, <2>1 DEF Stage
<1>6. ASSUME NEW e \in End, HandshakeFails(e) \/ ReadFails(e) PROVE Validated'
  BY <1>4, <1>6 DEF HandshakeFails, ReadFails, Close, Stage
<1>7. ASSUME NEW e \in End, ReadMessage(e) PROVE Validated'
  <2>1. stage' = [stage EXCEPT ![e] = "closing"] \/ UNCHANGED stage
    BY <1>7 DEF ReadMessage, Close
  <2> QED
    BY <1>1, <1>4, <2>1 DEF Stage
<1>8. ASSUME NEW e \in End, ShutSocket(e) PROVE Validated'
  BY <1>4, <1>8 DEF ShutSocket, Stage
<1> QED
  BY <1>1, <1>2, <1>3, <1>5, <1>6, <1>7, <1>8
     DEF Next, HandleConn, WriteLoop, vars, Break, Send, WriteMessage, WriterEnds, Consume

LEMMA RegisteredStep == IInv /\ [Next]_vars => Registered'
<1> SUFFICES ASSUME IInv, [Next]_vars, NEW e \in End, stage'[e] = "open"
             PROVE  swarm'[Owner(e)][Remote(e)] = e
  BY DEF Registered, Owner, Remote, Other
<1>1. CASE stage[e] = "open"
  <2>1. swarm[Owner(e)][Remote(e)] = e
    BY <1>1 DEF IInv, Registered
  <2> QED
    BY <2>1, Ends, SwarmKept
<1>2. CASE stage[e] # "open"
  <2>1. PICK x \in End : /\ swarm' = [swarm EXCEPT ![Owner(x)][Remote(x)] = x]
                         /\ stage' = [stage EXCEPT ![x] = "open"]
    BY <1>2, SwarmStep
  <2>2. x = e
    BY <1>2, <2>1 DEF IInv, TypeOK
  <2> QED
    BY <2>1, <2>2, Ends DEF IInv, TypeOK
<1> QED
  BY <1>1, <1>2

LEMMA AdmittedStep == IInv /\ [Next]_vars => Admitted'
<1> SUFFICES ASSUME IInv, [Next]_vars, NEW n \in Node, NEW m \in Node, swarm'[n][m] # NoEnd
             PROVE  /\ Owner(swarm'[n][m]) = n /\ Remote(swarm'[n][m]) = m
                    /\ ValidHandshake(swarm'[n][m])
  BY DEF Admitted, ValidHandshake, Owner, Remote, Other
<1>1. CASE swarm'[n][m] = swarm[n][m]
  BY <1>1 DEF IInv, Admitted
<1>2. ASSUME NEW e \in End, stage[e] = "register",
             swarm' = [swarm EXCEPT ![Owner(e)][Remote(e)] = e], swarm'[n][m] # swarm[n][m]
      PROVE  swarm'[n][m] = e /\ n = Owner(e) /\ m = Remote(e) /\ ValidHandshake(e)
  BY <1>2, Ends DEF IInv, TypeOK, Validated
<1> QED
  BY <1>1, <1>2, SwarmStep

LEMMA GreetedStep == IInv /\ [Next]_vars => Greeted'
<1> SUFFICES ASSUME IInv, [Next]_vars, NEW e \in End, swarm'[Owner(e)][Remote(e)] = e
             PROVE  sent'[e] > 0
  BY DEF Greeted, Owner, Remote, Other
<1>t. /\ sent \in [End -> Nat] /\ swarm \in [Node -> [Node -> End \cup {NoEnd}]]
  BY TransportConstants DEF IInv, TypeOK
<1>1. CASE swarm[Owner(e)][Remote(e)] = e
  <2>1. sent[e] > 0
    BY <1>1 DEF IInv, Greeted
  <2>2. CASE UNCHANGED sent
    BY <2>1, <2>2
  <2>3. ASSUME NEW x \in End, OnPeer(x) PROVE sent'[e] > 0
    BY <1>t, <2>1, <2>3 DEF OnPeer
  <2>4. ASSUME NEW x \in End, Send(x) PROVE sent'[e] > 0
    BY <1>t, <2>1, <2>4 DEF Send
  <2> QED
    BY <2>2, <2>3, <2>4
       DEF Next, vars, Dial, Break, HandleConn, WriteLoop, WriteHandshake, ReadHandshake,
           HandshakeFails, ReadMessage, ReadFails, ShutSocket, WriteMessage, WriterEnds, Consume
<1>2. CASE swarm[Owner(e)][Remote(e)] # e
  <2>1. PICK x \in End : /\ swarm' = [swarm EXCEPT ![Owner(x)][Remote(x)] = x]
                         /\ sent' = [sent EXCEPT ![x] = 1]
    BY <1>2, SwarmStep
  <2>2. x = e
    BY <1>t, <1>2, <2>1, Ends
  <2> QED
    BY <1>t, <2>1, <2>2
<1> QED
  BY <1>1, <1>2

-----------------------------------------------------------------------------
(* The rpc channels. *)

LEMMA PassedType ==
    ASSUME TypeOK, NEW e \in End
    PROVE  Passed(e) \in Nat /\ Len(rpc[Remote(e)]) \in Nat
<1>1. got[e] \in Nat /\ Len(rpc[Remote(e)]) \in Nat
  BY Ends, LenProperties DEF TypeOK
<1> QED
  BY <1>1, PlacesFinite DEF Passed

\* A message is read: m joins the channel of the owner.
Delivers(e) ==
    /\ ReadMessage(e)
    /\ rpc' = [rpc EXCEPT ![Owner(e)] =
                  Append(@, [from |-> Other(e), num |-> Head(wire[Other(e)])])]
    /\ UNCHANGED <<stage, outboxClosed>>

LEMMA ReadSplit ==
    ASSUME NEW e \in End, ReadMessage(e)
    PROVE  Delivers(e) \/ (Close(e) /\ UNCHANGED <<rpc, got>>)
  BY DEF ReadMessage, Delivers

LEMMA Delivery ==
    ASSUME IInv, NEW e \in End, Delivers(e)
    PROVE  /\ \A n \in Node : n # Owner(e) => rpc'[n] = rpc[n]
           /\ Len(rpc[Owner(e)]) \in Nat
           /\ Len(rpc'[Owner(e)]) = Len(rpc[Owner(e)]) + 1
           /\ \A k \in 1..Len(rpc[Owner(e)]) : rpc'[Owner(e)][k] = rpc[Owner(e)][k]
           /\ rpc'[Owner(e)][Len(rpc[Owner(e)]) + 1] =
                [from |-> Other(e), num |-> 1 + Passed(Other(e))]
           /\ \A f \in End :
                /\ \A k \in 1..Len(rpc[Owner(e)]) :
                       Places(rpc'[Owner(e)], f, k) = Places(rpc[Owner(e)], f, k)
                /\ Cardinality(Places(rpc'[Owner(e)], f, Len(rpc[Owner(e)]) + 1)) =
                     Cardinality(Places(rpc[Owner(e)], f, Len(rpc[Owner(e)])))
                        + IF f = Other(e) THEN 1 ELSE 0
<1> DEFINE m == [from |-> Other(e), num |-> Head(wire[Other(e)])]
           R == [from : End, num : 1..MaxSends]
           s == rpc[Owner(e)]
<1>1. m \in R /\ m = [from |-> Other(e), num |-> 1 + Passed(Other(e))] /\ m.from = Other(e)
  BY NextOne, Ends DEF Delivers, ReadMessage
<1>2. s \in Seq(R) /\ rpc \in [Node -> Seq(R)] /\ Owner(e) \in Node
  BY Ends DEF IInv, TypeOK
<1>3. rpc'[Owner(e)] = Append(s, m) /\ \A n \in Node : n # Owner(e) => rpc'[n] = rpc[n]
  BY <1>2 DEF Delivers
<1> HIDE DEF m, R, s
<1>4. /\ Len(s) \in Nat /\ Len(Append(s, m)) = Len(s) + 1
      /\ \A k \in 1..Len(s) : Append(s, m)[k] = s[k]
      /\ Append(s, m)[Len(s) + 1] = m
  BY <1>1, <1>2, AppendProperties, LenProperties
<1>5. \A f \in End :
          /\ \A k \in 1..Len(s) : Places(Append(s, m), f, k) = Places(s, f, k)
          /\ Cardinality(Places(Append(s, m), f, Len(s) + 1)) =
               Cardinality(Places(s, f, Len(s))) + IF m.from = f THEN 1 ELSE 0
  BY <1>1, <1>2, PlacesAppend
<1> QED
  BY <1>1, <1>3, <1>4, <1>5 DEF s

LEMMA Consumption ==
    ASSUME IInv, NEW n \in Node, Consume(n)
    PROVE  LET h == Head(rpc[n])
           IN  /\ h.from \in End /\ Remote(h.from) = n /\ h.num = got[h.from] + 1
               /\ got' = [got EXCEPT ![h.from] = got[h.from] + 1]
               /\ h = rpc[n][1] /\ 1 \in DOMAIN rpc[n]
               /\ \A x \in Node : x # n => rpc'[x] = rpc[x]
               /\ Len(rpc[n]) \in Nat \ {0} /\ Len(rpc'[n]) = Len(rpc[n]) - 1
               /\ \A k \in 1..Len(rpc'[n]) : rpc'[n][k] = rpc[n][k + 1]
               /\ \A e \in End : \A k \in 0..Len(rpc'[n]) :
                    Cardinality(Places(rpc[n], e, k + 1)) =
                      Cardinality(Places(rpc'[n], e, k)) + IF h.from = e THEN 1 ELSE 0
<1> DEFINE R == [from : End, num : 1..MaxSends]
           s == rpc[n]
           h == Head(s)
<1>1. s \in Seq(R) /\ s # <<>> /\ rpc' = [rpc EXCEPT ![n] = Tail(s)] /\ rpc \in [Node -> Seq(R)]
      /\ got' = [got EXCEPT ![h.from] = h.num] /\ got \in [End -> 0..MaxSends]
  BY DEF Consume, IInv, TypeOK
<1>2. h \in R => h.from \in End
  OBVIOUS
<1> HIDE DEF R, s, h
<1>3. /\ Len(s) \in Nat \ {0} /\ Len(Tail(s)) = Len(s) - 1
      /\ \A k \in 1..Len(Tail(s)) : Tail(s)[k] = s[k + 1]
      /\ h = s[1] /\ 1 \in DOMAIN s /\ h \in R
  BY <1>1, HeadTailProperties, LenProperties, EmptySeq DEF h
<1>4. \A e \in End : \A k \in 0..(Len(s) - 1) :
          Cardinality(Places(s, e, k + 1)) =
            Cardinality(Places(Tail(s), e, k)) + IF h.from = e THEN 1 ELSE 0
  BY <1>1, PlacesTail DEF h
<1>5. h.from \in End /\ Remote(h.from) = n
  BY <1>2, <1>3 DEF IInv, Sources, s
<1>6. h.num = got[h.from] + Cardinality(Places(s, h.from, 1))
  BY <1>3 DEF IInv, NoGaps, s
<1>7. Cardinality(Places(s, h.from, 1)) = 1
  <2>1. Places(Tail(s), h.from, 0) = {}
    BY DEF Places
  <2>2. Cardinality(Places(s, h.from, 0 + 1)) =
          Cardinality(Places(Tail(s), h.from, 0)) + IF h.from = h.from THEN 1 ELSE 0
    BY <1>3, <1>4, <1>5
  <2> QED
    BY <2>1, <2>2, FS_EmptySet
<1>8. rpc'[n] = Tail(s) /\ \A x \in Node : x # n => rpc'[x] = rpc[x]
  BY <1>1
<1> QED
  BY <1>1, <1>3, <1>4, <1>5, <1>6, <1>7, <1>8 DEF h, s

LEMMA RpcStep ==
    ASSUME [Next]_vars
    PROVE  \/ UNCHANGED <<rpc, got>>
           \/ \E e \in End : Delivers(e) /\ UNCHANGED got
           \/ \E n \in Node : Consume(n)
<1>1. ASSUME NEW e \in End, ReadMessage(e)
      PROVE  UNCHANGED <<rpc, got>> \/ (Delivers(e) /\ UNCHANGED got)
  BY <1>1, ReadSplit DEF ReadMessage
<1> QED
  BY <1>1
     DEF Next, vars, Dial, Break, HandleConn, WriteLoop, WriteHandshake, ReadHandshake,
         HandshakeFails, OnPeer, ReadFails, ShutSocket, Send, WriteMessage, WriterEnds

LEMMA SourcesStep == IInv /\ [Next]_vars => Sources'
<1> SUFFICES ASSUME IInv, [Next]_vars PROVE Sources'
  OBVIOUS
<1>0. \A e \in End : /\ Other(e)' = Other(e) /\ Owner(e)' = Owner(e) /\ Remote(e)' = Remote(e)
                     /\ Owner(e) \in Node /\ Remote(e) \in Node /\ Other(e) # NoEnd
  <2>1. \A e \in End : Other(e)' = Other(e) /\ Owner(e)' = Owner(e) /\ Remote(e)' = Remote(e)
    BY DEF Other, Owner, Remote
  <2>2. \A e \in End : Owner(e) \in Node /\ Remote(e) \in Node /\ Other(e) # NoEnd
    BY Ends
  <2> QED
    BY <2>1, <2>2
<1> DEFINE Known(e) == swarm[Remote(e)][Owner(e)] = Other(e)
           KnownNext(e) == swarm'[Remote(e)][Owner(e)] = Other(e)
<1>1. \A e \in End : Known(e) => KnownNext(e)
  BY <1>0, SwarmKept
<1>2. \A n \in Node : \A k \in DOMAIN rpc[n] :
          rpc[n][k].from \in End /\ Remote(rpc[n][k].from) = n /\ Known(rpc[n][k].from)
  <2> SUFFICES ASSUME NEW n \in Node, NEW k \in DOMAIN rpc[n]
               PROVE  rpc[n][k].from \in End /\ Remote(rpc[n][k].from) = n /\ Known(rpc[n][k].from)
    OBVIOUS
  <2>1. rpc[n] \in Seq([from : End, num : 1..MaxSends])
    BY DEF IInv, TypeOK
  <2>2. rpc[n][k] \in [from : End, num : 1..MaxSends]
    BY <2>1, ElementOfSeq, LenProperties
  <2> QED
    BY <2>2 DEF IInv, Sources
<1>3. \A e \in End : got[e] > 0 => Known(e)
  BY DEF IInv, Sources
<1> HIDE DEF Known
<1>t. /\ got \in [End -> 0..MaxSends]
      /\ \A n \in Node : /\ DOMAIN rpc[n] = 1..Len(rpc[n])
                         /\ DOMAIN rpc'[n] = 1..Len(rpc'[n])
  BY TypeStep, LenProperties DEF IInv, TypeOK
<1> SUFFICES /\ \A n \in Node : \A k \in DOMAIN rpc'[n] :
                    rpc'[n][k].from \in End /\ Remote(rpc'[n][k].from) = n
                    /\ KnownNext(rpc'[n][k].from)
             /\ \A e \in End : got'[e] > 0 => KnownNext(e)
  BY <1>0 DEF Sources
<1> HIDE DEF KnownNext
<1>4. CASE UNCHANGED <<rpc, got>>
  BY <1>1, <1>2, <1>3, <1>4
<1>5. ASSUME NEW e \in End, Delivers(e), UNCHANGED got
      PROVE  /\ \A n \in Node : \A k \in DOMAIN rpc'[n] :
                    rpc'[n][k].from \in End /\ Remote(rpc'[n][k].from) = n
                    /\ KnownNext(rpc'[n][k].from)
             /\ \A x \in End : got'[x] > 0 => KnownNext(x)
  <2>1. Known(Other(e)) /\ Other(e) \in End /\ Remote(Other(e)) = Owner(e)
    <3>1. stage[e] = "open"
      BY <1>5 DEF Delivers, ReadMessage
    <3>2. swarm[Owner(e)][Remote(e)] = e
      BY <3>1 DEF IInv, Registered
    <3> QED
      BY <3>2, Ends DEF Known, Remote
  <2>2. \A n \in Node : \A k \in DOMAIN rpc'[n] :
           \/ k \in DOMAIN rpc[n] /\ rpc'[n][k] = rpc[n][k]
           \/ n = Owner(e) /\ rpc'[n][k].from = Other(e)
    <3> SUFFICES ASSUME NEW n \in Node, NEW k \in DOMAIN rpc'[n]
                 PROVE  \/ k \in DOMAIN rpc[n] /\ rpc'[n][k] = rpc[n][k]
                        \/ n = Owner(e) /\ rpc'[n][k].from = Other(e)
      OBVIOUS
    <3>1. CASE n # Owner(e)
      BY <1>5, <3>1, Delivery
    <3>2. CASE n = Owner(e)
      <4>1. /\ Len(rpc[n]) \in Nat /\ Len(rpc'[n]) = Len(rpc[n]) + 1
            /\ \A i \in 1..Len(rpc[n]) : rpc'[n][i] = rpc[n][i]
            /\ rpc'[n][Len(rpc[n]) + 1] = [from |-> Other(e), num |-> 1 + Passed(Other(e))]
        BY <1>5, <3>2, Delivery
      <4>2. k \in 1..Len(rpc[n]) \/ k = Len(rpc[n]) + 1
        BY <1>t, <4>1
      <4> QED
        BY <1>t, <3>2, <4>1, <4>2
    <3> QED
      BY <3>1, <3>2
  <2>3. \A n \in Node : \A k \in DOMAIN rpc'[n] :
            rpc'[n][k].from \in End /\ Remote(rpc'[n][k].from) = n
            /\ KnownNext(rpc'[n][k].from)
    BY <1>1, <1>2, <2>1, <2>2
  <2> QED
    BY <1>1, <1>3, <1>5, <2>3
<1>6. ASSUME NEW n \in Node, Consume(n)
      PROVE  /\ \A x \in Node : \A k \in DOMAIN rpc'[x] :
                    rpc'[x][k].from \in End /\ Remote(rpc'[x][k].from) = x
                    /\ KnownNext(rpc'[x][k].from)
             /\ \A e \in End : got'[e] > 0 => KnownNext(e)
  <2> DEFINE h == Head(rpc[n])
  <2>1. /\ h = rpc[n][1] /\ 1 \in DOMAIN rpc[n] /\ h.from \in End
        /\ got' = [got EXCEPT ![h.from] = got[h.from] + 1]
        /\ \A x \in Node : x # n => rpc'[x] = rpc[x]
        /\ Len(rpc[n]) \in Nat \ {0} /\ Len(rpc'[n]) = Len(rpc[n]) - 1
        /\ \A k \in 1..Len(rpc'[n]) : rpc'[n][k] = rpc[n][k + 1]
    BY <1>6, Consumption
  <2> HIDE DEF h
  <2>2. \A k \in 1..Len(rpc'[n]) : k + 1 \in DOMAIN rpc[n]
    BY <1>t, <2>1
  <2>3. \A x \in Node : \A k \in DOMAIN rpc'[x] :
            rpc'[x][k].from \in End /\ Remote(rpc'[x][k].from) = x
            /\ KnownNext(rpc'[x][k].from)
    <3>1. \A x \in Node : \A k \in DOMAIN rpc'[x] :
              \E i \in DOMAIN rpc[x] : rpc'[x][k] = rpc[x][i]
      BY <1>t, <2>1, <2>2
    <3> QED
      BY <1>1, <1>2, <3>1
  <2>4. Known(h.from)
    BY <1>2, <2>1
  <2>5. \A e \in End : got'[e] > 0 => KnownNext(e)
    BY <1>t, <1>1, <1>3, <2>1, <2>4
  <2> QED
    BY <2>3, <2>5
<1> QED
  BY <1>4, <1>5, <1>6, RpcStep

LEMMA NoGapsStep == IInv /\ [Next]_vars => NoGaps'
<1> SUFFICES ASSUME IInv, [Next]_vars, NEW n \in Node, NEW k \in DOMAIN rpc'[n]
             PROVE  rpc'[n][k].num = got'[rpc'[n][k].from]
                        + Cardinality(Places(rpc'[n], rpc'[n][k].from, k))
  BY DEF NoGaps, Places
<1>t. /\ got \in [End -> Nat]
      /\ DOMAIN rpc[n] = 1..Len(rpc[n]) /\ Len(rpc[n]) \in Nat
      /\ k \in 1..Len(rpc'[n])
      /\ \A i \in DOMAIN rpc[n] : rpc[n][i].from \in End
  <2>1. rpc[n] \in Seq([from : End, num : 1..MaxSends]) /\ got \in [End -> 0..MaxSends]
    BY DEF IInv, TypeOK
  <2>2. rpc'[n] \in Seq([from : End, num : 1..MaxSends])
    BY TypeStep DEF TypeOK
  <2>3. DOMAIN rpc[n] = 1..Len(rpc[n]) /\ Len(rpc[n]) \in Nat /\ k \in 1..Len(rpc'[n])
    BY <2>1, <2>2, LenProperties
  <2>4. \A i \in DOMAIN rpc[n] : rpc[n][i] \in [from : End, num : 1..MaxSends]
    BY <2>1, <2>3, ElementOfSeq
  <2> QED
    BY <2>1, <2>3, <2>4, TransportConstants
<1>n. \A i \in DOMAIN rpc[n] :
         rpc[n][i].num = got[rpc[n][i].from] + Cardinality(Places(rpc[n], rpc[n][i].from, i))
  BY DEF IInv, NoGaps
<1>1. CASE UNCHANGED <<rpc, got>>
  BY <1>n, <1>1
<1>2. ASSUME NEW e \in End, Delivers(e), UNCHANGED got
      PROVE  rpc'[n][k].num = got'[rpc'[n][k].from]
                + Cardinality(Places(rpc'[n], rpc'[n][k].from, k))
  <2>1. CASE n # Owner(e)
    BY <1>t, <1>n, <1>2, <2>1, Delivery
  <2>2. CASE n = Owner(e) /\ k \in 1..Len(rpc[n])
    <3>1. rpc'[n][k] = rpc[n][k] /\ rpc[n][k].from \in End
      BY <1>t, <1>2, <2>2, Delivery
    <3>2. Places(rpc'[n], rpc[n][k].from, k) = Places(rpc[n], rpc[n][k].from, k)
      BY <1>2, <2>2, <3>1, Delivery
    <3> QED
      BY <1>t, <1>n, <1>2, <2>2, <3>1, <3>2
  <2>3. CASE n = Owner(e) /\ k \notin 1..Len(rpc[n])
    <3> DEFINE f == Other(e)
    <3>1. f \in End /\ Remote(f) = n
      BY <2>3, Ends
    <3>2. k = Len(rpc[n]) + 1
      <4>1. Len(rpc'[n]) = Len(rpc[n]) + 1
        BY <1>2, <2>3, Delivery
      <4> QED
        BY <1>t, <2>3, <4>1
    <3>3. rpc'[n][k] = [from |-> f, num |-> 1 + Passed(f)]
      BY <1>2, <2>3, <3>2, Delivery
    <3>4. Cardinality(Places(rpc'[n], f, k)) = Cardinality(Places(rpc[n], f, Len(rpc[n]))) + 1
      BY <1>2, <2>3, <3>1, <3>2, Delivery
    <3>5. Passed(f) = got[f] + Cardinality(Places(rpc[n], f, Len(rpc[n])))
      BY <3>1 DEF Passed
    <3>6. Cardinality(Places(rpc[n], f, Len(rpc[n]))) \in Nat
      BY <1>t, PlacesFinite
    <3> HIDE DEF f
    <3> QED
      BY <1>t, <1>2, <3>1, <3>3, <3>4, <3>5, <3>6
  <2> QED
    BY <2>1, <2>2, <2>3
<1>3. ASSUME NEW x \in Node, Consume(x)
      PROVE  rpc'[n][k].num = got'[rpc'[n][k].from]
                + Cardinality(Places(rpc'[n], rpc'[n][k].from, k))
  <2> DEFINE h == Head(rpc[x])
  <2>1. /\ h.from \in End /\ Remote(h.from) = x
        /\ got' = [got EXCEPT ![h.from] = got[h.from] + 1]
        /\ \A y \in Node : y # x => rpc'[y] = rpc[y]
        /\ Len(rpc[x]) \in Nat \ {0} /\ Len(rpc'[x]) = Len(rpc[x]) - 1
        /\ \A i \in 1..Len(rpc'[x]) : rpc'[x][i] = rpc[x][i + 1]
        /\ \A e \in End : \A i \in 0..Len(rpc'[x]) :
             Cardinality(Places(rpc[x], e, i + 1)) =
               Cardinality(Places(rpc'[x], e, i)) + IF h.from = e THEN 1 ELSE 0
    BY <1>3, Consumption
  <2> HIDE DEF h
  <2>2. CASE n # x
    <3>1. rpc'[n] = rpc[n] /\ k \in DOMAIN rpc[n]
      BY <2>1, <2>2
    <3>2. Remote(rpc[n][k].from) = n
      BY <3>1 DEF IInv, Sources
    <3>3. got'[rpc[n][k].from] = got[rpc[n][k].from]
      BY <1>t, <2>1, <2>2, <3>1, <3>2
    <3> QED
      BY <1>n, <3>1, <3>3
  <2>3. CASE n = x
    <3> DEFINE e == rpc[n][k + 1].from
    <3>1. rpc'[n][k] = rpc[n][k + 1] /\ k + 1 \in DOMAIN rpc[n] /\ k \in 0..Len(rpc'[n])
      BY <1>t, <2>1, <2>3
    <3>2. e \in End /\ rpc[n][k + 1].num = got[e] + Cardinality(Places(rpc[n], e, k + 1))
      BY <1>t, <1>n, <3>1
    <3>3. Cardinality(Places(rpc[n], e, k + 1)) =
               Cardinality(Places(rpc'[n], e, k)) + IF h.from = e THEN 1 ELSE 0
      BY <2>1, <2>3, <3>1, <3>2
    <3>4. got'[e] = got[e] + IF h.from = e THEN 1 ELSE 0
      BY <1>t, <2>1, <3>2
    <3>5. Cardinality(Places(rpc'[n], e, k)) \in Nat /\ got[e] \in Nat
      BY <1>t, <3>1, <3>2, PlacesFinite
    <3> HIDE DEF e
    <3>6. rpc'[n][k].num = got'[e] + Cardinality(Places(rpc'[n], e, k))
      BY <3>1, <3>2, <3>3, <3>4, <3>5
    <3> QED
      BY <3>1, <3>6 DEF e
  <2> QED
    BY <2>2, <2>3
<1> QED
  BY <1>1, <1>2, <1>3, RpcStep

\* Only what an end reads changes how much is passed on of the other one.
LEMMA PassedStep ==
    ASSUME IInv, [Next]_vars, NEW f \in End
    PROVE  Passed(f)' = Passed(f) + IF Delivers(Other(f)) THEN 1 ELSE 0
<1> DEFINE n == Remote(f)
           s == rpc[n]
<1>0. Passed(f)' = got'[f] + Cardinality(Places(rpc'[n], f, Len(rpc'[n])))
  BY DEF Passed, Remote, Owner, Other, Places
<1>1. /\ n \in Node /\ n = Owner(Other(f)) /\ Other(Other(f)) = f /\ Other(f) \in End
      /\ got[f] \in Nat /\ got \in [End -> 0..MaxSends] /\ Len(s) \in Nat
      /\ Cardinality(Places(s, f, Len(s))) \in Nat
      /\ Passed(f) = got[f] + Cardinality(Places(s, f, Len(s)))
  <2>1. n \in Node /\ Other(Other(f)) = f /\ Other(f) \in End /\ n = Owner(Other(f))
    BY Ends DEF Remote
  <2>2. Len(s) \in Nat /\ TypeOK
    BY PassedType DEF IInv
  <2>3. got[f] \in Nat /\ got \in [End -> 0..MaxSends]
    BY <2>2 DEF TypeOK
  <2>4. Cardinality(Places(s, f, Len(s))) \in Nat
    BY <2>2, PlacesFinite
  <2> QED
    BY <2>1, <2>2, <2>3, <2>4 DEF Passed
<1> HIDE DEF n
<1>2. ASSUME UNCHANGED <<rpc, got>> PROVE Passed(f)' = Passed(f)
  BY <1>0, <1>1, <1>2
<1>3. ASSUME NEW e \in End, Delivers(e), UNCHANGED got
      PROVE  Passed(f)' = Passed(f) + IF e = Other(f) THEN 1 ELSE 0
  <2>1. CASE n # Owner(e)
    <3>1. e # Other(f) /\ rpc'[n] = s
      BY <1>1, <1>3, <2>1, Delivery
    <3> QED
      BY <1>0, <1>1, <1>3, <3>1
  <2>2. CASE n = Owner(e)
    <3>1. /\ Len(rpc'[n]) = Len(s) + 1
          /\ Cardinality(Places(rpc'[n], f, Len(s) + 1)) =
               Cardinality(Places(s, f, Len(s))) + IF f = Other(e) THEN 1 ELSE 0
      BY <1>3, <2>2, Delivery
    <3>2. f = Other(e) <=> e = Other(f)
      BY Ends
    <3> QED
      BY <1>0, <1>1, <1>3, <3>1, <3>2
  <2> QED
    BY <2>1, <2>2
<1>4. ASSUME NEW x \in Node, Consume(x) PROVE Passed(f)' = Passed(f)
  <2> DEFINE h == Head(rpc[x])
  <2>1. /\ h.from \in End /\ Remote(h.from) = x
        /\ got' = [got EXCEPT ![h.from] = got[h.from] + 1]
        /\ \A y \in Node : y # x => rpc'[y] = rpc[y]
        /\ Len(rpc[x]) \in Nat \ {0} /\ Len(rpc'[x]) = Len(rpc[x]) - 1
        /\ \A e \in End : \A i \in 0..Len(rpc'[x]) :
             Cardinality(Places(rpc[x], e, i + 1)) =
               Cardinality(Places(rpc'[x], e, i)) + IF h.from = e THEN 1 ELSE 0
    BY <1>4, Consumption
  <2> HIDE DEF h
  <2>2. CASE n # x
    <3>1. got'[f] = got[f]
      BY <1>1, <2>1, <2>2 DEF n
    <3> QED
      BY <1>0, <1>1, <2>1, <2>2, <3>1
  <2>3. CASE n = x
    <3>1. Len(rpc'[n]) \in 0..Len(rpc'[x]) /\ Len(rpc'[n]) + 1 = Len(s)
      BY <2>1, <2>3
    <3>2. Cardinality(Places(s, f, Len(s))) =
               Cardinality(Places(rpc'[n], f, Len(rpc'[n]))) + IF h.from = f THEN 1 ELSE 0
      BY <2>1, <2>3, <3>1
    <3>3. got'[f] = got[f] + IF h.from = f THEN 1 ELSE 0
      BY <1>1, <2>1
    <3>4. Cardinality(Places(rpc'[n], f, Len(rpc'[n]))) \in Nat
      BY <3>1, PlacesFinite
    <3> QED
      BY <1>0, <1>1, <3>2, <3>3, <3>4
  <2> QED
    BY <2>2, <2>3
<1>5. CASE Delivers(Other(f))
  <2>1. UNCHANGED got
    BY <1>5 DEF Delivers, ReadMessage
  <2> QED
    BY <1>1, <1>3, <1>5, <2>1
<1>6. CASE ~Delivers(Other(f))
  <2>1. Passed(f) \in Nat
    BY <1>1
  <2> QED
    BY <1>2, <1>3, <1>4, <1>6, <2>1, RpcStep
<1> QED
  BY <1>5, <1>6

-----------------------------------------------------------------------------
(* Outboxes and sockets. *)

\* What a step does to how far an end is.
LEMMA Marks ==
    ASSUME IInv, [Next]_vars, NEW e \in End
    PROVE  /\ Alive(e)' => Alive(e)
           /\ Unwritten(e)' => Unwritten(e) /\ ~WriteHandshake(e)
           /\ Alive(e)' => (Unread(e)' <=> (Unread(e) /\ ~ReadHandshake(e)))
           /\ Speaks(e)' => Speaks(e) \/ WriteHandshake(e)
<1> DEFINE Goal == /\ Alive(e)' => Alive(e)
                   /\ Unwritten(e)' => Unwritten(e) /\ ~WriteHandshake(e)
                   /\ Alive(e)' => (Unread(e)' <=> (Unread(e) /\ ~ReadHandshake(e)))
                   /\ Speaks(e)' => Speaks(e) \/ WriteHandshake(e)
<1>0. TypeOK /\ stage \in [End -> Stage] /\ sent \in [End -> Nat]
  <2>1. TypeOK
    BY DEF IInv
  <2>2. stage \in [End -> Stage] /\ sent \in [End -> 0..MaxSends]
    BY <2>1 DEF TypeOK
  <2> QED
    BY <2>1, <2>2, TransportConstants
<1>d. e[2] \in {"out", "in"}
  BY Ends
<1>h. ASSUME HandshakeHalf(e), stage[e] \in {"write", "read"}
      PROVE  \/ e[2] = "out" /\ stage[e] = "write" /\ stage'[e] = "read"
             \/ e[2] = "in" /\ stage[e] = "read" /\ stage'[e] = "write"
             \/ /\ (e[2] = "out" /\ stage[e] = "read") \/ (e[2] = "in" /\ stage[e] = "write")
                /\ stage'[e] \in {"register", "closing"}
  BY <1>0, <1>h, Half
<1>w. WriteHandshake(e) =>
         /\ stage[e] = "write"
         /\ e[2] = "out" => stage'[e] = "read"
         /\ e[2] = "in" => stage'[e] \in {"register", "closing"}
  BY <1>h DEF WriteHandshake
<1>r. ReadHandshake(e) =>
         /\ stage[e] = "read"
         /\ e[2] = "in" => stage'[e] = "write"
         /\ e[2] = "out" => stage'[e] \in {"register", "closing"}
         /\ UNCHANGED sent
  BY <1>h DEF ReadHandshake
<1>1. ASSUME stage'[e] = stage[e], sent'[e] = sent[e] PROVE Goal
  BY <1>d, <1>w, <1>r, <1>1 DEF Alive, Unwritten, Unread, Speaks
<1>2. CASE UNCHANGED vars
  BY <1>1, <1>2 DEF vars
<1>3. ASSUME NEW c \in Conn, Dial(c) PROVE Goal
  <2>1. CASE e[1] # c
    BY <1>0, <1>1, <1>3, <2>1 DEF Dial
  <2>2. CASE e[1] = c
    <3>1. e \in {c} \X {"out", "in"}
      BY <2>2 DEF End
    <3>2. stage[e] = "idle" /\ stage'[e] = HandshakeOrder(e)[1]
      BY <1>3, <2>2, <3>1 DEF Dial
    <3>3. stage'[e] = IF e[2] = "out" THEN "write" ELSE "read"
      BY <1>d, <3>2 DEF HandshakeOrder
    <3> QED
      BY <1>d, <1>w, <1>r, <3>2, <3>3 DEF Alive, Unwritten, Unread, Speaks
  <2> QED
    BY <2>1, <2>2
<1>4. ASSUME NEW x \in End, x # e, HandleConn(x) PROVE Goal
  <2>1. stage'[e] = stage[e]
    <3>1. ASSUME WriteHandshake(x) \/ ReadHandshake(x) PROVE stage'[e] = stage[e]
      <4>1. stage' = [stage EXCEPT ![x] = stage'[x]]
        BY <1>0, <3>1, Half DEF WriteHandshake, ReadHandshake
      <4> QED
        BY <1>0, <1>4, <4>1
    <3>2. ASSUME ReadMessage(x) PROVE stage'[e] = stage[e]
      BY <1>0, <1>4, <3>2 DEF ReadMessage, Close
    <3> QED
      BY <1>0, <1>4, <3>1, <3>2 DEF HandleConn, HandshakeFails, OnPeer, ReadFails, ShutSocket, Close
  <2>2. sent'[e] = sent[e]
    BY <1>0, <1>4
       DEF HandleConn, WriteHandshake, ReadHandshake, HandshakeFails, OnPeer, ReadMessage,
           ReadFails, ShutSocket
  <2> QED
    BY <1>1, <2>1, <2>2
<1>5. ASSUME HandshakeFails(e) PROVE Goal
  <2>1. /\ stage[e] \in {"write", "read"} /\ stage'[e] = "closing" /\ sent'[e] = sent[e]
        /\ sent[e] = 0
    BY <1>0, <1>5 DEF HandshakeFails, Close, IInv, Fresh
  <2> QED
    BY <1>d, <1>w, <2>1 DEF Alive, Unwritten, Unread, Speaks
<1>6. ASSUME OnPeer(e) PROVE Goal
  <2>1. /\ stage[e] = "register"
        /\ stage'[e] = "open" \/ (stage'[e] = "closing" /\ sent'[e] = sent[e])
    BY <1>0, <1>6 DEF OnPeer, Close
  <2> QED
    BY <1>w, <1>r, <2>1 DEF Alive, Unwritten, Unread, Speaks
<1>7. ASSUME ReadMessage(e) \/ ReadFails(e) PROVE Goal
  <2>1. /\ stage[e] = "open" /\ sent'[e] = sent[e]
        /\ stage'[e] = "closing" \/ stage'[e] = stage[e]
    BY <1>0, <1>7 DEF ReadMessage, ReadFails, Close
  <2> QED
    BY <1>1, <1>w, <1>r, <2>1 DEF Alive, Unwritten, Unread, Speaks
<1>8. ASSUME ShutSocket(e) PROVE Goal
  <2>1. stage[e] = "closing" /\ stage'[e] = "closed"
    BY <1>0, <1>8 DEF ShutSocket
  <2> QED
    BY <1>w, <1>r, <2>1 DEF Alive, Unwritten, Unread, Speaks
<1>9. ASSUME WriteHandshake(e) PROVE Goal
  <2>1. ~ReadHandshake(e)
    BY <1>9, <1>r, <1>w
  <2> QED
    BY <1>9, <1>d, <1>w, <2>1 DEF Alive, Unwritten, Unread, Speaks
<1>10. ASSUME ReadHandshake(e) PROVE Goal
  <2>1. ~WriteHandshake(e) /\ sent[e] = 0
    BY <1>0, <1>10, <1>r, <1>w DEF IInv, Fresh
  <2> QED
    BY <1>10, <1>d, <1>r, <2>1 DEF Alive, Unwritten, Unread, Speaks
<1>11. ASSUME NEW x \in End, Send(x) PROVE Goal
  <2>1. stage'[e] = stage[e]
    BY <1>11 DEF Send
  <2>2. CASE x # e
    BY <1>0, <1>1, <1>11, <2>1, <2>2 DEF Send
  <2>3. CASE x = e
    <3>1. sent[e] > 0
      BY <1>11, <2>3 DEF Send, IInv, Greeted
    <3> QED
      BY <1>d, <1>w, <1>r, <2>1, <3>1 DEF Alive, Unwritten, Unread, Speaks
  <2> QED
    BY <2>2, <2>3
<1>12. ASSUME NEW x \in End, WriteLoop(x) PROVE Goal
  BY <1>1, <1>12 DEF WriteLoop, WriteMessage, WriterEnds
<1>13. ASSUME NEW n \in Node, Consume(n) PROVE Goal
  BY <1>1, <1>13 DEF Consume
<1>14. ASSUME NEW c \in Conn, Break(c) PROVE Goal
  BY <1>1, <1>14 DEF Break
<1> QED
  BY <1>2, <1>3, <1>4, <1>5, <1>6, <1>7, <1>8, <1>9, <1>10, <1>11, <1>12, <1>13, <1>14
     DEF Next, HandleConn

\* A step that is not about what e says: of e's own, or of its reader.
LEMMA Apart ==
    ASSUME IInv, [Next]_vars, NEW e \in End,
           ~WriteHandshake(e), ~ReadHandshake(Other(e)), ~ReadMessage(Other(e)),
           ~OnPeer(e), ~Send(e), ~WriteMessage(e)
    PROVE  /\ wire'[e] = wire[e] /\ outbox'[e] = outbox[e] /\ sent'[e] = sent[e]
           /\ Alive(Other(e))' => Alive(Other(e)) /\ ReadOf(e)' = ReadOf(e)
           /\ Speaks(e)' => Speaks(e)
           /\ broken \subseteq broken'
<1>0. /\ DOMAIN wire = End /\ DOMAIN outbox = End /\ DOMAIN sent = End
      /\ Other(e) \in End /\ \A x \in End : Other(x) = e => x = Other(e)
  BY Ends DEF IInv, TypeOK
<1>1. wire'[e] = wire[e] /\ outbox'[e] = outbox[e] /\ sent'[e] = sent[e] /\ broken \subseteq broken'
  <2>1. CASE UNCHANGED vars
    BY <2>1 DEF vars
  <2>2. ASSUME NEW c \in Conn, Dial(c) \/ Break(c)
        PROVE  UNCHANGED <<wire, outbox, sent>> /\ broken \subseteq broken'
    BY <2>2 DEF Dial, Break
  <2>3. ASSUME NEW n \in Node, Consume(n) PROVE UNCHANGED <<wire, outbox, sent, broken>>
    BY <2>3 DEF Consume
  <2>4. ASSUME NEW x \in End, WriteLoop(x)
        PROVE  wire'[e] = wire[e] /\ outbox'[e] = outbox[e] /\ UNCHANGED <<sent, broken>>
    BY <1>0, <2>4 DEF WriteLoop, WriteMessage, WriterEnds
  <2>5. ASSUME NEW x \in End, Send(x)
        PROVE  outbox'[e] = outbox[e] /\ sent'[e] = sent[e] /\ UNCHANGED <<wire, broken>>
    BY <1>0, <2>5 DEF Send
  <2>6. ASSUME NEW x \in End, WriteHandshake(x) \/ ReadHandshake(x) \/ ReadMessage(x)
        PROVE  wire'[e] = wire[e] /\ UNCHANGED <<outbox, sent, broken>>
    BY <1>0, <2>6 DEF WriteHandshake, ReadHandshake, ReadMessage
  <2>7. ASSUME NEW x \in End, OnPeer(x)
        PROVE  outbox'[e] = outbox[e] /\ sent'[e] = sent[e] /\ UNCHANGED <<wire, broken>>
    BY <1>0, <2>7 DEF OnPeer
  <2>8. ASSUME NEW x \in End, HandshakeFails(x) \/ ReadFails(x) \/ ShutSocket(x)
        PROVE  UNCHANGED <<wire, outbox, sent, broken>>
    BY <2>8 DEF HandshakeFails, ReadFails, ShutSocket
  <2> QED
    BY <2>1, <2>2, <2>3, <2>4, <2>5, <2>6, <2>7, <2>8 DEF Next, HandleConn
<1>2. Passed(e)' = Passed(e)
  <2>1. ~Delivers(Other(e))
    BY DEF Delivers
  <2>2. Passed(e) \in Nat
    BY PassedType DEF IInv
  <2> QED
    BY <2>1, <2>2, PassedStep
<1>3. /\ Alive(Other(e))' => Alive(Other(e)) /\ (Unread(Other(e))' <=> Unread(Other(e)))
      /\ Speaks(e)' => Speaks(e)
  BY <1>0, Marks
<1>4. ReadOf(e)' = IF Unread(Other(e))' THEN 0 ELSE 1 + Passed(e)'
  BY DEF ReadOf, Other
<1>5. Alive(Other(e))' => ReadOf(e)' = ReadOf(e)
  BY <1>2, <1>3, <1>4 DEF ReadOf
<1> QED
  BY <1>1, <1>3, <1>5

LEMMA StreamType ==
    ASSUME TypeOK, NEW e \in End
    PROVE  /\ wire[e] \in Seq(0..MaxSends) /\ outbox[e] \in Seq(1..MaxSends)
           /\ DOMAIN wire[e] = 1..Len(wire[e]) /\ DOMAIN outbox[e] = 1..Len(outbox[e])
           /\ Len(wire[e]) \in Nat /\ Len(outbox[e]) \in Nat /\ sent[e] \in Nat
           /\ DOMAIN wire = End /\ DOMAIN outbox = End /\ DOMAIN sent = End /\ DOMAIN stage = End
<1>1. /\ wire[e] \in Seq(0..MaxSends) /\ outbox[e] \in Seq(1..MaxSends) /\ sent[e] \in 0..MaxSends
      /\ DOMAIN wire = End /\ DOMAIN outbox = End /\ DOMAIN sent = End /\ DOMAIN stage = End
  BY DEF TypeOK
<1> QED
  BY <1>1, LenProperties, TransportConstants

LEMMA ReadOfType ==
    ASSUME IInv, NEW e \in End
    PROVE  ReadOf(e) \in Nat
  BY PassedType DEF ReadOf, IInv

\* Nothing was passed on of an end whose handshake is unread.
LEMMA NothingPassed ==
    ASSUME IInv, NEW e \in End, Unread(Other(e))
    PROVE  Passed(e) = 0
<1> DEFINE s == rpc[Remote(e)]
<1>1. swarm[Remote(e)][Owner(e)] # Other(e)
  <2>1. swarm[Owner(Other(e))][Remote(Other(e))] # Other(e)
    BY Ends DEF IInv, Fresh, Unread
  <2> QED
    BY <2>1, Ends DEF Remote
<1>2. got[e] = 0
  BY <1>1 DEF IInv, Sources, TypeOK
<1>3. Places(s, e, Len(s)) = {}
  <2>1. DOMAIN s = 1..Len(s) /\ Remote(e) \in Node
    BY Ends, LenProperties DEF IInv, TypeOK
  <2> QED
    BY <1>1, <2>1 DEF Places, IInv, Sources
<1> QED
  BY <1>2, <1>3, FS_EmptySet DEF Passed

\* What an end writes or sends is nothing to what is read of it.
LEMMA OwnStep ==
    ASSUME IInv, NEW e \in End, WriteHandshake(e) \/ OnPeer(e) \/ Send(e) \/ WriteMessage(e)
    PROVE  (Alive(Other(e))' <=> Alive(Other(e))) /\ ReadOf(e)' = ReadOf(e)
<1>1. UNCHANGED <<rpc, got>>
  BY DEF WriteHandshake, OnPeer, Send, WriteMessage
<1>2. stage'[Other(e)] = stage[Other(e)]
  <2>0. Other(e) \in End /\ Other(e) # e /\ DOMAIN stage = End /\ TypeOK
    BY Ends, StreamType DEF IInv
  <2>1. CASE WriteHandshake(e)
    <3>1. stage' = [stage EXCEPT ![e] = stage'[e]]
      BY <2>0, <2>1, Half DEF WriteHandshake
    <3> QED
      BY <2>0, <3>1
  <2>2. CASE OnPeer(e)
    BY <2>0, <2>2 DEF OnPeer, Close
  <2>3. CASE Send(e) \/ WriteMessage(e)
    BY <2>3 DEF Send, WriteMessage
  <2> QED
    BY <2>1, <2>2, <2>3
<1>3. Passed(e)' = Passed(e)
  BY <1>1 DEF Passed, Places, Remote, Owner, Other
<1> QED
  BY <1>2, <1>3 DEF Alive, ReadOf, Unread, Other

LEMMA InOrderStep == IInv /\ [Next]_vars => InOrder'
<1> SUFFICES ASSUME IInv, [Next]_vars, NEW e \in End, NEW i \in DOMAIN outbox'[e]
             PROVE  outbox'[e][i] = sent'[e] - Len(outbox'[e]) + i
  BY DEF InOrder
<1>0. TypeOK
  BY DEF IInv
<1>1. /\ outbox[e] \in Seq(1..MaxSends) /\ DOMAIN outbox[e] = 1..Len(outbox[e])
      /\ Len(outbox[e]) \in Nat /\ sent[e] \in Nat /\ DOMAIN outbox = End /\ DOMAIN sent = End
  BY <1>0, StreamType
<1>2. i \in 1..Len(outbox'[e])
  BY TypeStep, LenProperties DEF TypeOK
<1>3. \A k \in 1..Len(outbox[e]) : outbox[e][k] = sent[e] - Len(outbox[e]) + k
  BY <1>1 DEF IInv, InOrder
<1>4. CASE outbox'[e] = outbox[e] /\ sent'[e] = sent[e]
  BY <1>2, <1>3, <1>4
<1>5. ASSUME outbox'[e] = Append(outbox[e], sent[e] + 1), sent'[e] = sent[e] + 1,
             sent[e] + 1 \in 1..MaxSends
      PROVE  outbox'[e][i] = sent'[e] - Len(outbox'[e]) + i
  <2>1. /\ Len(outbox'[e]) = Len(outbox[e]) + 1
        /\ \A k \in 1..Len(outbox[e]) : outbox'[e][k] = outbox[e][k]
        /\ outbox'[e][Len(outbox[e]) + 1] = sent[e] + 1
    BY <1>1, <1>5, AppendProperties
  <2>2. CASE i = Len(outbox[e]) + 1
    BY <1>1, <1>5, <2>1, <2>2
  <2>3. CASE i \in 1..Len(outbox[e])
    BY <1>1, <1>3, <1>5, <2>1, <2>3
  <2> QED
    BY <1>1, <1>2, <2>1, <2>2, <2>3
<1>6. CASE OnPeer(e)
  <2>1. CASE swarm[Owner(e)][Remote(e)] # NoEnd
    BY <1>4, <1>6, <2>1 DEF OnPeer
  <2>2. CASE swarm[Owner(e)][Remote(e)] = NoEnd
    <3>1. sent[e] = 0
      BY <1>6 DEF OnPeer, IInv, Fresh
    <3>2. outbox'[e] = Append(outbox[e], 1) /\ sent'[e] = 1
      BY <1>1, <1>6, <2>2 DEF OnPeer
    <3> QED
      BY <1>5, <3>1, <3>2, TransportConstants
  <2> QED
    BY <2>1, <2>2
<1>7. CASE Send(e)
  <2>1. outbox'[e] = Append(outbox[e], sent[e] + 1) /\ sent'[e] = sent[e] + 1
        /\ sent[e] < MaxSends
    BY <1>1, <1>7 DEF Send
  <2> QED
    BY <1>1, <1>5, <2>1, TransportConstants
<1>8. CASE WriteMessage(e)
  <2>1. outbox[e] # <<>> /\ outbox'[e] = Tail(outbox[e]) /\ sent'[e] = sent[e]
    BY <1>1, <1>8 DEF WriteMessage
  <2>2. /\ Len(outbox'[e]) = Len(outbox[e]) - 1
        /\ \A k \in 1..Len(outbox'[e]) : outbox'[e][k] = outbox[e][k + 1]
    BY <1>1, <2>1, HeadTailProperties
  <2>3. i \in 1..Len(outbox'[e]) /\ i + 1 \in 1..Len(outbox[e])
    <3>1. \A l \in Nat : \A j \in 1..(l - 1) : j + 1 \in 1..l
      OBVIOUS
    <3> QED
      BY <1>1, <1>2, <2>2, <3>1
  <2>4. outbox'[e][i] = sent[e] - Len(outbox[e]) + (i + 1)
    BY <1>3, <2>2, <2>3
  <2> QED
    BY <1>1, <2>1, <2>2, <2>3, <2>4
<1>9. CASE WriteHandshake(e) \/ ReadHandshake(Other(e)) \/ ReadMessage(Other(e))
  BY <1>4, <1>9 DEF WriteHandshake, ReadHandshake, ReadMessage
<1> QED
  BY <1>4, <1>6, <1>7, <1>8, <1>9, Apart

LEMMA SilentStep == IInv /\ [Next]_vars => Silent'
<1> SUFFICES ASSUME IInv, [Next]_vars, NEW e \in End, Unwritten(e)'
             PROVE  wire'[e] = <<>> /\ (Alive(Other(e))' => Unread(Other(e))')
  BY DEF Silent, Alive, Unread, Unwritten, Other
<1>1. Unwritten(e) /\ ~WriteHandshake(e)
  BY Marks
<1>2. wire[e] = <<>> /\ (Alive(Other(e)) => Unread(Other(e))) /\ outbox[e] = <<>>
  BY <1>1 DEF IInv, Silent, Fresh, Unwritten
<1>3. ~ReadHandshake(Other(e)) /\ ~ReadMessage(Other(e)) /\ ~WriteMessage(e)
  BY <1>2, Ends DEF ReadHandshake, ReadMessage, WriteMessage
<1>4. Alive(Other(e))' => Unread(Other(e))'
  BY <1>2, <1>3, Ends, Marks
<1>5. wire'[e] = <<>>
  <2>1. CASE OnPeer(e) \/ Send(e)
    BY <1>2, <2>1 DEF OnPeer, Send
  <2>2. CASE ~OnPeer(e) /\ ~Send(e)
    BY <1>1, <1>2, <1>3, <2>2, Apart
  <2> QED
    BY <2>1, <2>2
<1> QED
  BY <1>4, <1>5

LEMMA ContinuedStep == IInv /\ [Next]_vars => Continued'
<1> SUFFICES ASSUME IInv, [Next]_vars, NEW e \in End, Alive(Other(e))', NEW i \in DOMAIN wire'[e]
             PROVE  wire'[e][i] = ReadOf(e)' + i - 1
  BY DEF Continued, Alive, ReadOf, Other
<1>0. TypeOK
  BY DEF IInv
<1>1. /\ wire[e] \in Seq(0..MaxSends) /\ DOMAIN wire[e] = 1..Len(wire[e])
      /\ Len(wire[e]) \in Nat /\ DOMAIN wire = End /\ ReadOf(e) \in Nat
      /\ Other(e) \in End /\ Other(Other(e)) = e /\ Passed(e) \in Nat
  BY <1>0, StreamType, ReadOfType, Ends, PassedType
<1>2. i \in 1..Len(wire'[e])
  BY TypeStep, LenProperties DEF TypeOK
<1>3. /\ Alive(Other(e))
      /\ Unread(Other(e))' <=> Unread(Other(e)) /\ ~ReadHandshake(Other(e))
  BY <1>1, Marks
<1>4. \A k \in 1..Len(wire[e]) : wire[e][k] = ReadOf(e) + k - 1
  BY <1>1, <1>3 DEF IInv, Continued
<1>5. ReadOf(e)' = IF Unread(Other(e))' THEN 0 ELSE 1 + Passed(e)'
  BY DEF ReadOf, Other
<1>6. CASE wire'[e] = wire[e] /\ ReadOf(e)' = ReadOf(e)
  BY <1>2, <1>4, <1>6
<1>7. ASSUME NEW m \in 0..MaxSends, wire'[e] = Append(wire[e], m), m = ReadOf(e) + Len(wire[e]),
             ReadOf(e)' = ReadOf(e)
      PROVE  wire'[e][i] = ReadOf(e)' + i - 1
  <2>1. /\ Len(wire'[e]) = Len(wire[e]) + 1
        /\ \A k \in 1..Len(wire[e]) : wire'[e][k] = wire[e][k]
        /\ wire'[e][Len(wire[e]) + 1] = m
    BY <1>1, <1>7, AppendProperties
  <2>2. CASE i = Len(wire[e]) + 1
    BY <1>1, <1>7, <2>1, <2>2
  <2>3. CASE i \in 1..Len(wire[e])
    BY <1>1, <1>4, <1>7, <2>1, <2>3
  <2> QED
    BY <1>1, <1>2, <2>1, <2>2, <2>3
<1>8. ASSUME wire[e] # <<>>, wire'[e] = Tail(wire[e]), ReadOf(e)' = ReadOf(e) + 1
      PROVE  wire'[e][i] = ReadOf(e)' + i - 1
  <2>1. /\ Len(wire'[e]) = Len(wire[e]) - 1
        /\ \A k \in 1..Len(wire'[e]) : wire'[e][k] = wire[e][k + 1]
    BY <1>1, <1>8, HeadTailProperties
  <2>2. i + 1 \in 1..Len(wire[e])
    <3>1. \A l \in Nat : \A j \in 1..(l - 1) : j + 1 \in 1..l
      OBVIOUS
    <3> QED
      BY <1>1, <1>2, <2>1, <3>1
  <2>3. wire'[e][i] = ReadOf(e) + (i + 1) - 1
    BY <1>2, <1>4, <2>1, <2>2
  <2> QED
    BY <1>1, <1>2, <1>8, <2>3
<1>9. CASE WriteHandshake(e)
  <2>1. Unwritten(e) /\ wire[e] = <<>> /\ Unread(Other(e))
    BY <1>3, <1>9 DEF WriteHandshake, IInv, Silent, Unwritten
  <2>2. wire'[e] = Append(wire[e], HS)
    BY <1>1, <1>9 DEF WriteHandshake
  <2>3. ReadOf(e) = 0 /\ Len(wire[e]) = 0
    BY <2>1 DEF ReadOf
  <2>4. ReadOf(e)' = ReadOf(e)
    BY <1>9, OwnStep
  <2> QED
    BY <1>7, <2>2, <2>3, <2>4, TransportConstants DEF HS
<1>10. CASE ReadHandshake(Other(e))
  <2>1. stage[Other(e)] = "read" /\ wire[e] # <<>> /\ wire'[e] = Tail(wire[e])
        /\ UNCHANGED <<rpc, got>>
    BY <1>1, <1>10 DEF ReadHandshake
  <2>2. ReadOf(e) = 0 /\ Passed(e) = 0
    BY <2>1, NothingPassed DEF ReadOf, Unread
  <2>3. Passed(e)' = Passed(e)
    BY <2>1 DEF Passed, Places, Remote, Owner, Other
  <2> QED
    BY <1>3, <1>5, <1>8, <1>10, <2>1, <2>2, <2>3
<1>11. CASE ReadMessage(Other(e))
  <2>1. Delivers(Other(e))
    <3>1. ~Close(Other(e))
      BY <1>0, <1>1, Closes DEF Alive, Other
    <3> QED
      BY <1>1, <1>11, <3>1, ReadSplit
  <2>2. stage[Other(e)] = "open" /\ stage'[Other(e)] = "open"
        /\ wire[e] # <<>> /\ wire'[e] = Tail(wire[e])
    BY <1>1, <2>1 DEF Delivers, ReadMessage
  <2>3. ~Unread(Other(e)) /\ ~Unread(Other(e))'
    BY <1>3, <2>2 DEF Unread
  <2>4. Passed(e)' = Passed(e) + 1
    BY <2>1, PassedStep
  <2>5. ReadOf(e)' = ReadOf(e) + 1
    BY <1>1, <1>5, <2>3, <2>4 DEF ReadOf
  <2> QED
    BY <1>8, <2>2, <2>5
<1>12. CASE OnPeer(e) \/ Send(e)
  <2>1. wire'[e] = wire[e]
    BY <1>12 DEF OnPeer, Send
  <2> QED
    BY <1>6, <1>12, <2>1, OwnStep
<1>13. CASE WriteMessage(e)
  <2>1. CASE UNCHANGED wire
    BY <1>6, <1>13, <2>1, OwnStep
  <2>2. CASE wire # wire'
    <3>1. /\ stage[e] # "closed" /\ ~Fails(e) /\ outbox[e] # <<>>
          /\ wire'[e] = Append(wire[e], Head(outbox[e]))
      BY <1>1, <1>13, <2>2 DEF WriteMessage
    <3>2. /\ outbox[e] \in Seq(1..MaxSends) /\ Len(outbox[e]) \in Nat \ {0}
          /\ Head(outbox[e]) \in 1..MaxSends /\ Head(outbox[e]) = outbox[e][1]
          /\ DOMAIN outbox[e] = 1..Len(outbox[e]) /\ sent[e] \in Nat
      <4>1. /\ outbox[e] \in Seq(1..MaxSends) /\ Len(outbox[e]) \in Nat
            /\ DOMAIN outbox[e] = 1..Len(outbox[e]) /\ sent[e] \in Nat
        BY <1>0, StreamType
      <4>2. Len(outbox[e]) # 0 /\ Head(outbox[e]) = outbox[e][1]
        BY <3>1, <4>1
      <4> QED
        BY <3>1, <4>1, <4>2, HeadTailProperties
    <3>3. Head(outbox[e]) = sent[e] - Len(outbox[e]) + 1
      BY <3>2 DEF IInv, InOrder
    <3>4. Speaks(e)
      <4>1. stage[e] \in {"open", "closing"}
        BY <1>0, <3>1 DEF IInv, Fresh, TypeOK, Stage
      <4>2. sent[e] > 0
        BY <3>2, <3>3
      <4> QED
        BY <4>1, <4>2 DEF Speaks
    <3>5. ReadOf(e) + Len(wire[e]) = 1 + sent[e] - Len(outbox[e])
      BY <1>3, <3>1, <3>4 DEF IInv, Joined, Fails
    <3>6. Head(outbox[e]) = ReadOf(e) + Len(wire[e]) /\ Head(outbox[e]) \in 0..MaxSends
      BY <1>1, <3>2, <3>3, <3>5
    <3> QED
      BY <1>7, <1>13, <3>1, <3>6, OwnStep
  <2> QED
    BY <2>1, <2>2
<1> QED
  BY <1>3, <1>6, <1>9, <1>10, <1>11, <1>12, <1>13, Apart

LEMMA JoinedStep == IInv /\ [Next]_vars => Joined'
<1> SUFFICES ASSUME IInv, [Next]_vars, NEW e \in End,
                    Alive(Other(e))', Speaks(e)', e[1] \notin broken'
             PROVE  ReadOf(e)' + Len(wire'[e]) = 1 + sent'[e] - Len(outbox'[e])
  BY DEF Joined, Alive, ReadOf, Speaks, Other
<1>0. TypeOK
  BY DEF IInv
<1>1. /\ wire[e] \in Seq(0..MaxSends) /\ outbox[e] \in Seq(1..MaxSends)
      /\ Len(wire[e]) \in Nat /\ Len(outbox[e]) \in Nat /\ sent[e] \in Nat
      /\ DOMAIN wire = End /\ DOMAIN outbox = End /\ DOMAIN sent = End /\ DOMAIN stage = End
      /\ ReadOf(e) \in Nat /\ Passed(e) \in Nat
      /\ Other(e) \in End /\ Other(Other(e)) = e /\ Other(e) # e
  BY <1>0, StreamType, ReadOfType, Ends, PassedType
<1>3. /\ Alive(Other(e))
      /\ Unread(Other(e))' <=> Unread(Other(e)) /\ ~ReadHandshake(Other(e))
  BY <1>1, Marks
<1>4. Speaks(e) /\ e[1] \notin broken =>
        ReadOf(e) + Len(wire[e]) = 1 + sent[e] - Len(outbox[e])
  BY <1>3 DEF IInv, Joined
<1>5. ReadOf(e)' = IF Unread(Other(e))' THEN 0 ELSE 1 + Passed(e)'
  BY DEF ReadOf, Other
<1>6. ASSUME Speaks(e), wire[e] # <<>>, wire'[e] = Tail(wire[e]), ReadOf(e)' = ReadOf(e) + 1,
             UNCHANGED <<outbox, sent, broken>>
      PROVE  ReadOf(e)' + Len(wire'[e]) = 1 + sent'[e] - Len(outbox'[e])
  <2>1. Len(wire'[e]) = Len(wire[e]) - 1
    BY <1>1, <1>6, HeadTailProperties
  <2> QED
    BY <1>1, <1>4, <1>6, <2>1
<1>9. CASE WriteHandshake(e)
  <2>1. wire[e] = <<>> /\ Unread(Other(e)) /\ outbox[e] = <<>> /\ sent[e] = 0
    BY <1>3, <1>9 DEF WriteHandshake, IInv, Silent, Unwritten, Fresh
  <2>2. wire'[e] = Append(wire[e], HS) /\ UNCHANGED <<outbox, sent>>
    BY <1>1, <1>9 DEF WriteHandshake
  <2>3. Len(wire'[e]) = 1
    BY <2>1, <2>2
  <2>4. ReadOf(e)' = 0
    BY <1>9, <2>1, OwnStep DEF ReadOf
  <2> QED
    BY <2>1, <2>2, <2>3, <2>4
<1>10. CASE ReadHandshake(Other(e))
  <2>1. stage[Other(e)] = "read" /\ wire[e] # <<>> /\ wire'[e] = Tail(wire[e])
        /\ UNCHANGED <<rpc, got, outbox, sent, broken>>
    BY <1>1, <1>10 DEF ReadHandshake
  <2>2. ReadOf(e) = 0 /\ Passed(e) = 0
    BY <2>1, NothingPassed DEF ReadOf, Unread
  <2>3. Passed(e)' = Passed(e)
    BY <2>1 DEF Passed, Places, Remote, Owner, Other
  <2>4. Speaks(e)
    <3>1. stage' = [stage EXCEPT ![Other(e)] = stage'[Other(e)]]
      BY <1>0, <1>1, <1>10, Half DEF ReadHandshake
    <3>2. stage'[e] = stage[e]
      BY <1>1, <3>1
    <3> QED
      BY <2>1, <3>2 DEF Speaks
  <2> QED
    BY <1>3, <1>5, <1>6, <1>10, <2>1, <2>2, <2>3, <2>4
<1>11. CASE ReadMessage(Other(e))
  <2>1. Delivers(Other(e))
    <3>1. ~Close(Other(e))
      BY <1>0, <1>1, Closes DEF Alive, Other
    <3> QED
      BY <1>1, <1>11, <3>1, ReadSplit
  <2>2. /\ stage[Other(e)] = "open" /\ wire[e] # <<>> /\ wire'[e] = Tail(wire[e])
        /\ UNCHANGED <<stage, outbox, sent, broken>>
    BY <1>1, <2>1 DEF Delivers, ReadMessage
  <2>3. ~Unread(Other(e)) /\ ~Unread(Other(e))'
    BY <1>3, <2>2 DEF Unread
  <2>4. Passed(e)' = Passed(e) + 1
    BY <2>1, PassedStep
  <2>5. ReadOf(e)' = ReadOf(e) + 1
    BY <1>1, <1>5, <2>3, <2>4 DEF ReadOf
  <2>6. Speaks(e)
    BY <2>2 DEF Speaks
  <2> QED
    BY <1>6, <2>2, <2>5, <2>6
<1>12. ASSUME Speaks(e), outbox'[e] = Append(outbox[e], sent[e] + 1), sent'[e] = sent[e] + 1,
              sent[e] + 1 \in 1..MaxSends, UNCHANGED <<wire, broken>>, ReadOf(e)' = ReadOf(e)
       PROVE  ReadOf(e)' + Len(wire'[e]) = 1 + sent'[e] - Len(outbox'[e])
  <2>1. Len(outbox'[e]) = Len(outbox[e]) + 1
    BY <1>1, <1>12, AppendProperties
  <2> QED
    BY <1>1, <1>4, <1>12, <2>1
<1>13. CASE OnPeer(e)
  <2>1. stage[e] = "register" /\ sent[e] = 0 /\ ReadOf(e)' = ReadOf(e)
    BY <1>13, OwnStep DEF OnPeer, IInv, Fresh
  <2>2. CASE swarm[Owner(e)][Remote(e)] # NoEnd
    <3>1. stage'[e] = "closing" /\ sent'[e] = 0
      BY <1>1, <1>13, <2>1, <2>2 DEF OnPeer, Close
    <3> QED
      BY <3>1 DEF Speaks
  <2>3. CASE swarm[Owner(e)][Remote(e)] = NoEnd
    <3>1. outbox'[e] = Append(outbox[e], 1) /\ sent'[e] = 1 /\ UNCHANGED <<wire, broken>>
      BY <1>1, <1>13, <2>3 DEF OnPeer
    <3>2. Speaks(e)
      BY <2>1 DEF Speaks
    <3> QED
      BY <1>12, <2>1, <3>1, <3>2, TransportConstants
  <2> QED
    BY <2>2, <2>3
<1>14. CASE Send(e)
  <2>1. /\ outbox'[e] = Append(outbox[e], sent[e] + 1) /\ sent'[e] = sent[e] + 1
        /\ sent[e] < MaxSends /\ UNCHANGED <<stage, wire, broken>>
        /\ sent[e] > 0
    BY <1>1, <1>14 DEF Send, IInv, Greeted
  <2>2. Speaks(e)
    BY <2>1 DEF Speaks
  <2>3. sent[e] + 1 \in 1..MaxSends
    BY <1>1, <2>1, TransportConstants
  <2> QED
    BY <1>12, <1>14, <2>1, <2>2, <2>3, OwnStep
<1>15. CASE WriteMessage(e)
  <2>1. stage[e] # "closed" /\ ~Fails(e) /\ Speaks(e) /\ e[1] \notin broken
    <3>1. UNCHANGED <<stage, sent, broken>>
      BY <1>15 DEF WriteMessage
    <3> QED
      BY <1>3, <3>1 DEF Speaks, Fails, Alive
  <2>2. /\ outbox[e] # <<>> /\ outbox'[e] = Tail(outbox[e]) /\ sent'[e] = sent[e]
        /\ wire'[e] = Append(wire[e], Head(outbox[e]))
    BY <1>1, <1>15, <2>1 DEF WriteMessage
  <2>3. Len(outbox'[e]) = Len(outbox[e]) - 1 /\ Head(outbox[e]) \in 1..MaxSends
    BY <1>1, <2>2, HeadTailProperties
  <2>4. Len(wire'[e]) = Len(wire[e]) + 1
    <3>1. Head(outbox[e]) \in 0..MaxSends
      BY <2>3
    <3> QED
      BY <1>1, <2>2, <3>1, AppendProperties
  <2>5. ReadOf(e)' = ReadOf(e)
    BY <1>15, OwnStep
  <2> QED
    BY <1>1, <1>4, <2>1, <2>2, <2>3, <2>4, <2>5
<1>16. CASE /\ ~WriteHandshake(e) /\ ~ReadHandshake(Other(e)) /\ ~ReadMessage(Other(e))
            /\ ~OnPeer(e) /\ ~Send(e) /\ ~WriteMessage(e)
  <2>1. /\ wire'[e] = wire[e] /\ outbox'[e] = outbox[e] /\ sent'[e] = sent[e]
        /\ ReadOf(e)' = ReadOf(e) /\ Speaks(e) /\ e[1] \notin broken
    BY <1>16, Apart
  <2> QED
    BY <1>4, <2>1
<1> QED
  BY <1>9, <1>10, <1>11, <1>13, <1>14, <1>15, <1>16

-----------------------------------------------------------------------------
(* The theorems. *)

LEMMA InitInv == Init => IInv
<1> SUFFICES ASSUME Init PROVE IInv
  OBVIOUS
<1>1. TypeOK
  BY InitType
<1>2. Fresh /\ Validated /\ Registered /\ Greeted
  BY Ends DEF Init, Fresh, Validated, Registered, Greeted
<1>3. Admitted
  BY DEF Init, Admitted
<1>4. Sources /\ NoGaps
  BY Ends DEF Init, Sources, NoGaps
<1>5. InOrder /\ Silent /\ Continued
  BY Ends DEF Init, InOrder, Silent, Continued, Unread
<1>6. Joined
  BY Ends DEF Init, Joined, Speaks
<1> QED
  BY <1>1, <1>2, <1>3, <1>4, <1>5, <1>6 DEF IInv

LEMMA Inductive == Spec => []IInv
<1>1. IInv /\ [Next]_vars => IInv'
  BY TypeStep, FreshStep, ValidatedStep, RegisteredStep, GreetedStep, AdmittedStep,
     SourcesStep, NoGapsStep, InOrderStep, SilentStep, ContinuedStep, JoinedStep
     DEF IInv
<1> QED
  BY InitInv, <1>1, PTL DEF Spec

(* The variables have their types: the outboxes and the rpc channels never *)
(* hold more than they have room for, and no handshake is ever taken for a *)
(* message.                                                                *)
THEOREM TypeCorrect == Spec => []TypeOK
<1>1. IInv => TypeOK
  BY DEF IInv
<1> QED
  BY Inductive, <1>1, PTL

(* What a loop receives over a connection is what was sent, in order and   *)
(* without a gap, whatever is closed, broken or refused on the way         *)
(* (writeLoop, the read loop of handleConn and Consume).                   *)
THEOREM NoGapsHolds == Spec => []NoGaps
<1>1. IInv => NoGaps
  BY DEF IInv
<1> QED
  BY Inductive, <1>1, PTL

(* Only other nodes of the same torrent get into a swarm (validateHandshake*)
(* before OnPeer).                                                         *)
THEOREM SwarmOfOthersHolds == Spec => []SwarmOfOthers
<1>1. IInv => SwarmOfOthers
  BY DEF IInv, Admitted, SwarmOfOthers, ValidHandshake
<1> QED
  BY Inductive, <1>1, PTL

(* Every message in an rpc channel came over the connection its sender is  *)
(* registered with (OnPeer closes all others, and nothing in the transport *)
(* takes a peer out again).                                                *)
THEOREM RepliesReachSenderHolds == Spec => []RepliesReachSender
<1>1. IInv => RepliesReachSender
  <2> SUFFICES ASSUME IInv, NEW n \in Node, NEW k \in DOMAIN rpc[n]
               PROVE  swarm[n][Remote(Other(rpc[n][k].from))] = Other(rpc[n][k].from)
    BY DEF RepliesReachSender
  <2>1. rpc[n][k].from \in End
    <3>1. rpc[n] \in Seq([from : End, num : 1..MaxSends])
      BY DEF IInv, TypeOK
    <3>2. rpc[n][k] \in [from : End, num : 1..MaxSends]
      BY <3>1, ElementOfSeq, LenProperties
    <3> QED
      BY <3>2
  <2>2. Remote(Other(rpc[n][k].from)) = Owner(rpc[n][k].from)
    BY <2>1, Ends
  <2> QED
    BY <2>2 DEF IInv, Sources
<1> QED
  BY Inductive, <1>1, PTL

-----------------------------------------------------------------------------
(* Handshakes. *)

\* Both ends of a connection come up together.
Together == \A e \in End : stage[e] = "idle" <=> stage[Other(e)] = "idle"

LEMMA TogetherStep == TypeOK /\ Together /\ [Next]_vars => Together'
<1> SUFFICES ASSUME TypeOK, Together, [Next]_vars PROVE Together'
  OBVIOUS
<1>1. stage \in [End -> Stage] /\ \A e \in End : Other(e) \in End /\ Other(e)[1] = e[1]
  BY Ends DEF TypeOK
<1>2. ASSUME NEW c \in Conn, Dial(c) PROVE Together'
  <2>1. \A e \in End : HandshakeOrder(e)[1] # "idle"
    BY DEF HandshakeOrder
  <2>2. \A e \in End : stage'[e] = "idle" <=> stage[e] = "idle" /\ e[1] # c
    BY <1>1, <1>2, <2>1 DEF Dial
  <2> QED
    BY <1>1, <2>2 DEF Together, Other
<1>3. CASE \A e \in End : stage'[e] = "idle" <=> stage[e] = "idle"
  BY <1>1, <1>3 DEF Together, Other
<1>4. ASSUME NEW e \in End, stage[e] # "idle", stage' = [stage EXCEPT ![e] = stage'[e]],
             stage'[e] # "idle"
      PROVE  Together'
  BY <1>1, <1>3, <1>4
<1>5. ASSUME NEW e \in End, stage[e] # "idle", Close(e) PROVE Together'
  BY <1>4, <1>5, Closes
<1>6. ASSUME NEW e \in End, HandleConn(e) PROVE Together'
  <2>1. CASE WriteHandshake(e) \/ ReadHandshake(e)
    <3>1. stage[e] \in {"write", "read"} /\ HandshakeHalf(e)
      BY <2>1 DEF WriteHandshake, ReadHandshake
    <3>2. stage' = [stage EXCEPT ![e] = stage'[e]] /\ stage'[e] # "idle"
      BY <3>1, Half
    <3> QED
      BY <1>4, <3>1, <3>2
  <2>2. CASE HandshakeFails(e) \/ ReadFails(e)
    BY <1>5, <2>2 DEF HandshakeFails, ReadFails
  <2>3. CASE OnPeer(e)
    BY <1>1, <1>4, <1>5, <2>3 DEF OnPeer
  <2>4. CASE ReadMessage(e)
    BY <1>3, <1>5, <2>4 DEF ReadMessage
  <2>5. CASE ShutSocket(e)
    BY <1>1, <1>4, <2>5 DEF ShutSocket
  <2> QED
    BY <1>6, <2>1, <2>2, <2>3, <2>4, <2>5 DEF HandleConn
<1>7. CASE UNCHANGED stage
  BY <1>3, <1>7
<1> QED
  BY <1>2, <1>6, <1>7
     DEF Next, WriteLoop, vars, Break, Send, WriteMessage, WriterEnds, Consume

\* What an end has written and nobody has read is still on the wire.
LEMMA Greets ==
    ASSUME IInv, NEW e \in End, Alive(Other(e)), Unread(Other(e)), e[1] \notin broken,
           stage[e] \in {"register", "open"} \/ (stage[e] = "read" /\ e[2] = "out")
    PROVE  wire[e] # <<>>
<1>1. Len(wire[e]) = 1 + sent[e] - Len(outbox[e])
  <2>1. ReadOf(e) = 0 /\ Speaks(e)
    BY DEF ReadOf, Speaks
  <2> QED
    BY <2>1, StreamType DEF IInv, Joined
<1>2. Len(outbox[e]) <= sent[e]
  <2>1. CASE outbox[e] = <<>>
    BY <2>1, StreamType DEF IInv
  <2>2. CASE outbox[e] # <<>>
    <3>1. 1 \in DOMAIN outbox[e]
      BY <2>2, StreamType, EmptySeq DEF IInv
    <3>2. outbox[e][1] = sent[e] - Len(outbox[e]) + 1
      BY <3>1 DEF IInv, InOrder
    <3>3. outbox[e][1] \in 1..MaxSends
      BY <3>1, StreamType, ElementOfSeq DEF IInv
    <3> QED
      BY <3>2, <3>3, StreamType, TransportConstants DEF IInv
  <2> QED
    BY <2>1, <2>2
<1> QED
  BY <1>1, <1>2, StreamType, EmptySeq DEF IInv

(* No handshake waits for what will not come (handleConn: the dialer       *)
(* writes first and the acceptor reads first).                             *)
THEOREM HandshakesProceedHolds == Spec => []HandshakesProceed
<1>1. Init => Together
  BY Ends DEF Init, Together
<1>2. IInv /\ Together => HandshakesProceed
  <2> SUFFICES ASSUME IInv, Together, NEW e \in End, stage[e] = "read",
                      wire[Other(e)] = <<>>, e[1] \notin broken,
                      stage[Other(e)] \notin {"write", "closing", "closed"}
               PROVE  stage[Other(e)] = "read" /\ wire[e] # <<>>
    BY DEF HandshakesProceed
  <2>1. Other(e) \in End /\ Other(Other(e)) = e /\ Other(e)[1] = e[1]
        /\ e[2] \in {"out", "in"} /\ Other(e)[2] \in {"out", "in"} /\ Other(e)[2] # e[2]
    BY Ends
  <2>2. stage[Other(e)] \in {"read", "register", "open"}
    BY <2>1 DEF IInv, TypeOK, Stage, Together
  <2>3. ~(stage[Other(e)] \in {"register", "open"})
        /\ ~(stage[Other(e)] = "read" /\ Other(e)[2] = "out")
    BY <2>1, Greets DEF Alive, Unread
  <2> QED
    BY <2>1, <2>2, <2>3, Greets DEF Alive, Unread
<1>3. IInv /\ Together /\ [Next]_vars => Together'
  BY TogetherStep DEF IInv
<1> QED
  BY <1>1, <1>2, <1>3, Inductive, PTL DEF Spec

-----------------------------------------------------------------------------
(* Streams. *)

\* Nothing is under way, or waits for a loop, that was not sent.
Spoken ==
    /\ \A e \in End : \A i \in DOMAIN wire[e] : wire[e][i] <= sent[e]
    /\ \A n \in Node : \A k \in DOMAIN rpc[n] : rpc[n][k].num <= sent[rpc[n][k].from]

LEMMA StreamStep ==
    ASSUME [Next]_vars
    PROVE  \/ UNCHANGED <<swarm, sent, got>>
           \/ \E e \in End : OnPeer(e) /\ swarm[Owner(e)][Remote(e)] = NoEnd
           \/ \E e \in End : Send(e)
           \/ \E n \in Node : Consume(n)
  BY DEF Next, vars, Dial, Break, HandleConn, WriteLoop, WriteHandshake, ReadHandshake,
         HandshakeFails, OnPeer, ReadMessage, ReadFails, ShutSocket, WriteMessage, WriterEnds

LEMMA SentGrows ==
    ASSUME IInv, [Next]_vars, NEW e \in End
    PROVE  sent[e] \in Nat /\ sent'[e] \in Nat /\ sent[e] <= sent'[e]
<1>1. sent[e] \in Nat /\ DOMAIN sent = End /\ sent'[e] \in Nat
  <2>1. sent' \in [End -> 0..MaxSends]
    BY TypeStep DEF TypeOK
  <2> QED
    BY <2>1, StreamType, TransportConstants DEF IInv
<1>2. ASSUME NEW x \in End, OnPeer(x), swarm[Owner(x)][Remote(x)] = NoEnd
      PROVE  sent[e] <= sent'[e]
  <2>1. sent[x] = 0 /\ sent' = [sent EXCEPT ![x] = 1]
    BY <1>2 DEF OnPeer, IInv, Fresh
  <2> QED
    BY <1>1, <2>1
<1>3. ASSUME NEW x \in End, Send(x) PROVE sent[e] <= sent'[e]
  BY <1>1, <1>3 DEF Send
<1>4. ASSUME NEW n \in Node, Consume(n) PROVE sent[e] <= sent'[e]
  BY <1>1, <1>4 DEF Consume
<1>5. CASE UNCHANGED <<swarm, sent, got>>
  BY <1>1, <1>5
<1> QED
  BY <1>1, <1>2, <1>3, <1>4, <1>5, StreamStep

LEMMA WireSpoken ==
    ASSUME IInv, [Next]_vars, Spoken, NEW e \in End, NEW i \in DOMAIN wire'[e]
    PROVE  wire'[e][i] <= sent'[e]
<1>0. TypeOK
  BY DEF IInv
<1>1. /\ wire[e] \in Seq(0..MaxSends) /\ DOMAIN wire[e] = 1..Len(wire[e])
      /\ outbox[e] \in Seq(1..MaxSends) /\ DOMAIN outbox[e] = 1..Len(outbox[e])
      /\ Len(wire[e]) \in Nat /\ Len(outbox[e]) \in Nat /\ DOMAIN wire = End
  BY <1>0, StreamType
<1>2. i \in 1..Len(wire'[e])
  BY TypeStep, LenProperties DEF TypeOK
<1>3. sent[e] \in Nat /\ sent'[e] \in Nat /\ sent[e] <= sent'[e]
  BY SentGrows
<1>4. \A k \in 1..Len(wire[e]) : wire[e][k] \in Nat /\ wire[e][k] <= sent'[e]
  <2>1. \A k \in 1..Len(wire[e]) : wire[e][k] \in 0..MaxSends
    BY <1>1, ElementOfSeq
  <2>2. \A k \in 1..Len(wire[e]) : wire[e][k] <= sent[e]
    BY <1>1 DEF Spoken
  <2> QED
    BY <1>3, <2>1, <2>2, TransportConstants
<1>5. CASE wire'[e] = wire[e]
  BY <1>2, <1>4, <1>5
<1>6. ASSUME NEW m \in 0..MaxSends, wire'[e] = Append(wire[e], m), m <= sent'[e]
      PROVE  wire'[e][i] <= sent'[e]
  <2>1. /\ Len(wire'[e]) = Len(wire[e]) + 1
        /\ \A k \in 1..Len(wire[e]) : wire'[e][k] = wire[e][k]
        /\ wire'[e][Len(wire[e]) + 1] = m
    BY <1>1, <1>6, AppendProperties
  <2>2. CASE i = Len(wire[e]) + 1
    BY <1>6, <2>1, <2>2
  <2>3. CASE i \in 1..Len(wire[e])
    BY <1>4, <2>1, <2>3
  <2> QED
    BY <1>1, <1>2, <2>1, <2>2, <2>3
<1>7. ASSUME wire[e] # <<>>, wire'[e] = Tail(wire[e]) PROVE wire'[e][i] <= sent'[e]
  <2>1. /\ Len(wire'[e]) = Len(wire[e]) - 1
        /\ \A k \in 1..Len(wire'[e]) : wire'[e][k] = wire[e][k + 1]
    BY <1>1, <1>7, HeadTailProperties
  <2>2. i + 1 \in 1..Len(wire[e])
    <3>1. \A l \in Nat : \A j \in 1..(l - 1) : j + 1 \in 1..l
      OBVIOUS
    <3> QED
      BY <1>1, <1>2, <2>1, <3>1
  <2> QED
    BY <1>2, <1>4, <2>1, <2>2
<1>8. CASE WriteHandshake(e)
  <2>1. wire'[e] = Append(wire[e], 0) /\ 0 \in 0..MaxSends /\ 0 <= sent'[e]
    BY <1>1, <1>3, <1>8, TransportConstants DEF WriteHandshake, HS
  <2> QED
    BY <1>6, <2>1
<1>9. CASE WriteMessage(e)
  <2>1. CASE wire'[e] = wire[e]
    BY <1>5, <2>1
  <2>2. CASE wire'[e] # wire[e]
    <3>1. outbox[e] # <<>> /\ wire'[e] = Append(wire[e], Head(outbox[e])) /\ sent' = sent
      BY <1>1, <1>9, <2>2 DEF WriteMessage
    <3>2. Head(outbox[e]) = outbox[e][1] /\ Len(outbox[e]) >= 1
          /\ Head(outbox[e]) \in 1..MaxSends
      <4>1. Len(outbox[e]) # 0
        BY <1>1, <3>1, EmptySeq
      <4>2. Head(outbox[e]) \in 1..MaxSends
        BY <1>1, <3>1, HeadTailProperties
      <4>3. Head(outbox[e]) = outbox[e][1]
        BY <1>1, <3>1
      <4>4. Len(outbox[e]) >= 1
        BY <1>1, <4>1
      <4> QED
        BY <4>2, <4>3, <4>4
    <3>3. outbox[e][1] = sent[e] - Len(outbox[e]) + 1
      BY <1>1, <3>2 DEF IInv, InOrder
    <3>4. Head(outbox[e]) \in 0..MaxSends /\ Head(outbox[e]) <= sent'[e]
      BY <1>1, <1>3, <3>1, <3>2, <3>3, TransportConstants
    <3> QED
      BY <1>6, <3>1, <3>4
  <2> QED
    BY <2>1, <2>2
<1>10. CASE ReadHandshake(Other(e)) \/ ReadMessage(Other(e))
  <2>1. wire[e] # <<>> /\ wire'[e] = Tail(wire[e])
    BY <1>1, <1>10, Ends DEF ReadHandshake, ReadMessage
  <2> QED
    BY <1>7, <2>1
<1>11. CASE OnPeer(e) \/ Send(e)
  BY <1>5, <1>11 DEF OnPeer, Send
<1> QED
  BY <1>5, <1>8, <1>9, <1>10, <1>11, Apart

LEMMA SpokenStep == IInv /\ Spoken /\ [Next]_vars => Spoken'
<1> SUFFICES ASSUME IInv, Spoken, [Next]_vars PROVE Spoken'
  OBVIOUS
<1>1. \A e \in End : \A i \in DOMAIN wire'[e] : wire'[e][i] <= sent'[e]
  BY WireSpoken
<1>2. \A e \in End : sent[e] \in Nat /\ sent'[e] \in Nat /\ sent[e] <= sent'[e]
  BY SentGrows
<1> DEFINE Said(m) == m \in [from : End, num : Nat] /\ m.num <= sent[m.from]
           SaidNext(m) == m.num <= sent'[m.from]
<1>3. \A m : Said(m) => SaidNext(m)
  BY <1>2
<1>t. \A n \in Node : /\ rpc[n] \in Seq([from : End, num : 1..MaxSends])
                      /\ DOMAIN rpc[n] = 1..Len(rpc[n])
                      /\ DOMAIN rpc'[n] = 1..Len(rpc'[n])
  BY TypeStep, LenProperties DEF IInv, TypeOK
<1>4. \A n \in Node : \A k \in DOMAIN rpc[n] : Said(rpc[n][k])
  <2> SUFFICES ASSUME NEW n \in Node, NEW k \in DOMAIN rpc[n] PROVE Said(rpc[n][k])
    OBVIOUS
  <2>1. rpc[n][k] \in [from : End, num : 1..MaxSends]
    BY <1>t, ElementOfSeq
  <2> QED
    BY <2>1, TransportConstants DEF Spoken
<1> HIDE DEF Said
<1> SUFFICES \A n \in Node : \A k \in DOMAIN rpc'[n] : SaidNext(rpc'[n][k])
  BY <1>1 DEF Spoken
<1>5. CASE UNCHANGED <<rpc, got>>
  BY <1>3, <1>4, <1>5
<1>6. ASSUME NEW e \in End, Delivers(e)
      PROVE  \A n \in Node : \A k \in DOMAIN rpc'[n] : SaidNext(rpc'[n][k])
  <2> DEFINE o == Owner(e)
             new == [from |-> Other(e), num |-> 1 + Passed(Other(e))]
  <2>1. /\ \A n \in Node : n # o => rpc'[n] = rpc[n]
        /\ Len(rpc[o]) \in Nat /\ Len(rpc'[o]) = Len(rpc[o]) + 1
        /\ \A k \in 1..Len(rpc[o]) : rpc'[o][k] = rpc[o][k]
        /\ rpc'[o][Len(rpc[o]) + 1] = new
    BY <1>6, Delivery
  <2>2. SaidNext(new)
    <3> DEFINE f == Other(e)
    <3>1. f \in End /\ wire[f] # <<>> /\ stage[e] = "open" /\ sent' = sent
      BY <1>6, Ends DEF Delivers, ReadMessage
    <3>2. 1 \in DOMAIN wire[f] /\ Head(wire[f]) = wire[f][1]
      <4>1. wire[f] \in Seq(0..MaxSends) /\ DOMAIN wire[f] = 1..Len(wire[f]) /\ Len(wire[f]) \in Nat
        BY <3>1, StreamType DEF IInv
      <4> HIDE DEF f
      <4> QED
        BY <3>1, <4>1, EmptySeq, HeadTailProperties
    <3>3. wire[f][1] <= sent[f]
      BY <3>1, <3>2 DEF Spoken
    <3>4. Head(wire[f]) = 1 + Passed(f)
      BY <3>1, NextOne
    <3> QED
      BY <3>1, <3>2, <3>3, <3>4
  <2> HIDE DEF new, SaidNext
  <2>3. ASSUME NEW n \in Node, NEW k \in DOMAIN rpc'[n] PROVE SaidNext(rpc'[n][k])
    <3>1. CASE n # o
      BY <1>3, <1>4, <2>1, <3>1 DEF SaidNext
    <3>2. CASE n = o
      <4>1. k \in 1..Len(rpc[o]) \/ k = Len(rpc[o]) + 1
        BY <1>t, <2>1, <2>3, <3>2
      <4>2. CASE k \in 1..Len(rpc[o])
        <5>1. Said(rpc[o][k])
          BY <1>t, <1>4, <2>3, <3>2, <4>2
        <5> QED
          BY <1>3, <2>1, <3>2, <4>2, <5>1 DEF SaidNext
      <4>3. CASE k = Len(rpc[o]) + 1
        BY <2>1, <2>2, <3>2, <4>3
      <4> QED
        BY <4>1, <4>2, <4>3
    <3> QED
      BY <3>1, <3>2
  <2> QED
    BY <2>3
<1>7. ASSUME NEW n \in Node, Consume(n)
      PROVE  \A x \in Node : \A k \in DOMAIN rpc'[x] : SaidNext(rpc'[x][k])
  <2>1. /\ \A x \in Node : x # n => rpc'[x] = rpc[x]
        /\ Len(rpc[n]) \in Nat \ {0} /\ Len(rpc'[n]) = Len(rpc[n]) - 1
        /\ \A k \in 1..Len(rpc'[n]) : rpc'[n][k] = rpc[n][k + 1]
    BY <1>7, Consumption
  <2>2. \A k \in 1..Len(rpc'[n]) : k + 1 \in DOMAIN rpc[n]
    BY <1>t, <2>1
  <2>3. \A x \in Node : \A k \in DOMAIN rpc'[x] :
            \E i \in DOMAIN rpc[x] : rpc'[x][k] = rpc[x][i]
    BY <1>t, <2>1, <2>2
  <2> HIDE DEF SaidNext
  <2> QED
    BY <1>3, <1>4, <2>3 DEF SaidNext
<1> QED
  BY <1>5, <1>6, <1>7, RpcStep

LEMMA StreamsStep == IInv /\ Spoken /\ [Next]_vars => [Str!Next]_(Str!vars)
<1> SUFFICES ASSUME IInv, Spoken, [Next]_vars PROVE [Str!Next]_(Str!vars)
  OBVIOUS
<1>1. CASE UNCHANGED <<swarm, sent, got>>
  BY <1>1 DEF Str!vars
<1>2. ASSUME NEW e \in End, OnPeer(e), swarm[Owner(e)][Remote(e)] = NoEnd
      PROVE  [Str!Next]_(Str!vars)
  <2>1. /\ swarm' = [swarm EXCEPT ![Owner(e)][Remote(e)] = e]
        /\ sent' = [sent EXCEPT ![e] = 1] /\ got' = got /\ stage[e] = "register"
    BY <1>2 DEF OnPeer
  <2>2. Owner(e) # Remote(e) /\ InfoHash[Owner(e)] = InfoHash[Remote(e)]
    BY <2>1 DEF IInv, Validated, ValidHandshake
  <2>3. Str!Join(e)
    BY <1>2, <2>1, <2>2 DEF Str!Join
  <2> QED
    BY <2>3 DEF Str!Next
<1>3. ASSUME NEW e \in End, Send(e) PROVE [Str!Next]_(Str!vars)
  <2>1. Str!Send(e)
    BY <1>3 DEF Send, Str!Send
  <2> QED
    BY <2>1 DEF Str!Next
<1>4. ASSUME NEW n \in Node, Consume(n) PROVE [Str!Next]_(Str!vars)
  <2> DEFINE h == Head(rpc[n])
             e == h.from
  <2>1. /\ e \in End /\ Remote(e) = n /\ h.num = got[e] + 1
        /\ got' = [got EXCEPT ![e] = got[e] + 1]
        /\ h = rpc[n][1] /\ 1 \in DOMAIN rpc[n]
    BY <1>4, Consumption
  <2>2. swarm' = swarm /\ sent' = sent
    BY <1>4 DEF Consume
  <2>3. swarm[n][Owner(e)] = Other(e)
    BY <2>1 DEF IInv, Sources
  <2>4. h.num <= sent[e]
    BY <2>1 DEF Spoken
  <2>5. got[e] \in Nat /\ sent[e] \in Nat
    BY <2>1, TransportConstants DEF IInv, TypeOK
  <2> HIDE DEF h, e
  <2>6. got[e] < sent[e]
    BY <2>1, <2>4, <2>5 DEF e
  <2>7. Str!Receive(e)
    BY <2>1, <2>2, <2>3, <2>6 DEF Str!Receive
  <2> QED
    BY <2>1, <2>7 DEF Str!Next
<1> QED
  BY <1>1, <1>2, <1>3, <1>4, StreamStep

(* Transport implements Streams: whatever is dialled twice, refused, cut,  *)
(* closed for a full channel or left in an outbox, a node has one          *)
(* connection with another for good, and its loop takes from it what the   *)
(* other end sent, in order and once (OnPeer, Send, writeLoop, handleConn).*)
THEOREM Refinement == Spec => OneStream
<1>1. Init => Spoken
  BY Ends DEF Init, Spoken
<1>2. Init => Str!Init
  BY DEF Init, Str!Init
<1> QED
  BY <1>1, <1>2, SpokenStep, StreamsStep, Inductive, PTL DEF Spec, OneStream, Str!Spec

=============================================================================
